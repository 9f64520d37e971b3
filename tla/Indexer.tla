------------------------------ MODULE Indexer ------------------------------
(***************************************************************************)
(* The block indexer (src/src/db/runFillDb.ts): a single process that      *)
(* imports the chain into Postgres, one database transaction per block,    *)
(* while caches of the database (known nodes, last epoch, timestamp of the *)
(* last block) live in memory.  The memory does not roll back with the     *)
(* transaction, stake_transactions rows are written outside of it, and the *)
(* process may die or lose an RPC answer between any two steps.            *)
(*                                                                         *)
(* DB_FILL_START_BLOCK is unset.  The validator observer and the bonus     *)
(* score processor are only the steps at which they can fail here.         *)
(***************************************************************************)
EXTENDS Chain

CONSTANTS
    FillStopBlock, \* DB_FILL_STOP_BLOCK; above MaxBlock when it is unset
    Faults,        \* the kinds of fault the environment may inject
    MaxFaults,     \* bound on the number of injected faults
    RowCap         \* a count of duplicate rows saturates here

FaultKinds == {"crash", "fail", "poll", "commitack", "swallow"}

ASSUME FaultModel ==
    /\ FillStopBlock \in Nat
    /\ Faults \subseteq FaultKinds
    /\ MaxFaults \in Nat
    /\ RowCap \in Nat \ {0}

VARIABLES
    chainHead,  \* newest block of the chain
    db,         \* the committed tables
    stakeTx,    \* rows of stake_transactions per event: autocommitted
    work,       \* the tables as the open transaction sees them
    aborted,    \* a statement of the open transaction failed and was swallowed
    pc,         \* where the process is
    cur,        \* currentBlockNumber
    latest,     \* latest_known_block
    lastEpoch,  \* lastInsertedPosdaoEpoch
    epochAfter, \* posdaoEpochAfterBlock
    known,      \* keys of knownNodes and knownNodesByMining
    before,     \* the block whose time is blockBeforeTimestamp, -1 for none
    nextEvent,  \* index of the next event to visit
    faults      \* faults injected so far

memory == <<cur, latest, lastEpoch, epochAfter, known, before, nextEvent>>
vars == <<chainHead, db, stakeTx, work, aborted, pc, memory, faults>>

NULL == -1

InTx == {"header", "nodes", "epoch", "validators", "events", "observe", "commit"}
Running == {"init", "loop", "poll"} \cup InTx

EventId == UNION {{b} \X DOMAIN EventsOf[b] : b \in Blocks}

EmptyDb == [headers |-> {}, nodes |-> {}, epochs |-> {}, epochNodes |-> {},
            avail |-> {}, hist |-> [k \in Pools \X Blocks |-> 0]]

HeaderBlocks(d) == {h.block : h \in d.headers}
NodePools(d) == {r.pool : r \in d.nodes}
EpochIds(d) == {r.id : r \in d.epochs}
ValidatorsIn(d, e) == {r.pool : r \in {q \in d.epochNodes : q.epoch = e}}
Largest(S) == CHOOSE x \in S : \A y \in S : y <= x

-----------------------------------------------------------------------------
Init ==
    /\ chainHead \in Blocks
    /\ db = EmptyDb
    /\ stakeTx = [e \in EventId |-> 0]
    /\ work = EmptyDb /\ aborted = FALSE
    /\ pc = "down"
    /\ cur = 0 /\ latest = 0 /\ lastEpoch = -1 /\ epochAfter = -1
    /\ known = {} /\ before = -1 /\ nextEvent = 1
    /\ faults = 0

-----------------------------------------------------------------------------
(* The environment.                                                        *)

ChainGrows ==
    /\ chainHead < MaxBlock
    /\ chainHead' = chainHead + 1
    /\ UNCHANGED <<db, stakeTx, work, aborted, pc, memory, faults>>

Inject(kind) ==
    /\ kind \in Faults
    /\ faults < MaxFaults
    /\ faults' = faults + 1

(* Mutant: the transaction of the failed attempt stays current.            *)
Discard_Kept == UNCHANGED <<work, aborted>>

(* Outside a transaction the process sees the committed tables.            *)
Discard == work' = db /\ aborted' = FALSE

(* A thrown error rolls the transaction back; the caches stay as they are, *)
(* and the loop takes the same block again.                                *)
RollBack ==
    /\ pc' = "loop"
    /\ Discard
    /\ UNCHANGED <<chainHead, db, cur, latest, lastEpoch, epochAfter, before, nextEvent>>

-----------------------------------------------------------------------------
(* Start of the process: everything in memory is read from the database.   *)

ResumeBlock == IF HeaderBlocks(db) = {} THEN 0 ELSE Largest(HeaderBlocks(db)) + 1

(* Mutant: the last epoch is not restored.                                 *)
ResumeEpoch_Forgotten == -1

ResumeEpoch == IF EpochIds(db) = {} THEN -1 ELSE Largest(EpochIds(db))

(* Mutant: the time of the last block is not restored.                     *)
ResumeBefore_Forgotten == -1

ResumeBefore == ResumeBlock - 1

ResumeNodes == NodePools(db)

Startup ==
    /\ pc = "down"
    /\ pc' = "init"
    /\ latest' = IF FillStopBlock < chainHead THEN FillStopBlock ELSE chainHead
    /\ lastEpoch' = ResumeEpoch
    /\ known' = ResumeNodes
    /\ cur' = ResumeBlock
    /\ before' = ResumeBefore
    /\ UNCHANGED <<chainHead, db, stakeTx, work, aborted, epochAfter, nextEvent, faults>>

(* bonusScoreProcessor.init(currentBlockNumber) queries the contracts at a *)
(* block; the node has no state for one it has not got.                    *)
InitCaches ==
    /\ pc = "init" /\ cur <= chainHead
    /\ pc' = "loop"
    /\ UNCHANGED <<chainHead, db, stakeTx, work, aborted, memory, faults>>

InitFails ==
    /\ pc = "init" /\ cur > chainHead
    /\ pc' = "down"
    /\ UNCHANGED <<chainHead, db, stakeTx, work, aborted, memory, faults>>

-----------------------------------------------------------------------------
(* One iteration of the block loop.                                        *)

LoopEnds ==
    /\ pc = "loop" /\ cur > latest
    /\ pc' = "done"
    /\ UNCHANGED <<chainHead, db, stakeTx, work, aborted, memory, faults>>

(* Mutant: one block too many.                                             *)
PastStop_Late == cur > FillStopBlock + 1

PastStop == cur >= FillStopBlock + 1

AutoStop ==
    /\ pc = "loop" /\ cur <= latest /\ PastStop
    /\ pc' = "done"
    /\ UNCHANGED <<chainHead, db, stakeTx, work, aborted, memory, faults>>

BeginBlock ==
    /\ pc = "loop" /\ cur <= latest /\ ~PastStop
    /\ pc' = "header"
    /\ epochAfter' = lastEpoch
    /\ UNCHANGED <<chainHead, db, stakeTx, work, aborted, cur, latest, lastEpoch, known,
                   before, nextEvent, faults>>

(* Mutant: an upsert instead of insertOrIgnore.                            *)
HeaderRows_Upsert(d) ==
    {h \in d.headers : h.block # cur} \cup {[block |-> cur, before |-> before]}

(* insertOrIgnore: a header that is already there stays as it is.          *)
HeaderRows(d) ==
    IF cur \in HeaderBlocks(d) THEN d.headers
    ELSE d.headers \cup {[block |-> cur, before |-> before]}

InsertHeader ==
    /\ pc = "header"
    /\ pc' = "nodes"
    /\ work' = [work EXCEPT !.headers = HeaderRows(work)]
    /\ epochAfter' = EpochOf[cur]
    /\ nextEvent' = 1
    /\ UNCHANGED <<chainHead, db, stakeTx, aborted, cur, latest, lastEpoch, known, before,
                   faults>>

(* getPoolsSet: the pools of the block's stake movements.                  *)
PoolsSet(b) ==
    {EventsOf[b][i].pool : i \in {j \in DOMAIN EventsOf[b] : EventsOf[b][j].kind = "stake"}}

PoolsToInsert(b) == PoolsSet(b) \cup (IF b = 0 THEN AllPoolsOf[0] ELSE {})

WithNode(d, p) == [d EXCEPT !.nodes = @ \cup {[pool |-> p, added |-> cur]}]

InsertNode(p) ==
    /\ pc = "nodes" /\ p \in PoolsToInsert(cur) \ known
    /\ work' = WithNode(work, p)
    /\ known' = known \cup {p}
    /\ UNCHANGED <<chainHead, db, stakeTx, aborted, pc, cur, latest, lastEpoch, epochAfter,
                   before, nextEvent, faults>>

NodesInserted ==
    /\ pc = "nodes" /\ PoolsToInsert(cur) \subseteq known
    /\ pc' = "epoch"
    /\ UNCHANGED <<chainHead, db, stakeTx, work, aborted, memory, faults>>

-----------------------------------------------------------------------------
(* The epoch transition: close the old epoch with its rewards, open the    *)
(* new one and attach its validators.                                      *)

SameEpoch ==
    /\ pc = "epoch" /\ epochAfter <= lastEpoch
    /\ pc' = "events"
    /\ UNCHANGED <<chainHead, db, stakeTx, work, aborted, memory, faults>>

(* Primary key and foreign keys of posdao_epoch.                           *)
EpochRowsRefused ==
    \/ epochAfter \in EpochIds(work)
    \/ lastEpoch \in EpochIds(work) /\ cur - 1 \notin HeaderBlocks(work)

(* Mutant: the epoch is closed at the block that opens the next one.       *)
EndStakingEpoch_Late(rows) ==
    {IF r.id = lastEpoch THEN [r EXCEPT !.end = cur] ELSE r : r \in rows}

EndStakingEpoch(rows) ==
    {IF r.id = lastEpoch THEN [r EXCEPT !.end = cur - 1] ELSE r : r \in rows}

UpdateValidatorReward(rows) ==
    {IF r.epoch = lastEpoch /\ r.pool \in AllPoolsOf[cur - 1]
     THEN [r EXCEPT !.rewarded = TRUE] ELSE r : r \in rows}

SwitchEpoch ==
    /\ pc = "epoch" /\ epochAfter > lastEpoch /\ ~EpochRowsRefused
    /\ pc' = "validators"
    /\ work' = [work EXCEPT
           !.epochs = EndStakingEpoch(@)
                          \cup {[id |-> epochAfter, start |-> cur, end |-> NULL]},
           !.epochNodes = UpdateValidatorReward(@)]
    /\ UNCHANGED <<chainHead, db, stakeTx, aborted, memory, faults>>

SwitchEpochFails ==
    /\ pc = "epoch" /\ epochAfter > lastEpoch /\ EpochRowsRefused
    /\ RollBack
    /\ UNCHANGED <<stakeTx, known, faults>>

ValidatorsLeft == ValidatorsOf[cur] \ ValidatorsIn(work, epochAfter)

(* A validator the process does not know gets its node row first.          *)
InsertEpochNode(p) ==
    /\ pc = "validators" /\ p \in ValidatorsLeft
    /\ LET d == IF p \in known THEN work ELSE WithNode(work, p)
       IN  /\ p \in NodePools(d)
           /\ work' = [d EXCEPT !.epochNodes = @ \cup
                           {[epoch |-> epochAfter, pool |-> p, rewarded |-> FALSE]}]
    /\ known' = known \cup {p}
    /\ UNCHANGED <<chainHead, db, stakeTx, aborted, pc, cur, latest, lastEpoch, epochAfter,
                   before, nextEvent, faults>>

(* Foreign key of posdao_epoch_node: known in memory, absent from node.    *)
InsertEpochNodeFails(p) ==
    /\ pc = "validators" /\ p \in ValidatorsLeft
    /\ p \in known \ NodePools(work)
    /\ RollBack
    /\ UNCHANGED <<stakeTx, known, faults>>

ValidatorsInserted ==
    /\ pc = "validators" /\ ValidatorsLeft = {}
    /\ pc' = "events"
    /\ UNCHANGED <<chainHead, db, stakeTx, work, aborted, memory, faults>>

-----------------------------------------------------------------------------
(* The events of the block, one at a time.                                 *)

CurrentEvent == EventsOf[cur][nextEvent]

Visiting(kind) ==
    /\ pc = "events" /\ nextEvent <= Len(EventsOf[cur])
    /\ CurrentEvent.kind = kind

(* Mutant: an error of the insert is logged and swallowed.                 *)
RecordStakeTransaction_Swallows ==
    \/ stakeTx' = stakeTx
    \/ stakeTx' = [stakeTx EXCEPT ![<<cur, nextEvent>>] = IF @ < RowCap THEN @ + 1 ELSE @]

(* insertStakeTransaction goes through the pool of connections, not        *)
(* through the transaction of the block.                                   *)
RecordStakeTransaction ==
    stakeTx' = [stakeTx EXCEPT ![<<cur, nextEvent>>] = IF @ < RowCap THEN @ + 1 ELSE @]

HasHistory(p) == \E b \in Blocks : work.hist[<<p, b>>] > 0

(* Mutant: no primary key on stake_history.                                *)
StakeRefused_NoKey(p) == p \notin NodePools(work)

(* stake_history rows of a pool that start at a block: the first movement  *)
(* inserts (b, b), the second turns it into (b, b - 1) and inserts (b, b), *)
(* a third would repeat the key (b, b - 1).  The node must exist, and so   *)
(* must the header at which the pool's last row is closed.                 *)
StakeRefused(p) ==
    \/ p \notin NodePools(work)
    \/ work.hist[<<p, cur>>] = 2
    \/ HasHistory(p) /\ cur - 1 \notin HeaderBlocks(work)

WithMovement(d, p) == [d EXCEPT !.hist = [d.hist EXCEPT ![<<p, cur>>] = @ + 1]]

VisitStakeEvent ==
    /\ Visiting("stake") /\ ~StakeRefused(CurrentEvent.pool)
    /\ RecordStakeTransaction
    /\ work' = WithMovement(work, CurrentEvent.pool)
    /\ nextEvent' = nextEvent + 1
    /\ UNCHANGED <<chainHead, db, aborted, pc, cur, latest, lastEpoch, epochAfter, known,
                   before, faults>>

VisitStakeEventFails ==
    /\ Visiting("stake") /\ StakeRefused(CurrentEvent.pool)
    /\ RecordStakeTransaction
    /\ RollBack
    /\ UNCHANGED <<known, faults>>

AvailRow == [pool |-> CurrentEvent.pool, block |-> cur]

(* Primary and foreign key of available_event.                             *)
AvailRefused == AvailRow \in work.avail \/ CurrentEvent.pool \notin NodePools(work)

VisitAvailabilityEvent ==
    /\ Visiting("avail") /\ ~AvailRefused
    /\ work' = [work EXCEPT !.avail = @ \cup {AvailRow}]
    /\ nextEvent' = nextEvent + 1
    /\ UNCHANGED <<chainHead, db, stakeTx, aborted, pc, cur, latest, lastEpoch, epochAfter,
                   known, before, faults>>

VisitAvailabilityEventFails ==
    /\ Visiting("avail") /\ AvailRefused
    /\ RollBack
    /\ UNCHANGED <<stakeTx, known, faults>>

EventsVisited ==
    /\ pc = "events" /\ nextEvent > Len(EventsOf[cur])
    /\ pc' = "observe"
    /\ UNCHANGED <<chainHead, db, stakeTx, work, aborted, memory, faults>>

-----------------------------------------------------------------------------
(* Validator states and bonus scores, then the commit.                     *)

ObserveAndScore ==
    /\ pc = "observe"
    /\ pc' = "commit"
    /\ UNCHANGED <<chainHead, db, stakeTx, work, aborted, memory, faults>>

(* processBatch logs a failed statement and goes on; Postgres has aborted  *)
(* the transaction nevertheless.                                           *)
ScoreStatementSwallowed ==
    /\ pc = "observe" /\ Inject("swallow")
    /\ pc' = "commit"
    /\ aborted' = TRUE
    /\ UNCHANGED <<chainHead, db, stakeTx, work, memory>>

(* Which scores changed is not modelled.  A change closes a row of          *)
(* bonus_score_history at the previous block: if its header is missing,    *)
(* the foreign key refuses that, and the refusal is swallowed too.         *)
ScoreStatementRefused ==
    /\ pc = "observe" /\ cur # 0 /\ cur - 1 \notin HeaderBlocks(work)
    /\ pc' = "commit"
    /\ aborted' = TRUE
    /\ UNCHANGED <<chainHead, db, stakeTx, work, memory, faults>>

(* COMMIT of an aborted transaction rolls back and reports no error.       *)
Committed == IF aborted THEN db ELSE work

Commit ==
    /\ pc = "commit"
    /\ pc' = "poll"
    /\ db' = Committed /\ work' = Committed /\ aborted' = FALSE
    /\ before' = cur
    /\ lastEpoch' = IF epochAfter > lastEpoch THEN epochAfter ELSE lastEpoch
    /\ UNCHANGED <<chainHead, stakeTx, cur, latest, epochAfter, known, nextEvent, faults>>

(* The connection is lost after the commit took effect: to the process the *)
(* block failed.                                                           *)
CommitAnswerLost ==
    /\ pc = "commit" /\ Inject("commitack")
    /\ pc' = "loop"
    /\ db' = Committed /\ work' = Committed /\ aborted' = FALSE
    /\ UNCHANGED <<chainHead, stakeTx, memory>>

(* An RPC call or a statement inside the transaction throws.               *)
BlockFails ==
    /\ pc \in InTx /\ Inject("fail")
    /\ RollBack
    /\ UNCHANGED <<stakeTx, known>>

-----------------------------------------------------------------------------
(* After the commit: wait for a newer block, or go to the next one.        *)

Advance ==
    /\ pc = "poll" /\ cur # latest
    /\ pc' = "loop"
    /\ cur' = cur + 1
    /\ UNCHANGED <<chainHead, db, stakeTx, work, aborted, latest, lastEpoch, epochAfter,
                   known, before, nextEvent, faults>>

Poll ==
    /\ pc = "poll" /\ cur = latest
    /\ latest' = chainHead
    /\ UNCHANGED <<chainHead, db, stakeTx, work, aborted, pc, cur, lastEpoch, epochAfter,
                   known, before, nextEvent, faults>>

(* getBlockNumber or fetchBlockEvents throws: the error lands in the catch *)
(* of the block, which is committed already and is taken again.            *)
PollFails ==
    /\ pc = "poll" /\ cur = latest /\ Inject("poll")
    /\ pc' = "loop"
    /\ latest' \in {latest, chainHead}
    /\ UNCHANGED <<chainHead, db, stakeTx, work, aborted, cur, lastEpoch, epochAfter,
                   known, before, nextEvent>>

Crash ==
    /\ pc \in Running /\ Inject("crash")
    /\ pc' = "down"
    /\ Discard
    /\ UNCHANGED <<chainHead, db, stakeTx, memory>>

-----------------------------------------------------------------------------
Process ==
    \/ Startup \/ InitCaches \/ InitFails
    \/ LoopEnds \/ AutoStop \/ BeginBlock \/ InsertHeader
    \/ \E p \in Pools : InsertNode(p) \/ InsertEpochNode(p) \/ InsertEpochNodeFails(p)
    \/ NodesInserted \/ SameEpoch \/ SwitchEpoch \/ SwitchEpochFails \/ ValidatorsInserted
    \/ VisitStakeEvent \/ VisitStakeEventFails
    \/ VisitAvailabilityEvent \/ VisitAvailabilityEventFails \/ EventsVisited
    \/ ObserveAndScore \/ ScoreStatementRefused \/ Commit \/ Advance \/ Poll

Fault ==
    \/ ScoreStatementSwallowed \/ CommitAnswerLost \/ BlockFails \/ PollFails \/ Crash

Next == Process \/ Fault \/ ChainGrows

Spec == Init /\ [][Next]_vars

(* The event loop of the process runs on, and docker compose restarts it   *)
(* when it fails (restart: on-failure).  The chain need not grow.          *)
FairSpec == Spec /\ WF_vars(Process)

-----------------------------------------------------------------------------
(* Properties.                                                             *)

HeaderRow == [block : Blocks, before : -1 .. MaxBlock]
NodeRow == [pool : Pools, added : Blocks]
EpochRow == [id : Blocks, start : Blocks, end : -1 .. MaxBlock]
EpochNodeRow == [epoch : Blocks, pool : Pools, rewarded : BOOLEAN]
AvailableRow == [pool : Pools, block : Blocks]
HistCounts == [Pools \X Blocks -> 0 .. 2]

Tables == [
    headers : SUBSET HeaderRow,
    nodes : SUBSET NodeRow,
    epochs : SUBSET EpochRow,
    epochNodes : SUBSET EpochNodeRow,
    avail : SUBSET AvailableRow,
    hist : HistCounts]

(* Every variable has its type; no pool has more than the two              *)
(* stake_history rows per starting block that the primary key admits.      *)
TypeOK ==
    /\ chainHead \in Blocks
    /\ db \in Tables /\ work \in Tables
    /\ stakeTx \in [EventId -> 0 .. RowCap]
    /\ aborted \in BOOLEAN
    /\ pc \in {"down", "done"} \cup Running
    /\ cur \in 0 .. (MaxBlock + 1) /\ latest \in Blocks
    /\ lastEpoch \in -1 .. MaxBlock /\ epochAfter \in -1 .. MaxBlock
    /\ known \subseteq Pools
    /\ before \in -1 .. MaxBlock
    /\ nextEvent \in Nat \ {0}
    /\ faults \in 0 .. MaxFaults

(* The blocks the database claims to hold, counted by its newest header.   *)
Mirrored == IF HeaderBlocks(db) = {} THEN 0 ELSE Largest(HeaderBlocks(db)) + 1

(* The tables that mirror the chain.                                       *)
MirrorTables == [t \in {"headers", "nodes", "epochs", "epochNodes", "avail"} |-> db[t]]

M == INSTANCE ChainMirror WITH n <- Mirrored, tables <- MirrorTables

(* Headers, nodes, epochs, epoch validators with their rewards and         *)
(* availability events are at every moment exactly those of the first      *)
(* Mirrored blocks of the chain, whatever failed, was retried or died in   *)
(* between (block transaction, retry loop and startup of runFillDb).       *)
DatabaseMirrorsChain == MirrorTables = M!Mirror(Mirrored)

(* The database grows by one block at a time, in chain order, and all rows *)
(* of the block, with what it changes of earlier rows, appear in the one   *)
(* step: runFillDb implements ChainMirror.                                 *)
ImplementsMirror == M!Spec

(* Every stake movement of a committed block has its row in                *)
(* stake_transactions, although the row is written by another connection   *)
(* than the block (insertStakeTransaction).                                *)
StakeTransactionsAtLeastOnce ==
    \A e \in EventId :
        (e[1] \in HeaderBlocks(db) /\ EventsOf[e[1]][e[2]].kind = "stake")
            => stakeTx[e] >= 1

(* A pool that is in the node table is known to the running process, so    *)
(* that insertNode never meets its own primary key.                        *)
KnownCoversDatabase ==
    pc \in Running => NodePools(db) \cup NodePools(work) \subseteq known

Movements(p, b) ==
    Cardinality({i \in DOMAIN EventsOf[b] : EventsOf[b][i] = [kind |-> "stake", pool |-> p]})

(* When nothing fails after a commit, each stake movement of a committed   *)
(* block is applied to stake_history exactly once and none of any other    *)
(* block, whatever crashes, fails before the commit or is swallowed.       *)
LedgerExactlyOnce ==
    \A p \in Pools, b \in Blocks :
        db.hist[<<p, b>>] = IF b \in HeaderBlocks(db) THEN Movements(p, b) ELSE 0

(* Nothing above DB_FILL_STOP_BLOCK is ever imported, not even after the   *)
(* poll has learned of newer blocks.                                       *)
StopsAtFillStop == \A b \in HeaderBlocks(db) : b <= FillStopBlock

(* block_duration is measured from the parent block, also for a block that *)
(* was retried, follows a restart or follows a lost one.                   *)
DurationFromParent == \A h \in db.headers : h.before = h.block - 1

(* runFillDb.ts:29, "we process each block": no block below the current    *)
(* one is missing.                                                         *)
ProcessesEachBlock ==
    pc = "loop" => \A b \in 0 .. (cur - 1) : b \in HeaderBlocks(db)

(* runFillDb.ts:471-473, "a server that keeps importing new blocks": every *)
(* block of the chain is imported.                                         *)
KeepsImporting == \A b \in Blocks : b <= chainHead ~> b \in HeaderBlocks(db)

(* What a rollback leaves in memory no longer fits the tables: a node is   *)
(* known that has no row, or the block in hand is stored already.          *)
MemoryAhead == known \ NodePools(db) # {} \/ cur \in HeaderBlocks(db)

RetriesForEver == []<>(pc = "loop") /\ <>[](pc = "loop" => MemoryAhead)

(* Each block of the chain is imported, or the process ends in the regular *)
(* way, however often it crashes, fails or loses an answer.  There are     *)
(* just two states it cannot leave, both of them made by a rollback that   *)
(* memory does not take part in (runFillDb.ts 134, 280-297): one block is  *)
(* retried for ever with such a memory.                                    *)
ImportsOrExits ==
    \A b \in Blocks :
        (b <= chainHead ~> (b \in HeaderBlocks(db) \/ pc = "done")) \/ RetriesForEver

-----------------------------------------------------------------------------
(* The inductive invariant.                                                *)

(* In a transaction and after it the process works on a block of the chain *)
(* and has read that block's epoch.                                        *)
Working ==
    /\ pc \in InTx \cup {"poll"} => cur <= MaxBlock
    /\ pc \in (InTx \ {"header"}) \cup {"poll"} => epochAfter = EpochOf[cur]

(* The newest epoch opened before block m.                                 *)
EpochBefore(m) == IF m = 0 THEN -1 ELSE EpochOf[m - 1]

(* Tables d hold the headers below m, each measured from its parent, and   *)
(* the epochs below e.                                                     *)
Holds(d, m, e) ==
    /\ HeaderBlocks(d) = 0 .. (m - 1)
    /\ \A h \in d.headers : h.before = h.block - 1
    /\ EpochIds(d) = 0 .. EpochBefore(e)

(* The process has seen the block it works on committed, or it has not; in *)
(* the second case its caches are those of the parent block.               *)
Caches(m) ==
    \/ cur = m /\ lastEpoch = EpochBefore(m) /\ before = m - 1
    \/ cur = m - 1 /\ lastEpoch \in {EpochBefore(m - 1), EpochBefore(m)}

Longer(m) == IF cur = m THEN m + 1 ELSE m

(* The database is the prefix of length m of the chain, and what the       *)
(* process believes about its end is right up to the block in hand.        *)
PrefixAt(m) ==
    /\ Holds(db, m, m)
    /\ pc \in {"init", "loop"} \cup InTx => Caches(m)
    /\ pc \in {"nodes", "epoch"} => Holds(work, Longer(m), m)
    /\ pc \in {"validators", "events", "observe", "commit"} =>
          Holds(work, Longer(m), Longer(m))
    /\ pc = "poll" => cur = m - 1 /\ before = cur /\ lastEpoch = EpochBefore(m)

(* No header is skipped and no epoch is opened twice: the database always  *)
(* is a prefix of the chain, through failures, retries and restarts.       *)
PrefixInv ==
    /\ aborted = FALSE
    /\ pc \notin InTx \ {"header"} => work = db
    /\ \E m \in 0 .. (MaxBlock + 1) : PrefixAt(m)
=============================================================================
