---------------------------- MODULE BonusScores ----------------------------
(***************************************************************************)
(* The history of bonus scores (src/src/db/bonusScoreProcessor.ts and      *)
(* bonusScoreReasonDetector.ts).                                           *)
(*                                                                         *)
(* The processor compares the scores of a block with a cache and writes    *)
(* the changes, each with a reason, in the transaction of the block.  The  *)
(* cache changes at once, survives a rollback, and is read from the        *)
(* contract, not from the rows, when the process starts.  Errors of single *)
(* pools and reasons are swallowed.  The epoch of a reason is looked up in *)
(* posdao_epoch, beside the transaction that may write a row there.  The   *)
(* loop of runFillDb is reduced to begin, the new epoch, commit, failure   *)
(* and restart; Indexer models it in full.                                 *)
(***************************************************************************)
EXTENDS Integers, FiniteSets, SequencesExt

CONSTANTS
    Pools,      \* pools, each with its one validator
    MaxBlock,   \* bound: blocks are numbered 1 .. MaxBlock
    MaxScore,   \* bound: scores are 0 .. MaxScore
    BatchSize,  \* BATCH_SIZE: more pools are loaded side by side
    Faults,     \* which of "fail", "crash", "read" and "statement" occur
    MaxFaults   \* bound: their number

ASSUME ScoresShape ==
    /\ IsFiniteSet(Pools) /\ Pools # {}
    /\ {MaxBlock, MaxScore, BatchSize, MaxFaults} \subseteq Nat
    /\ Faults \subseteq {"fail", "crash", "read", "statement"}

VARIABLES
    chain,    \* pools, their scores and the epoch after each block
    db,       \* committed: blocks, nodes with their score, history, reasons, epochs
    work,     \* the same as the open transaction sees them
    aborted,  \* a statement failed: Postgres refuses all further ones
    cur,      \* currentBlockNumber
    known,    \* knownNodes
    lastEpoch,  \* lastInsertedPosdaoEpoch
    cache,    \* currentBonusScores
    pc,       \* "down", "idle", "nodes", "scores" or "reasons"
    todo,     \* pools of the batch whose promise is not settled
    changes,  \* changedPools
    epochData,  \* epoch of the reasons; history: whether it could not be read
    hidden,   \* history: pools whose cache is ahead of their rows by a fault
    missed,   \* history: <<pool, block>> whose change a fault hid or delayed
    faults

epochs == <<lastEpoch, epochData>>

vars == <<chain, db, work, aborted, cur, known, cache, pc, todo, changes, hidden, missed, faults, epochs>>

Scores == 0 .. MaxScore

(* A score that is not in the cache.                                       *)
Undefined == -1

now == chain[cur]

EmptyTables ==
    [blocks |-> {}, nodes |-> [p \in {} |-> 0], rows |-> {}, reasons |-> {}, epochs |-> {}]

-----------------------------------------------------------------------------
(* The contracts, block by block: a pool is added, a score changes, both   *)
(* possibly with a new epoch.                                              *)

NextBlocks(c) ==
    {[pools |-> pools, score |-> [c.score EXCEPT ![p] = s], epoch |-> e] :
        pools \in {c.pools} \cup {c.pools \cup {q} : q \in Pools},
        p \in c.pools, s \in Scores, e \in {c.epoch, c.epoch + 1}}

NewBlock ==
    /\ pc \in {"idle", "down"} /\ Len(chain) < MaxBlock /\ Len(chain) < cur
    /\ \E c \in NextBlocks(Last(chain)) : chain' = Append(chain, c)
    /\ UNCHANGED <<db, work, aborted, cur, known, cache, pc, todo, changes, hidden, missed, faults, epochs>>

Inject(kind) == kind \in Faults /\ faults < MaxFaults /\ faults' = faults + 1

-----------------------------------------------------------------------------
(* Tables.  to = 0 stands for NULL, the row is open.                       *)

OpenRows(rows, p) == {r \in rows : r.pool = p /\ r.to = 0}

(* insertNode of runFillDb and writeInitialBonusScore.                     *)
WithNode(tables, p, score) ==
    [tables EXCEPT
        !.nodes = [q \in DOMAIN @ \cup {p} |-> IF q = p THEN score ELSE @[q]],
        !.rows = @ \cup {[pool |-> p, from |-> cur, to |-> 0, score |-> score]}]

(* Mutant: the open row ends with the block of the change.                 *)
WithScore_Overlaps(tables, p, score) ==
    LET open == OpenRows(tables.rows, p)
    IN  [tables EXCEPT
            !.nodes[p] = score,
            !.rows = (@ \ open) \cup {[r EXCEPT !.to = cur] : r \in open}
                        \cup {[pool |-> p, from |-> cur, to |-> 0, score |-> score]}]

(* Mutant: the change takes effect a block late.                           *)
WithScore_Late(tables, p, score) ==
    LET open == OpenRows(tables.rows, p)
    IN  [tables EXCEPT
            !.nodes[p] = score,
            !.rows = (@ \ open) \cup {[r EXCEPT !.to = cur] : r \in open}
                        \cup {[pool |-> p, from |-> cur + 1, to |-> 0, score |-> score]}]

(* updateBonusScore: close the open row, insert the new one, update node.  *)
WithScore(tables, p, score) ==
    LET open == OpenRows(tables.rows, p)
    IN  [tables EXCEPT
            !.nodes[p] = score,
            !.rows = (@ \ open) \cup {[r EXCEPT !.to = cur - 1] : r \in open}
                        \cup {[pool |-> p, from |-> cur, to |-> 0, score |-> score]}]

(* The row of a new epoch refers to its block, and the end of the one      *)
(* before it to the block before, which may be lost.                       *)
EpochRefused ==
    LET ids == {e.id : e \in work.epochs}
    IN  /\ now.epoch > lastEpoch
        /\ now.epoch \in ids \/ (lastEpoch \in ids /\ cur - 1 \notin work.blocks)

(* endStakingEpoch and insertStakingEpoch.                                 *)
WithEpoch(tables) ==
    IF now.epoch <= lastEpoch THEN tables
    ELSE [tables EXCEPT !.epochs =
            {IF e.id = lastEpoch THEN [e EXCEPT !.to = cur - 1] ELSE e : e \in @}
                \cup {[id |-> now.epoch, from |-> cur, to |-> 0]}]

(* Mutant: the epochs that have ended are found as well, the oldest first. *)
EpochByBlock_Oldest ==
    LET begun == {e \in db.epochs : e.from <= cur}
    IN  IF begun = {} THEN 0
        ELSE (CHOOSE e \in begun : \A f \in begun : e.from <= f.from).id

(* getEpochByBlock asks the pool, which does not see the row this block    *)
(* may have written: of the epochs that cover the block the newest, and 0  *)
(* in place of null.                                                       *)
EpochByBlock ==
    LET covering == {e \in db.epochs : e.from <= cur /\ (e.to = 0 \/ cur <= e.to)}
    IN  IF covering = {} THEN 0
        ELSE (CHOOSE e \in covering : \A f \in covering : f.from <= e.from).id

-----------------------------------------------------------------------------
(* Reasons.  isValidatorInActiveSet looks for the address in lower case    *)
(* among the checksummed ones web3 returns, so that it is found only when  *)
(* its checksum has no capital letter.                                     *)

Facts == [member : BOOLEAN, capitals : BOOLEAN, available : BOOLEAN, acks : BOOLEAN]

InActiveSet(f) == f.member /\ ~f.capitals

DetectReason(change, f) ==
    IF change.new > change.previous
    THEN IF f.available THEN "StandByBonus" ELSE "Unknown"
    ELSE IF change.new = change.previous THEN "Unknown"
    ELSE IF ~InActiveSet(f) \/ ~f.available THEN "NoStandByPenalty"
    ELSE IF ~f.acks THEN "NoKeyWritePenalty" ELSE "BadPerformancePenalty"

Reasons(change) ==
    {DetectReason(change, f) : f \in {g \in Facts : g.capitals}}

-----------------------------------------------------------------------------
(* Start and restart.                                                      *)

(* Pools whose open row in rows is not what is remembered of them.         *)
AheadOf(memory, tables) ==
    {p \in DOMAIN tables.nodes : \A r \in OpenRows(tables.rows, p) : r.score # memory[p]}

Init ==
    /\ \E p \in Pools : chain = <<[pools |-> {p}, score |-> [q \in Pools |-> 0], epoch |-> 0]>>
    /\ db = EmptyTables /\ work = EmptyTables /\ aborted = FALSE
    /\ cur = 1 /\ known = {} /\ cache = [p \in Pools |-> 0]
    /\ lastEpoch = -1 /\ epochData = [id |-> 0, unread |-> FALSE]
    /\ pc = "down" /\ todo = {} /\ changes = {} /\ hidden = {} /\ missed = {} /\ faults = 0

KnownNodes == DOMAIN db.nodes

(* getLastProcessedEpoch.                                                  *)
LastProcessedEpoch == Max({e.id : e \in db.epochs} \cup {-1})

(* init: the scores of the contract at the block to resume with.  Of many  *)
(* pools those that cannot be read are left out; of few the process ends.  *)
MayBeUnread == {S \in SUBSET now.pools : S = {} \/ Cardinality(now.pools) > BatchSize}

Loaded(unread) == [p \in Pools |-> IF p \in unread THEN Undefined ELSE now.score[p]]

(* run: the database tells the block to resume with, the known nodes and   *)
(* the epoch inserted last.                                                *)
Startup ==
    /\ pc = "down" /\ cur \in DOMAIN chain
    /\ known' = KnownNodes /\ lastEpoch' = LastProcessedEpoch
    /\ \E unread \in MayBeUnread :
        /\ IF unread = {} THEN UNCHANGED faults ELSE Inject("read")
        /\ cache' = Loaded(unread) /\ hidden' = AheadOf(Loaded(unread), db)
    /\ pc' = "idle"
    /\ UNCHANGED <<chain, db, work, aborted, cur, todo, changes, epochData, missed>>

Crash ==
    /\ pc # "down" /\ Inject("crash") /\ pc' = "down"
    /\ cur' = 1 + Max(db.blocks \cup {0})
    /\ work' = db /\ aborted' = FALSE /\ todo' = {} /\ changes' = {}
    /\ UNCHANGED <<chain, db, known, cache, hidden, missed, epochs>>

-----------------------------------------------------------------------------
(* One block.                                                              *)

BeginBlock ==
    /\ pc = "idle" /\ cur \in DOMAIN chain /\ pc' = "nodes"
    /\ work' = [db EXCEPT !.blocks = @ \cup {cur}]
    /\ UNCHANGED <<chain, db, aborted, cur, known, cache, todo, changes, hidden, missed, faults, epochs>>

(* insertNode of runFillDb with registerNewNode.                           *)
RegisterNode ==
    /\ pc = "nodes"
    /\ \E p \in now.pools \ known :
        /\ work' = WithNode(work, p, now.score[p])
        /\ cache' = [cache EXCEPT ![p] = now.score[p]]
        /\ known' = known \cup {p}
    /\ UNCHANGED <<chain, db, aborted, cur, pc, todo, changes, hidden, missed, faults, epochs>>

(* The epoch transition and the events.  The events that brought a pool    *)
(* refer to its node: without the row the block can only fail.             *)
EventsProcessed ==
    /\ pc = "nodes" /\ now.pools \subseteq known /\ now.pools \subseteq DOMAIN work.nodes
    /\ ~EpochRefused /\ work' = WithEpoch(work)
    /\ pc' = "scores" /\ todo' = now.pools
    /\ UNCHANGED <<chain, db, aborted, cur, known, cache, changes, hidden, missed, faults, epochs>>

Settle(p) == pc = "scores" /\ p \in todo /\ todo' = todo \ {p}

ScoreUnchanged ==
    /\ \E p \in todo : Settle(p) /\ now.score[p] = cache[p]
    /\ UNCHANGED <<chain, db, work, aborted, cur, known, cache, pc, changes, hidden, missed, faults, epochs>>

(* History: blind tells that there was no score to compare with.           *)
Changed(p) ==
    [pool |-> p, previous |-> Max({cache[p], 0}), new |-> now.score[p],
     blind |-> cache[p] = Undefined]

ScoreChanged ==
    /\ \E p \in todo :
        /\ Settle(p) /\ now.score[p] # cache[p] /\ ~aborted
        /\ work' = WithScore(work, p, now.score[p])
        /\ changes' = changes \cup {Changed(p)}
        /\ cache' = [cache EXCEPT ![p] = now.score[p]]
    /\ hidden' = hidden \ (todo \ todo')
    /\ UNCHANGED <<chain, db, aborted, cur, known, pc, missed, faults, epochs>>

(* The score cannot be read: swallowed, the change is seen a block later.  *)
ScoreReadFails ==
    /\ Inject("read")
    /\ \E p \in todo :
        /\ Settle(p) /\ now.score[p] # cache[p]
        /\ missed' = missed \cup {<<p, cur>>}
    /\ UNCHANGED <<chain, db, work, aborted, cur, known, cache, pc, changes, hidden, epochs>>

(* updateBonusScore fails, as every statement does after a failed one: the *)
(* error is swallowed.                                                     *)
ScoreStatementFails ==
    /\ \/ aborted /\ UNCHANGED faults
       \/ ~aborted /\ Inject("statement")
    /\ \E p \in todo : Settle(p) /\ now.score[p] # cache[p]
    /\ aborted' = TRUE
    /\ UNCHANGED <<chain, db, work, cur, known, cache, pc, changes, hidden, missed, epochs>>

(* processReasonDetection looks the epoch up once, if a score changed; an  *)
(* error becomes null and null becomes 0.                                  *)
ScoresProcessed ==
    /\ pc = "scores" /\ todo = {} /\ pc' = "reasons"
    /\ \/ epochData' = [id |-> EpochByBlock, unread |-> FALSE] /\ UNCHANGED faults
       \/ /\ changes # {} /\ Inject("read")
          /\ epochData' = [id |-> 0, unread |-> TRUE]
    /\ UNCHANGED <<chain, db, work, aborted, cur, known, cache, todo, changes, hidden, missed, lastEpoch>>

(* Mutant: a reason replaces those of the pool's earlier blocks.           *)
WithReason_OnePerPool(tables, row) ==
    [tables EXCEPT !.reasons = {r \in @ : r.pool # row.pool} \cup {row}]

(* insertBonusScoreChangeReason: one reason for a pool and block.          *)
WithReason(tables, row) ==
    [tables EXCEPT !.reasons =
        {r \in @ : r.pool # row.pool \/ r.block # row.block} \cup {row}]

(* One turn of processReasonDetection.                                     *)
DetectReasons ==
    /\ pc = "reasons" /\ ~aborted
    /\ \E c \in changes : \E reason \in Reasons(c) :
        /\ changes' = changes \ {c}
        /\ work' = WithReason(work, [pool |-> c.pool, block |-> cur, epoch |-> epochData.id,
                                    previous |-> c.previous, new |-> c.new, blind |-> c.blind,
                                    unread |-> epochData.unread, reason |-> reason])
    /\ UNCHANGED <<chain, db, aborted, cur, known, cache, pc, todo, hidden, missed, faults, epochs>>

(* insertBonusScoreChangeReason fails and logs the reason instead, as it   *)
(* does for each reason after a statement that failed.                     *)
ReasonStatementFails ==
    /\ pc = "reasons"
    /\ \/ aborted /\ UNCHANGED faults
       \/ ~aborted /\ Inject("statement")
    /\ \E c \in changes : changes' = changes \ {c}
    /\ aborted' = TRUE
    /\ UNCHANGED <<chain, db, work, cur, known, cache, pc, todo, hidden, missed, epochs>>

BlockDone == pc = "reasons" /\ changes = {} /\ pc' = "idle" /\ cur' = cur + 1 /\ aborted' = FALSE

(* COMMIT, which is a rollback without an error when a statement failed:   *)
(* the loop still takes the epoch for inserted.                            *)
Commit ==
    /\ BlockDone
    /\ db' = IF aborted THEN db ELSE work
    /\ hidden' = IF aborted THEN hidden \cup AheadOf(cache, db) ELSE hidden
    /\ missed' = missed \cup {<<p, cur>> : p \in hidden'}
    /\ lastEpoch' = Max({lastEpoch, now.epoch})
    /\ UNCHANGED <<chain, work, known, cache, todo, changes, epochData, faults>>

(* Anything else fails: the block is rolled back and tried again.          *)
BlockFails ==
    /\ pc \in {"nodes", "scores", "reasons"} /\ Inject("fail") /\ pc' = "idle"
    /\ work' = db /\ aborted' = FALSE /\ todo' = {} /\ changes' = {}
    /\ hidden' = hidden \cup AheadOf(cache, db)
    /\ UNCHANGED <<chain, db, cur, known, cache, missed, epochs>>

Next ==
    \/ NewBlock \/ Startup \/ Crash
    \/ BeginBlock \/ RegisterNode \/ EventsProcessed
    \/ ScoreUnchanged \/ ScoreChanged \/ ScoreReadFails \/ ScoreStatementFails
    \/ ScoresProcessed \/ DetectReasons \/ ReasonStatementFails \/ Commit \/ BlockFails

Spec == Init /\ [][Next]_vars

-----------------------------------------------------------------------------
(* The handlers of the REST API (controllers/node.ts).  The reasons are    *)
(* fetched row by row with subqueries, which fail when they find several.  *)

ListBonusScore(p) ==
    {[from |-> r.from, to |-> r.to, score |-> r.score,
      reasons |-> {q \in db.reasons : q.pool = p /\ q.block = r.from}] :
        r \in {s \in db.rows : s.pool = p}}

ListBonusScoreReasons(p) == {q \in db.reasons : q.pool = p}

-----------------------------------------------------------------------------
(* Properties.                                                             *)

Covers(r, b) == r.from <= b /\ (r.to = 0 \/ b <= r.to)

(* Whatever fails, the rows of a pool tile the blocks since it was added:  *)
(* each block is covered by exactly one row, the last one is open, and     *)
(* node.bonus_score repeats it.  The rows are closed and inserted by       *)
(* separate statements, and a block may be tried many times.               *)
RowsTile ==
    \A p \in DOMAIN db.nodes :
        LET rows == {r \in db.rows : r.pool = p}
        IN  /\ {r.score : r \in OpenRows(db.rows, p)} = {db.nodes[p]}
            /\ \A b \in Min({r.from : r \in rows}) .. Max(db.blocks) :
                Cardinality({r \in rows : Covers(r, b)}) = 1

(* The history tells every score after every block that is stored, but for *)
(* the changes a fault hid: a rollback after the cache was updated, a      *)
(* restart at the block of the change, or an error that was swallowed.     *)
(* The next change of the pool repairs it.                                 *)
HistoryTellsScores ==
    \A b \in db.blocks, p \in DOMAIN db.nodes : <<p, b>> \notin missed =>
        \A r \in db.rows : r.pool = p /\ Covers(r, b) => r.score = chain[b].score[p]

(* Who asks the API for the history of a pool is told one reason for each  *)
(* change but the first row, and the list of reasons tells no others: each *)
(* leads from the score the history tells until then to the next.  The two *)
(* are written in different loops that swallow their errors.               *)
ReasonsMatchHistory ==
    \A p \in DOMAIN db.nodes :
        /\ \A l \in ListBonusScore(p) :
            LET isFirst == \A k \in ListBonusScore(p) : l.from <= k.from
            IN  Cardinality(l.reasons) = IF isFirst THEN 0 ELSE 1
        /\ \A q \in ListBonusScoreReasons(p) :
            /\ \E l \in ListBonusScore(p) : q \in l.reasons /\ l.score = q.new
            /\ \/ q.blind \/ <<p, q.block - 1>> \in missed
               \/ \E l \in ListBonusScore(p) : l.to = q.block - 1 /\ l.score = q.previous

(* A reason is filed under the epoch of the block before its own, never    *)
(* under a later one: the row of a new epoch is not yet committed when the *)
(* reasons of its first block ask for it.  It is filed under an older one, *)
(* or 0, only if the look-up failed or that epoch had no row by then: the  *)
(* loss of its first block is swallowed, and the loop that remembers the   *)
(* epoch as inserted writes no other row before it is restarted.           *)
FiledUnderEpoch ==
    \A q \in db.reasons :
        LET before == chain[q.block - 1].epoch
            told == \E e \in db.epochs : e.from < q.block /\ e.id = before
        IN  /\ q.epoch <= before
            /\ told /\ ~q.unread => q.epoch = before
=============================================================================
