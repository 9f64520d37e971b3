------------------------------ MODULE Bootstrap ------------------------------
(***************************************************************************)
(* The start of an import in the middle of the chain: bootstrapAtBlock of  *)
(* src/src/db/runFillDb.ts and what surrounds it.  The bootstrap is not    *)
(* a transaction: each of its statements is committed by itself, any of    *)
(* them may be the last one of a process, and what the next process makes  *)
(* of the remains is decided by a test of what it finds in the tables.     *)
(*                                                                         *)
(* Of the loop that follows only the headers, the epochs and their         *)
(* validators are here; Indexer has all of it.                             *)
(***************************************************************************)
EXTENDS Chain

CONSTANTS
    FillStarts,  \* the values DB_FILL_START_BLOCK may have
    MaxImported, \* bound: blocks below it that an earlier import has stored
    MaxDeaths    \* bound on the deaths of the process

ASSUME FillShape ==
    /\ FillStarts \subseteq Blocks
    /\ MaxImported \in 0 .. MaxBlock
    /\ MaxDeaths \in Nat

VARIABLES
    start,    \* DB_FILL_START_BLOCK
    tables,   \* headers, epochs, nodes, scores and epochNodes
    stage,    \* where the process is
    left,     \* pools or validators that are still to be visited
    cur,      \* currentBlockNumber
    last,     \* lastInsertedPosdaoEpoch
    before,   \* the block whose time is blockBeforeTimestamp
    deaths,   \* deaths so far
    seeded,   \* a process has begun to bootstrap: "no", "fresh" or "jump"
    missed    \* what a bootstrap that ended early may have left undone

memory == <<left, cur, last, before>>
history == <<deaths, seeded, missed>>
seedVars == <<start, tables, stage, memory, history>>

Largest(S) == CHOOSE x \in S : \A y \in S : y <= x
NewestOf(S) == IF S = {} THEN -1 ELSE Largest(S)
HeaderBlocks == {h.block : h \in tables.headers}
EpochIds == {r.id : r \in tables.epochs}

(* stakingEpochStartBlock of the contract at a block.                      *)
EpochStart(b) == CHOOSE s \in 0 .. b : StartsEpoch(s) /\ EpochOf[s] = EpochOf[b]

(* The row that a validator set at a block has in an epoch.                *)
EpochNodes(b) == {[epoch |-> EpochOf[b], pool |-> p] : p \in ValidatorsOf[b]}

(* What an import from block 0 has stored of the blocks below n.           *)
Imported(n) ==
    LET opened == {b \in 0 .. n - 1 : StartsEpoch(b)}
        nodes == IF n = 0 THEN {} ELSE AllPoolsOf[0] \cup UNION {ValidatorsOf[b] : b \in opened}
    IN  [headers    |-> {[block |-> b, before |-> b - 1] : b \in 0 .. n - 1},
         epochs     |-> {[id |-> EpochOf[b], start |-> b] : b \in opened},
         nodes      |-> nodes,
         scores     |-> nodes,
         epochNodes |-> UNION {EpochNodes(b) : b \in opened}]

SeedInit ==
    /\ start \in FillStarts
    /\ \E n \in 0 .. MaxImported : tables = Imported(n)
    /\ stage = "down" /\ left = {}
    /\ cur = 0 /\ last = -1 /\ before = -1
    /\ deaths = 0 /\ seeded = "no" /\ missed = {}

-----------------------------------------------------------------------------
(* The test whether a bootstrap is needed, on what the start has read.     *)

(* Mutant: without the test of the nodes.                                  *)
NeedsBootstrap_Epoch ==
    HeaderBlocks = {} \/ NewestOf(HeaderBlocks) < start - 1 \/ EpochIds = {}

NeedsBootstrap ==
    \/ HeaderBlocks = {} \/ NewestOf(HeaderBlocks) < start - 1
    \/ EpochIds = {} \/ tables.nodes = {}

Startup ==
    /\ stage = "down"
    /\ stage' = IF NeedsBootstrap THEN "headers" ELSE "resume"
    /\ seeded' = IF seeded # "no" \/ ~NeedsBootstrap THEN seeded
                 ELSE IF HeaderBlocks = {} THEN "fresh" ELSE "jump"
    /\ UNCHANGED <<start, tables, memory, deaths, missed>>

-----------------------------------------------------------------------------
(* bootstrapAtBlock, statement by statement.                               *)

Bootstrapping ==
    {"headers", "startHeader", "epochHeader", "epochRow", "pools", "nodes", "validators"}

Goes(to) == stage' = to /\ UNCHANGED <<start, memory, history>>

(* insertOrIgnore.                                                         *)
WithHeader(b, parent) ==
    IF b \in HeaderBlocks THEN tables
    ELSE [tables EXCEPT !.headers = @ \cup {[block |-> b, before |-> parent]}]

(* The time before block 0 is its own.                                     *)
PriorHeader ==
    /\ stage = "headers" /\ start > 0
    /\ tables' = WithHeader(start - 1, IF start > 1 THEN start - 2 ELSE 0)
    /\ Goes("startHeader")

NoPriorHeader == stage = "headers" /\ start = 0 /\ Goes("epochHeader") /\ UNCHANGED tables

StartHeader ==
    /\ stage = "startHeader"
    /\ tables' = WithHeader(start, start - 1)
    /\ Goes("epochHeader")

(* The first block of the epoch, if the import begins further inside.  Its *)
(* duration is counted from the parent of its parent.                      *)
EpochHeader ==
    LET first == EpochStart(start) IN
    /\ stage = "epochHeader"
    /\ tables' = IF first # start - 1 /\ first > 0
                 THEN WithHeader(first, IF first > 1 THEN first - 2 ELSE 0) ELSE tables
    /\ Goes("epochRow")

EpochRow ==
    /\ stage = "epochRow"
    /\ IF EpochIds # {} THEN UNCHANGED tables
       ELSE /\ EpochStart(start) \in HeaderBlocks
            /\ tables' = [tables EXCEPT !.epochs =
                              {[id |-> EpochOf[start], start |-> EpochStart(start)]}]
    /\ stage' = "pools" /\ left' = AllPoolsOf[start] \ tables.nodes
    /\ UNCHANGED <<start, cur, last, before, history>>

(* insertNode: the row of the node, then the first one of its scores.      *)
StoreNode(p) ==
    /\ stage = "pools" /\ left \cap tables.nodes = {} /\ p \in left
    /\ tables' = [tables EXCEPT !.nodes = @ \cup {p}]
    /\ UNCHANGED <<start, stage, memory, history>>

RegisterNewNode(p) ==
    /\ stage = "pools" /\ p \in left \cap tables.nodes
    /\ tables' = [tables EXCEPT !.scores = @ \cup {p}]
    /\ left' = left \ {p}
    /\ UNCHANGED <<start, stage, cur, last, before, history>>

(* Validators without a node are passed over.                              *)
PoolsDone ==
    /\ stage = "pools" /\ left = {}
    /\ stage' = "validators" /\ left' = ValidatorsOf[start] \cap tables.nodes
    /\ UNCHANGED <<start, tables, cur, last, before, history>>

EpochNode(p) == [epoch |-> EpochOf[start], pool |-> p]

(* Keys of posdao_epoch_node: its epoch exists, and the row does not.      *)
Refused(p) == EpochOf[start] \notin EpochIds \/ EpochNode(p) \in tables.epochNodes

InsertEpochNode(p) ==
    /\ stage = "validators" /\ p \in left /\ ~Refused(p)
    /\ tables' = [tables EXCEPT !.epochNodes = @ \cup {EpochNode(p)}]
    /\ left' = left \ {p}
    /\ UNCHANGED <<start, stage, cur, last, before, history>>

ValidatorsDone ==
    /\ stage = "validators" /\ left = {}
    /\ Goes("resume") /\ UNCHANGED tables

(* The process ends, by an error that nobody catches or by a crash; the    *)
(* container is started again.  Once there is a node and the header before *)
(* the first block, the next start will not bootstrap again.               *)
Undone ==
    IF stage \notin Bootstrapping \ {"headers"} \/ tables.nodes = {} THEN {}
    ELSE IF stage = "validators" THEN {"validators"} ELSE {"pools", "validators"}

Ends ==
    /\ stage' = "down" /\ missed' = missed \cup Undone
    /\ UNCHANGED <<start, tables, memory, seeded>>

(* Foreign key of posdao_epoch.                                            *)
EpochRowRefused ==
    /\ stage = "epochRow" /\ EpochIds = {} /\ EpochStart(start) \notin HeaderBlocks
    /\ Ends /\ UNCHANGED deaths

EpochNodeRefused ==
    /\ stage = "validators" /\ \E p \in left : Refused(p)
    /\ Ends /\ UNCHANGED deaths

SeedCrash ==
    /\ stage # "down" /\ deaths < MaxDeaths
    /\ deaths' = deaths + 1
    /\ Ends

-----------------------------------------------------------------------------
(* Into the loop.  Whatever is stored, it begins at DB_FILL_START_BLOCK,   *)
(* with the time of the newest header there is.                            *)
Resume ==
    /\ stage = "resume"
    /\ stage' = "loop" /\ left' = {}
    /\ cur' = start /\ last' = NewestOf(EpochIds) /\ before' = NewestOf(HeaderBlocks)
    /\ UNCHANGED <<start, tables, history>>

(* Mutant: the header of a block that is repeated is written again.        *)
ImportedHeader_Again(d) ==
    [d EXCEPT !.headers = {h \in @ : h.block # cur} \cup {[block |-> cur, before |-> before]}]

ImportedHeader(d) ==
    IF cur \in HeaderBlocks THEN d
    ELSE [d EXCEPT !.headers = @ \cup {[block |-> cur, before |-> before]}]

(* The transaction of a block, as far as it is here.  A validator that has *)
(* no node gets one.                                                       *)
WithEpoch(d) ==
    [d EXCEPT !.epochs = @ \cup {[id |-> EpochOf[cur], start |-> cur]},
              !.nodes = @ \cup ValidatorsOf[cur], !.scores = @ \cup ValidatorsOf[cur],
              !.epochNodes = @ \cup EpochNodes(cur)]

ImportBlock ==
    /\ stage = "loop" /\ cur <= MaxBlock
    /\ tables' = IF EpochOf[cur] > last THEN WithEpoch(ImportedHeader(tables))
                 ELSE ImportedHeader(tables)
    /\ last' = IF EpochOf[cur] > last THEN EpochOf[cur] ELSE last
    /\ cur' = cur + 1 /\ before' = cur
    /\ UNCHANGED <<start, stage, left, history>>

SeedNext ==
    \/ Startup
    \/ PriorHeader \/ NoPriorHeader \/ StartHeader \/ EpochHeader
    \/ EpochRow \/ EpochRowRefused
    \/ \E p \in Pools : StoreNode(p) \/ RegisterNewNode(p) \/ InsertEpochNode(p)
    \/ PoolsDone \/ ValidatorsDone \/ EpochNodeRefused
    \/ Resume \/ ImportBlock
    \/ SeedCrash

-----------------------------------------------------------------------------
(* Properties.                                                             *)

PoolsSeeded == AllPoolsOf[start] \subseteq tables.nodes \cap tables.scores

ValidatorsSeeded ==
    {EpochNode(p) : p \in ValidatorsOf[start] \cap AllPoolsOf[start]} \subseteq tables.epochNodes

(* A jump over the beginning of an epoch takes the start block for it.     *)
EpochsSeeded ==
    \A r \in tables.epochs :
        \/ \E b \in Blocks : StartsEpoch(b) /\ r = [id |-> EpochOf[b], start |-> b]
        \/ seeded = "jump" /\ r.start = start

DurationsSeeded ==
    \A h \in tables.headers :
        h.block > 0 /\ h.block # EpochStart(start) => h.before = h.block - 1

(* While the loop imports, after however many processes that ended in the  *)
(* middle of a bootstrap or after it, the tables have what the first block *)
(* needs: a node and a score for each pool, a row for each validator, the  *)
(* true beginning of every epoch; and no header has got a duration from a  *)
(* restart.  What a process may leave undone for good when it ends after   *)
(* its first node, or in a jump, is excluded (runFillDb.ts 192-197).       *)
SeedWhole ==
    stage = "loop" =>
        /\ seeded # "no" /\ "pools" \notin missed => PoolsSeeded
        /\ seeded # "no" /\ "validators" \notin missed => ValidatorsSeeded
        /\ EpochsSeeded /\ DurationsSeeded
=============================================================================
