------------------------- MODULE ValidatorObserver -------------------------
(***************************************************************************)
(* How pending_validator_state_event follows the validator set             *)
(* (src/src/db/validatorObserver.ts).                                      *)
(*                                                                         *)
(* The observer compares the validators of a block with those it           *)
(* remembers and writes the difference in the transaction of the block.    *)
(* Its memory is changed at once: a rollback does not undo it, a restart   *)
(* reads it from the open records.  The loop of runFillDb is reduced to    *)
(* begin, commit, failure and crash; Indexer models it in full.            *)
(***************************************************************************)
EXTENDS Integers, SequencesExt

CONSTANTS
    Nodes,       \* validators, all of them known nodes
    MaxBlock,    \* bound: blocks are numbered 1 .. MaxBlock
    MaxRound,    \* bound: key generation rounds of an epoch
    MaxCrashes,  \* bound: deaths of the process
    MaxFails     \* bound: blocks that fail and are retried

ASSUME ObserverShape ==
    /\ IsFiniteSet(Nodes) /\ Nodes # {}
    /\ {MaxBlock, MaxRound, MaxCrashes, MaxFails} \subseteq Nat

VARIABLES
    chain,    \* round, epoch, pending and current validators after each block
    db,       \* the last block stored, and the validator records
    work,     \* records as the open transaction sees them
    memory,   \* what the observer remembers
    pc,       \* "idle", "pending", "current", "observed" or "unchanged"
    ahead,    \* history: memory was updated for a block that was rolled back
    lost,     \* history: blocks stored while it was
    crashes, fails

vars == <<chain, db, work, memory, pc, ahead, lost, crashes, fails>>

States == {"pending", "current"}

Lists == SetToAllKPermutations(Nodes)

(* The block being processed.                                              *)
block == db.block + 1
now == chain[block]

-----------------------------------------------------------------------------
(* The validator set contract, block by block: a set is pending until its  *)
(* keys are generated, a failed round selects again, and success makes it  *)
(* current in a new epoch.                                                 *)

FirstBlocks == {[round |-> 1, epoch |-> 0, pending |-> <<>>, current |-> l] : l \in Lists \ {<<>>}}

NextBlocks(c) ==
    {c}
    \cup {[c EXCEPT !.pending = l] : l \in {k \in Lists : c.pending = <<>> /\ k # <<>>}}
    \cup {[c EXCEPT !.pending = l, !.round = @ + 1] :
             l \in {k \in Lists : c.pending # <<>> /\ k # <<>> /\ c.round < MaxRound}}
    \cup {[round |-> 1, epoch |-> c.epoch + 1, pending |-> <<>>, current |-> l] :
             l \in {k \in {c.pending} : k # <<>>}}

NewBlock ==
    /\ pc = "idle" /\ Len(chain) = db.block /\ Len(chain) < MaxBlock
    /\ \E c \in NextBlocks(Last(chain)) : chain' = Append(chain, c)
    /\ UNCHANGED <<db, work, memory, pc, ahead, lost, crashes, fails>>

-----------------------------------------------------------------------------
(* Records.  exit = 0 stands for NULL, the record is open.                 *)

OpenOf(rows, state) == {r \in rows : r.state = state /\ r.exit = 0}
OpenNodes(rows, state) == {r.node : r \in OpenOf(rows, state)}

Entity(state, node) ==
    [state |-> state, node |-> node, enter |-> block, exit |-> 0, round |-> now.round]

(* Mutant: the open records are not looked for.                            *)
Added_Always(rows, state, list) == rows \cup {Entity(state, n) : n \in ToSet(list)}

(* processAddedValidators: a node with an open record keeps it.            *)
Added(rows, state, list) ==
    rows \cup {Entity(state, n) : n \in ToSet(list) \ OpenNodes(rows, state)}

(* updateOrIgnoreValidator picks the newest open record of an earlier      *)
(* block.                                                                  *)
ToClose(rows, state, node) ==
    LET open == {r \in OpenOf(rows, state) : r.node = node /\ r.enter # block}
    IN  {r \in open : \A q \in open :
            q.enter < r.enter \/ (q.enter = r.enter /\ q.round <= r.round)}

(* processRemovedValidators.                                               *)
Removed(rows, state, list) ==
    LET closing == UNION {ToClose(rows, state, n) : n \in ToSet(list)}
    IN  (rows \ closing) \cup {[r EXCEPT !.exit = block] : r \in closing}

-----------------------------------------------------------------------------
(* The observer.                                                           *)

(* Mutant: a restarted observer remembers no validators.                   *)
Initialized_Empty(rows) == {[pending |-> <<>>, current |-> <<>>, round |-> 0, epoch |-> 0]}

(* initialize: the open records, in whatever order the query returns them. *)
Initialized(rows) ==
    [pending : SetToSeqs(OpenNodes(rows, "pending")),
     current : SetToSeqs(OpenNodes(rows, "current")), round : {0}, epoch : {0}]

Init ==
    /\ \E c \in FirstBlocks : chain = <<c>>
    /\ db = [block |-> 0, rows |-> {}] /\ work = {}
    /\ memory \in Initialized({})
    /\ pc = "idle" /\ ahead = FALSE /\ lost = {}
    /\ crashes = 0 /\ fails = 0

(* Mutant: a new key generation round alone changes nothing.               *)
NothingToDo_SameRound == memory.epoch = now.epoch /\ memory.pending = now.pending

NothingToDo ==
    memory.round = now.round /\ memory.epoch = now.epoch /\ memory.pending = now.pending

Unobserved == <<chain, db, ahead, lost, crashes, fails>>

(* updateValidators up to its early return or first statement.             *)
ReadValidators ==
    /\ pc = "idle" /\ db.block < Len(chain)
    /\ work' = db.rows
    /\ \/ NothingToDo /\ pc' = "unchanged" /\ UNCHANGED memory
       \/ ~NothingToDo /\ pc' = "pending" /\ memory' = [memory EXCEPT !.epoch = now.epoch]
    /\ UNCHANGED Unobserved

UpdatePending ==
    /\ pc = "pending" /\ pc' = "current"
    /\ \/ /\ memory.pending # now.pending \/ memory.round # now.round
          /\ work' = Added(Removed(work, "pending", memory.pending), "pending", now.pending)
          /\ memory' = [memory EXCEPT !.pending = now.pending, !.round = now.round]
       \/ /\ memory.pending = now.pending /\ memory.round = now.round
          /\ UNCHANGED <<work, memory>>
    /\ UNCHANGED Unobserved

(* The round has been remembered by now: only the lists are compared.      *)
UpdateCurrent ==
    /\ pc = "current" /\ pc' = "observed"
    /\ \/ /\ memory.current # now.current
          /\ work' = Added(Removed(work, "current", memory.current), "current", now.current)
          /\ memory' = [memory EXCEPT !.current = now.current]
       \/ /\ memory.current = now.current
          /\ UNCHANGED <<work, memory>>
    /\ UNCHANGED Unobserved

Commit ==
    /\ pc \in {"observed", "unchanged"} /\ pc' = "idle"
    /\ db' = [block |-> block, rows |-> work]
    /\ lost' = IF ahead THEN lost \cup {block} ELSE lost
    /\ UNCHANGED <<chain, work, memory, ahead, crashes, fails>>

(* Any statement of the block fails; the loop retries with the memory as   *)
(* it is.                                                                  *)
BlockFails ==
    /\ pc # "idle" /\ fails < MaxFails
    /\ pc' = "idle" /\ work' = db.rows /\ fails' = fails + 1
    /\ ahead' = (ahead \/ pc \in {"current", "observed"})
    /\ UNCHANGED <<chain, db, memory, lost, crashes>>

(* The process dies and is started again.                                  *)
Crash ==
    /\ crashes < MaxCrashes /\ crashes' = crashes + 1
    /\ pc' = "idle" /\ work' = db.rows /\ ahead' = FALSE
    /\ memory' \in Initialized(db.rows)
    /\ UNCHANGED <<chain, db, lost, fails>>

Next ==
    \/ NewBlock \/ ReadValidators \/ UpdatePending \/ UpdateCurrent
    \/ Commit \/ BlockFails \/ Crash

Spec == Init /\ [][Next]_vars

-----------------------------------------------------------------------------
(* Properties.                                                             *)

Covers(r, b) == r.enter <= b /\ (r.exit = 0 \/ b < r.exit)

(* Whatever fails, a validator is never recorded twice for a block: the    *)
(* records of a node in a state do not overlap.  findValidator (findOne)   *)
(* would refuse two open ones, and the block with it.                      *)
RecordsDisjoint ==
    \A r, q \in work : r # q /\ r.state = q.state /\ r.node = q.node =>
        \A b \in 1 .. block : ~(Covers(r, b) /\ Covers(q, b))

(* The records tell who was pending and current after every block, but     *)
(* for blocks stored while the memory was ahead of the records: a restart  *)
(* at any moment loses nothing, and repairs what the failures did.         *)
RecordsTellHistory ==
    \A b \in 1 .. db.block, state \in States : b \notin lost =>
        {r.node : r \in {q \in db.rows : q.state = state /\ Covers(q, b)}} = ToSet(chain[b][state])

(* A pending validator's record is one of the key generation round it was  *)
(* pending in, even when a failed round selected the same nodes again.     *)
PendingRounds ==
    \A b \in 1 .. db.block : b \notin lost =>
        \A r \in db.rows : r.state = "pending" /\ Covers(r, b) => r.round = chain[b].round

=============================================================================
