---------------------- MODULE ValidatorObserverProofs ----------------------
(***************************************************************************)
(* What pending_validator_state_event says of the validators, for any      *)
(* nodes, any chain of the contract and any number of crashes and failed   *)
(* blocks.                                                                 *)
(*                                                                         *)
(* That the records are right after every block is not inductive: what is  *)
(* written next depends on what the observer remembers.  The invariant     *)
(* says, moment by moment of a block, how the open records, the memory and *)
(* the chain agree, as long as the memory is not ahead of the records.     *)
(***************************************************************************)
EXTENDS ValidatorObserver, FiniteSetTheorems, TLAPS

-----------------------------------------------------------------------------
(* The inductive invariant.                                                *)

Record == [state : States, node : Nodes, enter : Nat \ {0}, exit : Nat, round : Nat]
ContractState == [round : Nat \ {0}, epoch : Nat, pending : Seq(Nodes), current : Seq(Nodes)]
Memory == [pending : Seq(Nodes), current : Seq(Nodes), round : Nat, epoch : Nat]
Moments == {"idle", "pending", "current", "observed", "unchanged"}

(* The newest block the records of the transaction may speak of.           *)
Newest == IF pc = "idle" THEN db.block ELSE block

ObserverTypeOK ==
    /\ chain \in Seq(ContractState)
    /\ db.block \in Nat
    /\ work \subseteq Record /\ db.rows \subseteq Record
    /\ memory \in Memory
    /\ pc \in Moments
    /\ ahead \in BOOLEAN

(* One block at a time, each a successor of the one before.                *)
ChainInv ==
    /\ Len(chain) \in {db.block, block} /\ Len(chain) # 0
    /\ pc # "idle" => Len(chain) = block
    /\ \A i \in 1 .. Len(chain) : i # 1 => chain[i] \in NextBlocks(chain[i - 1])

Before(r, q) == r.exit # 0 /\ r.exit <= q.enter

(* A record ends after it began, none speaks of a block after b, and of    *)
(* two for the same validator one ended before the other began: at most    *)
(* one of them is open.                                                    *)
InOrder(rows, b) ==
    /\ \A r \in rows : r.enter <= b /\ r.exit <= b /\ (r.exit # 0 => r.enter < r.exit)
    /\ \A r, q \in rows :
          r # q /\ r.state = q.state /\ r.node = q.node => Before(r, q) \/ Before(q, r)

(* Outside a transaction, and until it writes, it sees what is stored; the *)
(* current validators are written last.                                    *)
WorkInv ==
    /\ InOrder(work, Newest) /\ InOrder(db.rows, db.block)
    /\ pc \in {"idle", "pending", "unchanged"} => work = db.rows
    /\ pc = "current" => \A r \in work : r.state = "current" => r.enter <= db.block

(* The records rows tell the validators c of block b.                      *)
Tells(rows, b, c) ==
    /\ \A state \in States :
          {r.node : r \in {q \in rows : q.state = state /\ Covers(q, b)}} = ToSet(c[state])
    /\ \A r \in rows : r.state = "pending" /\ Covers(r, b) => r.round = c.round

HistoryInv ==
    \A b \in 1 .. db.block : b \notin lost => Tells(work, b, chain[b]) /\ Tells(db.rows, b, chain[b])

(* The nodes of the list are those with an open record.                    *)
Knows(rows, state, list) == OpenNodes(rows, state) = ToSet(list)

OpenSince(rows, k) == \A r \in OpenOf(rows, "pending") : r.round = k

(* Of a list it has compared the observer knows the order, and of pending  *)
(* validators the round.                                                   *)
SeenPending(c) == memory.pending = c.pending /\ memory.round = c.round /\ OpenSince(work, c.round)
SeenCurrent(c) == memory.current = c.current

MemoryInv ==
    ~ahead =>
        /\ Knows(work, "pending", memory.pending) /\ Knows(work, "current", memory.current)
        /\ pc \in {"idle", "pending", "unchanged"} =>
              \/ memory.round = 0
              \/ db.block # 0 /\ SeenPending(chain[db.block]) /\ SeenCurrent(chain[db.block])
        /\ pc \in {"current", "observed", "unchanged"} => SeenPending(now)
        /\ pc \in {"observed", "unchanged"} => SeenCurrent(now)

ObserverInv ==
    /\ ObserverTypeOK /\ ChainInv /\ WorkInv /\ HistoryInv /\ MemoryInv

-----------------------------------------------------------------------------
(* Lists of validators.                                                    *)

(* A sequence of SetToSeqs holds every element of the set.                 *)
LEMMA ListHoldsSet ==
    ASSUME NEW S, IsFiniteSet(S), NEW l \in SetToSeqs(S)
    PROVE  l \in Seq(S) /\ ToSet(l) = S
<1> DEFINE D == 1 .. Cardinality(S)
<1>1. Cardinality(S) \in Nat
  BY FS_CardinalityType
<1>2. l \in [D -> S] /\ \A i, j \in D : i # j => l[i] # l[j]
  BY DEF SetToSeqs
<1>3. IsFiniteSet(D) /\ Cardinality(D) = Cardinality(S)
  BY <1>1, FS_Interval
<1>4. l \in Injection(D, S)
  BY <1>2 DEF Injection, IsInjective
<1>5. l \in Surjection(D, S)
  BY <1>3, <1>4, FS_Injection, Zenon
<1>6. DOMAIN l = D /\ \A x \in S : \E i \in D : l[i] = x
  BY <1>2, <1>5 DEF Surjection
<1>7. ToSet(l) = S
  BY <1>2, <1>6 DEF ToSet
<1> QED BY <1>1, <1>2, <1>7

LEMMA ListsTyped ==
    ASSUME NEW l \in Lists
    PROVE  l \in Seq(Nodes)
<1>1. PICK S \in SUBSET Nodes : l \in SetToSeqs(S)
  BY DEF Lists, SetToAllKPermutations
<1>2. IsFiniteSet(S)
  BY ObserverShape, FS_Subset
<1> QED BY <1>1, <1>2, ListHoldsSet

LEMMA NodesOfList ==
    ASSUME NEW l \in Seq(Nodes)
    PROVE  ToSet(l) \subseteq Nodes
BY DEF ToSet

(* A block with the round and the pending validators of its predecessor    *)
(* has its current validators too.                                         *)
LEMMA Successor ==
    ASSUME NEW c \in ContractState, NEW d \in NextBlocks(c)
    PROVE  /\ d \in ContractState
           /\ d.round = c.round /\ d.pending = c.pending => d.current = c.current
<1>1. CASE d = c
  BY <1>1
<1>2. ASSUME NEW l \in Lists, c.pending = <<>>, l # <<>>, d = [c EXCEPT !.pending = l]
      PROVE  d \in ContractState /\ d.pending # c.pending
  BY <1>2, ListsTyped DEF ContractState
<1>3. ASSUME NEW l \in Lists, d = [c EXCEPT !.pending = l, !.round = @ + 1]
      PROVE  d \in ContractState /\ d.round # c.round
  <2>1. c.round \in Nat \ {0} /\ c.round + 1 \in Nat \ {0} /\ l \in Seq(Nodes)
    BY ListsTyped DEF ContractState
  <2> DEFINE k == c.round + 1
  <2>2. k \in Nat \ {0} /\ k # c.round /\ d = [c EXCEPT !.pending = l, !.round = k]
    BY <2>1, <1>3
  <2> HIDE DEF k
  <2> QED BY <2>1, <2>2 DEF ContractState
<1>4. ASSUME c.pending # <<>>,
             d = [round |-> 1, epoch |-> c.epoch + 1, pending |-> <<>>, current |-> c.pending]
      PROVE  d \in ContractState /\ d.pending # c.pending
  BY <1>4 DEF ContractState
<1> QED BY <1>1, <1>2, <1>3, <1>4 DEF NextBlocks

-----------------------------------------------------------------------------
(* Records that are closed and records that are added, one list at a time. *)

(* The open records of the listed validators, but for those of this block. *)
Closing(rows, state, list) ==
    {r \in rows : r.state = state /\ r.exit = 0 /\ r.enter # block /\ r.node \in ToSet(list)}

Closed(r) == [r EXCEPT !.exit = block]

LEMMA ClosedRecord ==
    ASSUME NEW r \in Record, block \in Nat
    PROVE  /\ Closed(r) \in Record /\ Closed(r).exit = block
           /\ Closed(r).state = r.state /\ Closed(r).node = r.node
           /\ Closed(r).enter = r.enter /\ Closed(r).round = r.round
<1> HIDE DEF block
<1> QED BY DEF Closed, Record

(* At most one record is open, so the newest open one is the open one.     *)
LEMMA RemovedCloses ==
    ASSUME NEW rows \in SUBSET Record, InOrder(rows, block), NEW state, NEW list
    PROVE  Removed(rows, state, list) =
             (rows \ Closing(rows, state, list)) \cup {Closed(r) : r \in Closing(rows, state, list)}
<1>1. ASSUME NEW n, NEW r \in ToClose(rows, state, n)
      PROVE  r \in rows /\ r.state = state /\ r.exit = 0 /\ r.enter # block /\ r.node = n
  BY <1>1 DEF ToClose, OpenOf
<1>2. ASSUME NEW r \in rows, r.state = state, r.exit = 0, r.enter # block
      PROVE  r \in ToClose(rows, state, r.node)
  <2>1. \A q \in rows : q.state = state /\ q.exit = 0 /\ q.node = r.node => q = r
    BY <1>2 DEF InOrder, Before
  <2>2. r.enter \in Nat /\ r.round \in Nat
    BY DEF Record
  <2> QED BY <1>2, <2>1, <2>2 DEF ToClose, OpenOf
<1>3. UNION {ToClose(rows, state, n) : n \in ToSet(list)} = Closing(rows, state, list)
  <2> DEFINE U == UNION {ToClose(rows, state, n) : n \in ToSet(list)}
  <2>1. ASSUME NEW r \in U PROVE r \in Closing(rows, state, list)
    <3>1. PICK n \in ToSet(list) : r \in ToClose(rows, state, n)
      BY <2>1
    <3> QED BY <3>1, <1>1 DEF Closing
  <2>2. ASSUME NEW r \in Closing(rows, state, list) PROVE r \in U
    <3>1. r.node \in ToSet(list) /\ r \in ToClose(rows, state, r.node)
      BY <1>2 DEF Closing
    <3> QED BY <3>1
  <2> HIDE DEF U
  <2>3. U = Closing(rows, state, list)
    BY <2>1, <2>2
  <2> QED BY <2>3 DEF U
<1> QED BY <1>3 DEF Removed, Closed

(* What a closing and an adding together make of the records.              *)
Replaced(rows, state, old, new) == Added(Removed(rows, state, old), state, new)

(* Each record is an old one left alone, an old one closed, or a new one.  *)
LEMMA ReplacedRecords ==
    ASSUME NEW rows \in SUBSET Record, InOrder(rows, block), NEW state, NEW old, NEW new
    PROVE  Replaced(rows, state, old, new) =
             (rows \ Closing(rows, state, old))
               \cup {Closed(r) : r \in Closing(rows, state, old)}
               \cup {Entity(state, n) : n \in ToSet(new)
                        \ OpenNodes(Removed(rows, state, old), state)}
BY RemovedCloses DEF Replaced, Added

(* The same, record by record.                                             *)
LEMMA ReplacedCases ==
    ASSUME NEW rows \in SUBSET Record, InOrder(rows, block), NEW state, NEW old, NEW new,
           NEW r \in Replaced(rows, state, old, new)
    PROVE  \/ r \in rows /\ r \notin Closing(rows, state, old)
           \/ \E q \in Closing(rows, state, old) : r = Closed(q)
           \/ \E n \in ToSet(new) \ OpenNodes(Removed(rows, state, old), state) : r = Entity(state, n)
BY ReplacedRecords

LEMMA EntityTyped ==
    ASSUME db.block \in Nat, now \in ContractState, NEW state \in States, NEW n \in Nodes
    PROVE  /\ Entity(state, n) \in Record
           /\ Entity(state, n).state = state /\ Entity(state, n).node = n
           /\ Entity(state, n).enter = block /\ Entity(state, n).exit = 0
           /\ Entity(state, n).round = now.round
<1>1. now.round \in Nat /\ block \in Nat \ {0}
  BY DEF ContractState, block
<1> HIDE DEF now, block
<1> QED BY <1>1 DEF Entity, Record

LEMMA ReplacedTyped ==
    ASSUME db.block \in Nat, now \in ContractState, NEW rows \in SUBSET Record,
           InOrder(rows, block), NEW state \in States, NEW old, NEW new \in Seq(Nodes)
    PROVE  Replaced(rows, state, old, new) \subseteq Record
<1>1. \A r \in Closing(rows, state, old) : Closed(r) \in Record
  BY ClosedRecord DEF Closing, block
<1>2. \A n \in ToSet(new) : Entity(state, n) \in Record
  BY EntityTyped, NodesOfList
<1> QED BY <1>1, <1>2, ReplacedRecords

LEMMA ReplacedInOrder ==
    ASSUME db.block \in Nat, now \in ContractState, NEW rows \in SUBSET Record,
           InOrder(rows, block), NEW state \in States, NEW old, NEW new \in Seq(Nodes)
    PROVE  InOrder(Replaced(rows, state, old, new), block)
<1> DEFINE C == Closing(rows, state, old)
           kept == Removed(rows, state, old)
           out == Replaced(rows, state, old, new)
<1>0. block \in Nat \ {0} /\ C \subseteq rows
  BY DEF block, Closing
<1>1. ASSUME NEW r \in kept
      PROVE  \E q \in rows : /\ r.state = q.state /\ r.node = q.node /\ r.enter = q.enter
                             /\ \/ q \notin C /\ r = q
                                \/ q \in C /\ r = Closed(q) /\ q.exit = 0 /\ q.enter < block
                                           /\ r.exit = block
  <2>1. CASE r \in rows /\ r \notin C
    BY <2>1
  <2>2. ASSUME NEW q \in C, r = Closed(q)
        PROVE  q \in rows /\ q.exit = 0 /\ q.enter < block /\ r.exit = block
               /\ r.state = q.state /\ r.node = q.node /\ r.enter = q.enter
    <3>1. q \in rows /\ q.exit = 0 /\ q.enter # block /\ q \in Record
      BY DEF Closing
    <3>2. q.enter <= block /\ q.enter \in Nat
      BY <3>1 DEF InOrder, Record
    <3> QED BY <1>0, <2>2, <3>1, <3>2, ClosedRecord
  <2> QED BY <2>1, <2>2, <1>0, RemovedCloses
<1>2. InOrder(kept, block)
  <2>1. ASSUME NEW r \in kept
        PROVE  r.enter <= block /\ r.exit <= block /\ (r.exit # 0 => r.enter < r.exit)
    BY <1>0, <1>1 DEF InOrder
  <2>2. ASSUME NEW r \in kept, NEW q \in kept, r # q, r.state = q.state, r.node = q.node
        PROVE  Before(r, q) \/ Before(q, r)
    <3>1. PICK a \in rows : /\ r.state = a.state /\ r.node = a.node /\ r.enter = a.enter
                            /\ \/ a \notin C /\ r = a
                               \/ a \in C /\ r = Closed(a) /\ a.exit = 0 /\ a.enter < block
                                          /\ r.exit = block
      BY <1>1
    <3>2. PICK b \in rows : /\ q.state = b.state /\ q.node = b.node /\ q.enter = b.enter
                            /\ \/ b \notin C /\ q = b
                               \/ b \in C /\ q = Closed(b) /\ b.exit = 0 /\ b.enter < block
                                          /\ q.exit = block
      BY <1>1
    <3>3. a # b
      BY <2>2, <3>1, <3>2
    <3>4. Before(a, b) \/ Before(b, a)
      BY <2>2, <3>1, <3>2, <3>3 DEF InOrder
    <3> QED BY <3>1, <3>2, <3>4 DEF Before
  <2> QED BY <2>1, <2>2 DEF InOrder
<1>3. ASSUME NEW n \in ToSet(new) \ OpenNodes(kept, state)
      PROVE  /\ Entity(state, n).enter = block /\ Entity(state, n).exit = 0
             /\ Entity(state, n).state = state /\ Entity(state, n).node = n
             /\ \A q \in kept : q.state = state /\ q.node = n => Before(q, Entity(state, n))
  <2>1. /\ Entity(state, n).enter = block /\ Entity(state, n).exit = 0
        /\ Entity(state, n).state = state /\ Entity(state, n).node = n
    BY EntityTyped, NodesOfList
  <2>2. ASSUME NEW q \in kept, q.state = state, q.node = n
        PROVE  q.exit # 0 /\ q.exit <= block
    BY <1>2, <2>2 DEF OpenNodes, OpenOf, InOrder
  <2> QED BY <2>1, <2>2 DEF Before
<1>4. out = kept \cup {Entity(state, n) : n \in ToSet(new) \ OpenNodes(kept, state)}
  BY DEF Replaced, Added
<1> HIDE DEF out, kept, C
<1>5. ASSUME NEW r \in out
      PROVE  r.enter <= block /\ r.exit <= block /\ (r.exit # 0 => r.enter < r.exit)
  BY <1>0, <1>2, <1>3, <1>4 DEF InOrder
<1>6. ASSUME NEW r \in out, NEW q \in out, r # q, r.state = q.state, r.node = q.node
      PROVE  Before(r, q) \/ Before(q, r)
  <2>1. CASE r \in kept /\ q \in kept
    BY <1>2, <1>6, <2>1 DEF InOrder
  <2>2. ASSUME r \notin kept \/ q \notin kept PROVE Before(r, q) \/ Before(q, r)
    BY <1>3, <1>4, <1>6, <2>2
  <2> QED BY <2>1, <2>2
<1> QED BY <1>5, <1>6 DEF InOrder, out

(* An earlier block is told as before: what is closed or begun in this one *)
(* changes nothing for it.                                                 *)
LEMMA ReplacedTells ==
    ASSUME db.block \in Nat, now \in ContractState, NEW rows \in SUBSET Record,
           InOrder(rows, block), NEW state \in States, NEW old, NEW new \in Seq(Nodes),
           NEW b \in 1 .. db.block, NEW c, Tells(rows, b, c)
    PROVE  Tells(Replaced(rows, state, old, new), b, c)
<1> DEFINE C == Closing(rows, state, old)
           out == Replaced(rows, state, old, new)
<1>0. block \in Nat /\ b \in Nat /\ b < block /\ C \subseteq rows
  BY DEF block, Closing
<1>1. ASSUME NEW r \in out, Covers(r, b)
      PROVE  \E q \in rows : Covers(q, b) /\ q.state = r.state /\ q.node = r.node /\ q.round = r.round
  <2>1. CASE r \in rows
    BY <1>1, <2>1
  <2>2. ASSUME NEW q \in C, r = Closed(q)
        PROVE  Covers(q, b) /\ q \in rows /\ q.state = r.state /\ q.node = r.node /\ q.round = r.round
    <3>1. q \in Record /\ q.exit = 0 /\ q \in rows
      BY DEF Closing
    <3> QED BY <1>0, <1>1, <2>2, <3>1, ClosedRecord DEF Covers
  <2>3. ASSUME NEW n \in ToSet(new), r = Entity(state, n) PROVE FALSE
    <3>1. r.enter = block
      BY <2>3, EntityTyped, NodesOfList
    <3> HIDE DEF out
    <3> QED BY <1>0, <1>1, <3>1 DEF Covers
  <2> QED BY <2>1, <2>2, <2>3, ReplacedCases
<1>2. ASSUME NEW q \in rows, Covers(q, b)
      PROVE  \E r \in out : Covers(r, b) /\ q.state = r.state /\ q.node = r.node /\ q.round = r.round
  <2>1. CASE q \notin C
    BY <1>2, <2>1, ReplacedRecords
  <2>2. CASE q \in C
    <3>1. Closed(q) \in out
      BY <2>2, ReplacedRecords
    <3>2. Covers(Closed(q), b)
      BY <1>0, <1>2, ClosedRecord DEF Covers
    <3> QED BY <1>0, <3>1, <3>2, ClosedRecord
  <2> QED BY <2>1, <2>2
<1> HIDE DEF out, C
<1>3. ASSUME NEW s \in States
      PROVE  {r.node : r \in {q \in out : q.state = s /\ Covers(q, b)}}
                = {r.node : r \in {q \in rows : q.state = s /\ Covers(q, b)}}
  BY <1>1, <1>2
<1>4. \A r \in out : r.state = "pending" /\ Covers(r, b) => r.round = c.round
  BY <1>1 DEF Tells
<1> QED BY <1>3, <1>4 DEF Tells, out

(* The other state keeps its open records.                                 *)
LEMMA ReplacedOther ==
    ASSUME db.block \in Nat, now \in ContractState, NEW rows \in SUBSET Record,
           InOrder(rows, block), NEW state \in States, NEW old, NEW new \in Seq(Nodes),
           NEW other, other # state
    PROVE  /\ OpenOf(Replaced(rows, state, old, new), other) = OpenOf(rows, other)
           /\ \A r \in Replaced(rows, state, old, new) : r.state = other => r \in rows
<1> DEFINE C == Closing(rows, state, old)
           out == Replaced(rows, state, old, new)
<1>1. ASSUME NEW q \in C PROVE q.state = state /\ Closed(q).state = state
  BY ClosedRecord DEF Closing, block
<1>2. ASSUME NEW n \in ToSet(new) PROVE Entity(state, n).state = state
  BY EntityTyped, NodesOfList
<1>3. ASSUME NEW r \in out, r.state = other PROVE r \in rows
  BY <1>1, <1>2, <1>3, ReplacedCases
<1>4. ASSUME NEW r \in rows, r.state = other PROVE r \in out
  BY <1>1, <1>4, ReplacedRecords
<1> HIDE DEF out
<1>5. OpenOf(out, other) = OpenOf(rows, other)
  BY <1>3, <1>4 DEF OpenOf
<1> QED BY <1>3, <1>5 DEF out

(* The listed validators are those with an open record, of this round, if  *)
(* the old list was right.                                                 *)
LEMMA ReplacedOpen ==
    ASSUME db.block \in Nat, now \in ContractState, NEW rows \in SUBSET Record,
           InOrder(rows, block), NEW state \in States, NEW old, NEW new \in Seq(Nodes),
           Knows(rows, state, old), \A r \in rows : r.state = state => r.enter # block
    PROVE  /\ Knows(Replaced(rows, state, old, new), state, new)
           /\ \A r \in OpenOf(Replaced(rows, state, old, new), state) : r.round = now.round
<1> DEFINE C == Closing(rows, state, old)
           kept == Removed(rows, state, old)
           out == Replaced(rows, state, old, new)
<1>1. ASSUME NEW r \in rows, r.state = state, r.exit = 0 PROVE r \in C
  BY <1>1 DEF Knows, OpenNodes, OpenOf, Closing
<1>2. ASSUME NEW q \in C PROVE Closed(q).exit # 0
  BY ClosedRecord DEF Closing, block
<1>3. OpenNodes(kept, state) = {}
  BY <1>1, <1>2, RemovedCloses DEF OpenNodes, OpenOf
<1>4. ASSUME NEW n \in ToSet(new)
      PROVE  /\ Entity(state, n).state = state /\ Entity(state, n).exit = 0
             /\ Entity(state, n).node = n /\ Entity(state, n).round = now.round
  BY EntityTyped, NodesOfList
<1>5. ASSUME NEW r \in out, r.state = state, r.exit = 0
      PROVE  \E n \in ToSet(new) : r = Entity(state, n)
  BY <1>1, <1>2, <1>5, ReplacedCases
<1>6. \A n \in ToSet(new) : Entity(state, n) \in out
  BY <1>3, ReplacedRecords
<1> HIDE DEF out
<1>7. OpenNodes(out, state) = ToSet(new)
  BY <1>4, <1>5, <1>6 DEF OpenNodes, OpenOf
<1>8. \A r \in OpenOf(out, state) : r.round = now.round
  BY <1>4, <1>5 DEF OpenOf
<1> QED BY <1>7, <1>8 DEF Knows, out

-----------------------------------------------------------------------------
(* The invariant is inductive.                                             *)

(* A started observer remembers the nodes of the open records.             *)
LEMMA InitializedKnows ==
    ASSUME NEW rows \in SUBSET Record, NEW m \in Initialized(rows)
    PROVE  /\ m \in Memory /\ m.round = 0
           /\ Knows(rows, "pending", m.pending) /\ Knows(rows, "current", m.current)
<1>1. /\ m.pending \in SetToSeqs(OpenNodes(rows, "pending")) /\ m.round = 0 /\ m.epoch = 0
      /\ m.current \in SetToSeqs(OpenNodes(rows, "current"))
      /\ m = [pending |-> m.pending, current |-> m.current, round |-> 0, epoch |-> 0]
  BY DEF Initialized
<1>2. ASSUME NEW state PROVE OpenNodes(rows, state) \in SUBSET Nodes
  BY DEF OpenNodes, OpenOf, Record
<1>3. ASSUME NEW state PROVE IsFiniteSet(OpenNodes(rows, state))
  BY <1>2, ObserverShape, FS_Subset
<1>4. /\ ToSet(m.pending) = OpenNodes(rows, "pending") /\ ToSet(m.current) = OpenNodes(rows, "current")
      /\ m.pending \in Seq(OpenNodes(rows, "pending")) /\ m.current \in Seq(OpenNodes(rows, "current"))
  BY <1>1, <1>3, ListHoldsSet
<1>5. m.pending \in Seq(Nodes) /\ m.current \in Seq(Nodes)
  BY <1>2, <1>4
<1> QED BY <1>1, <1>4, <1>5 DEF Knows, Memory

LEMMA InitObserverInv == Init => ObserverInv
<1> SUFFICES ASSUME Init PROVE ObserverInv
  OBVIOUS
<1>1. PICK l \in Lists \ {<<>>} :
         chain = <<[round |-> 1, epoch |-> 0, pending |-> <<>>, current |-> l]>>
  BY DEF Init, FirstBlocks
<1>2. chain \in Seq(ContractState) /\ Len(chain) = 1
  BY <1>1, ListsTyped DEF ContractState
<1>3. db.block = 0 /\ db.rows = {} /\ work = {} /\ pc = "idle" /\ ahead = FALSE
  BY DEF Init
<1>4. memory \in Memory /\ memory.round = 0
      /\ Knows(work, "pending", memory.pending) /\ Knows(work, "current", memory.current)
  BY <1>3, InitializedKnows DEF Init
<1>5. ObserverTypeOK
  <2>1. db.block \in Nat /\ pc \in Moments
    BY <1>3 DEF Moments
  <2>3. ahead \in BOOLEAN
    BY DEF Init
  <2>2. work \subseteq Record /\ db.rows \subseteq Record
    BY <1>3
  <2> QED BY <1>2, <1>4, <2>1, <2>2, <2>3 DEF ObserverTypeOK
<1>6. ChainInv
  BY <1>2, <1>3 DEF ChainInv, block
<1>7. WorkInv
  BY <1>3 DEF WorkInv, InOrder
<1>8. HistoryInv
  BY <1>3 DEF HistoryInv
<1>9. MemoryInv
  BY <1>3, <1>4 DEF MemoryInv
<1> QED BY <1>5, <1>6, <1>7, <1>8, <1>9 DEF ObserverInv

LEMMA NewBlockObserverInv ==
    ASSUME ObserverInv, NewBlock
    PROVE  ObserverInv'
<1>1. PICK c \in NextBlocks(Last(chain)) : chain' = Append(chain, c)
  BY DEF NewBlock
<1>2. /\ chain \in Seq(ContractState) /\ Len(chain) # 0 /\ Len(chain) = db.block
      /\ pc = "idle" /\ db.block \in Nat
  BY DEF ObserverInv, ObserverTypeOK, ChainInv, NewBlock
<1>3. UNCHANGED <<db, work, memory, pc, ahead, lost>>
  BY DEF NewBlock
<1>4. Last(chain) = chain[Len(chain)] /\ Last(chain) \in ContractState
  BY <1>2 DEF Last
<1>5. c \in ContractState
  BY <1>4, Successor
<1>6. /\ chain' \in Seq(ContractState) /\ Len(chain') = db.block + 1
      /\ \A i \in 1 .. db.block : chain'[i] = chain[i]
      /\ chain'[db.block + 1] = c
  BY <1>1, <1>2, <1>5
<1>7. ObserverTypeOK'
  BY <1>3, <1>6 DEF ObserverInv, ObserverTypeOK
<1>8. ChainInv'
  <2>1. ASSUME NEW i \in 1 .. Len(chain'), i # 1
        PROVE  chain'[i] \in NextBlocks(chain'[i - 1])
    <3>1. CASE i \in 1 .. db.block
      <4>1. i - 1 \in 1 .. db.block
        BY <1>2, <2>1, <3>1
      <4> QED BY <1>2, <1>6, <2>1, <3>1, <4>1 DEF ObserverInv, ChainInv
    <3>2. CASE i = db.block + 1
      <4>1. i - 1 = db.block /\ db.block \in 1 .. db.block
        BY <1>2, <3>2
      <4>2. chain'[i - 1] = Last(chain)
        BY <1>2, <1>4, <1>6, <4>1
      <4> QED BY <1>6, <3>2, <4>2
    <3> QED BY <1>2, <1>6, <3>1, <3>2
  <2> QED BY <1>2, <1>3, <1>6, <2>1 DEF ChainInv, block
<1>9. WorkInv'
  BY <1>3 DEF ObserverInv, WorkInv, Newest, block
<1>10. HistoryInv'
  BY <1>3, <1>6 DEF ObserverInv, HistoryInv
<1>11. MemoryInv'
  BY <1>2, <1>3, <1>6 DEF ObserverInv, MemoryInv, SeenPending, SeenCurrent, OpenSince
<1> QED BY <1>7, <1>8, <1>9, <1>10, <1>11 DEF ObserverInv

(* Inside a block: what the steps that change records and memory rely on.  *)
LEMMA InBlock ==
    ASSUME ObserverInv, Len(chain) = block
    PROVE  /\ db.block \in Nat /\ block \in Nat \ {0} /\ block = db.block + 1
           /\ now \in ContractState /\ now.pending \in Seq(Nodes) /\ now.current \in Seq(Nodes)
           /\ now.round \in Nat \ {0}
           /\ db.block # 0 => /\ chain[db.block] \in ContractState
                              /\ now \in NextBlocks(chain[db.block])
<1>1. db.block \in Nat /\ block = db.block + 1 /\ chain \in Seq(ContractState)
  BY DEF ObserverInv, ObserverTypeOK, block
<1>2. now \in ContractState
  BY <1>1 DEF now
<1>3. ASSUME db.block # 0
      PROVE  chain[db.block] \in ContractState /\ now \in NextBlocks(chain[db.block])
  <2>1. db.block \in 1 .. Len(chain) /\ block \in 1 .. Len(chain) /\ block # 1 /\ block - 1 = db.block
    BY <1>1, <1>3
  <2>2. chain[block] \in NextBlocks(chain[block - 1])
    BY <2>1 DEF ObserverInv, ChainInv
  <2> QED BY <1>1, <2>1, <2>2 DEF now
<1> QED BY <1>1, <1>2, <1>3 DEF ContractState

LEMMA ReadObserverInv ==
    ASSUME ObserverInv, ReadValidators
    PROVE  ObserverInv'
<1>1. pc = "idle" /\ UNCHANGED Unobserved /\ work' = db.rows /\ work = db.rows
  BY DEF ReadValidators, ObserverInv, WorkInv
<1>2. Len(chain) = block /\ db.block \in Nat
  BY DEF ReadValidators, ObserverInv, ObserverTypeOK, ChainInv, block
<1>3. UNCHANGED <<block, now>>
  BY <1>1 DEF Unobserved, block, now
<1>4. memory' \in Memory /\ memory'.pending = memory.pending /\ memory'.current = memory.current
      /\ memory'.round = memory.round /\ pc' \in {"unchanged", "pending"}
  <2>1. now.epoch \in Nat /\ memory \in Memory
    BY <1>2, InBlock DEF ContractState, ObserverInv, ObserverTypeOK
  <2> QED BY <2>1 DEF ReadValidators, Memory
<1>5. ObserverTypeOK'
  BY <1>1, <1>4 DEF ObserverInv, ObserverTypeOK, Unobserved, Moments
<1>6. ChainInv'
  BY <1>1, <1>2, <1>3 DEF ObserverInv, ChainInv, Unobserved
<1>7. WorkInv'
  <2>1. InOrder(db.rows, db.block) /\ db.rows \subseteq Record
    BY DEF ObserverInv, WorkInv, ObserverTypeOK
  <2>2. InOrder(db.rows, block)
    BY <1>2, <2>1 DEF InOrder, block, Record
  <2>3. db' = db /\ Newest' = block
    BY <1>1, <1>3, <1>4 DEF Unobserved, Newest
  <2> QED BY <1>1, <1>4, <2>1, <2>2, <2>3 DEF WorkInv
<1>8. HistoryInv'
  BY <1>1 DEF ObserverInv, HistoryInv, Unobserved
<1>9. MemoryInv'
  <2> SUFFICES ASSUME ~ahead PROVE MemoryInv'
    BY <1>1 DEF MemoryInv, Unobserved
  <2>1. Knows(work', "pending", memory'.pending) /\ Knows(work', "current", memory'.current)
    BY <1>1, <1>4 DEF ObserverInv, MemoryInv
  <2>2. \/ memory'.round = 0
        \/ db.block # 0 /\ SeenPending(chain[db.block])' /\ SeenCurrent(chain[db.block])'
    BY <1>1, <1>4 DEF ObserverInv, MemoryInv, SeenPending, SeenCurrent, Unobserved
  <2>3. ASSUME pc' = "unchanged" PROVE SeenPending(now)' /\ SeenCurrent(now)'
    <3>1. NothingToDo
      BY <2>3 DEF ReadValidators
    <3>2. db.block # 0 /\ SeenPending(chain[db.block]) /\ SeenCurrent(chain[db.block])
      BY <1>1, <1>2, <3>1, InBlock DEF NothingToDo, ObserverInv, MemoryInv
    <3>3. now.current = chain[db.block].current
      BY <1>2, <3>1, <3>2, InBlock, Successor DEF NothingToDo, SeenPending
    <3> QED BY <1>1, <1>3, <1>4, <3>1, <3>2, <3>3
            DEF SeenPending, SeenCurrent, NothingToDo
  <2> QED BY <1>1, <1>4, <2>1, <2>2, <2>3 DEF MemoryInv, Unobserved
<1> QED BY <1>5, <1>6, <1>7, <1>8, <1>9 DEF ObserverInv

(* A list is compared and, where it differs, written and remembered.       *)
LEMMA PendingObserverInv ==
    ASSUME ObserverInv, UpdatePending
    PROVE  ObserverInv'
<1> DEFINE out == Replaced(work, "pending", memory.pending, now.pending)
<1>1. /\ pc = "pending" /\ pc' = "current" /\ UNCHANGED Unobserved
      /\ \/ /\ work' = out
            /\ memory' = [memory EXCEPT !.pending = now.pending, !.round = now.round]
         \/ /\ memory.pending = now.pending /\ memory.round = now.round
            /\ UNCHANGED <<work, memory>>
  BY DEF UpdatePending, Replaced
<1>2. /\ Len(chain) = block /\ work = db.rows /\ work \in SUBSET Record /\ memory \in Memory
      /\ InOrder(work, block) /\ InOrder(db.rows, db.block)
  BY <1>1 DEF ObserverInv, ObserverTypeOK, ChainInv, WorkInv, Newest
<1>3. /\ db.block \in Nat /\ block = db.block + 1 /\ now \in ContractState
      /\ now.pending \in Seq(Nodes) /\ now.current \in Seq(Nodes) /\ now.round \in Nat \ {0}
  BY <1>2, InBlock
<1>4. UNCHANGED <<chain, db, ahead, lost, block, now>>
  BY <1>1 DEF Unobserved, block, now
<1>5. /\ memory' \in Memory /\ memory'.pending = now.pending /\ memory'.round = now.round
      /\ memory'.current = memory.current
  BY <1>1, <1>2, <1>3 DEF Memory
<1>6. out \subseteq Record /\ InOrder(out, block)
  BY <1>2, <1>3, ReplacedTyped, ReplacedInOrder DEF States
<1>7. \A r \in work : r.enter <= db.block /\ r.enter # block
  <2>1. ASSUME NEW r \in work PROVE r.enter <= db.block /\ r.enter # block
    <3>1. r.enter <= db.block /\ r.enter \in Nat
      BY <1>2 DEF InOrder, Record
    <3> QED BY <1>3, <3>1
  <2> QED BY <2>1
<1>8. ObserverTypeOK'
  BY <1>1, <1>4, <1>5, <1>6 DEF ObserverInv, ObserverTypeOK, Moments
<1>9. ChainInv'
  BY <1>1, <1>2, <1>4 DEF ObserverInv, ChainInv
<1>10. WorkInv'
  <2>1. InOrder(work', block)
    BY <1>1, <1>2, <1>6
  <2>2. \A r \in out : r.state = "current" => r \in work
    BY <1>2, <1>3, ReplacedOther DEF States
  <2>3. \A r \in work' : r.state = "current" => r.enter <= db.block
    BY <1>1, <1>7, <2>2
  <2> QED BY <1>1, <1>2, <1>4, <2>1, <2>3 DEF WorkInv, Newest
<1>11. HistoryInv'
  <2>1. ASSUME NEW b \in 1 .. db.block, b \notin lost
        PROVE  Tells(work', b, chain[b]) /\ Tells(db.rows, b, chain[b])
    <3>1. Tells(work, b, chain[b]) /\ Tells(db.rows, b, chain[b])
      BY <2>1 DEF ObserverInv, HistoryInv
    <3>2. Tells(out, b, chain[b])
      BY <1>2, <1>3, <3>1, ReplacedTells DEF States
    <3> QED BY <1>1, <3>1, <3>2
  <2> QED BY <1>4, <2>1 DEF HistoryInv
<1>12. MemoryInv'
  <2> SUFFICES ASSUME ~ahead PROVE MemoryInv'
    BY <1>4 DEF MemoryInv
  <2>1. Knows(work, "pending", memory.pending) /\ Knows(work, "current", memory.current)
    BY DEF ObserverInv, MemoryInv
  <2>2. CASE work' = out
    <3>1. Knows(out, "pending", now.pending) /\ OpenSince(out, now.round)
      BY <1>2, <1>3, <1>7, <2>1, ReplacedOpen DEF States, OpenSince
    <3>2. OpenOf(out, "current") = OpenOf(work, "current")
      BY <1>2, <1>3, ReplacedOther DEF States
    <3>3. Knows(out, "current", memory.current)
      BY <2>1, <3>2 DEF Knows, OpenNodes
    <3> HIDE DEF out
    <3> QED BY <1>1, <1>4, <1>5, <2>2, <3>1, <3>3 DEF MemoryInv, SeenPending
  <2>3. CASE memory.pending = now.pending /\ memory.round = now.round /\ UNCHANGED <<work, memory>>
    <3>1. OpenSince(work, now.round)
      BY <1>1, <1>3, <2>3 DEF ObserverInv, MemoryInv, SeenPending
    <3> QED BY <1>1, <1>4, <2>1, <2>3, <3>1 DEF MemoryInv, SeenPending
  <2> QED BY <1>1, <2>2, <2>3
<1> QED BY <1>8, <1>9, <1>10, <1>11, <1>12 DEF ObserverInv

LEMMA CurrentObserverInv ==
    ASSUME ObserverInv, UpdateCurrent
    PROVE  ObserverInv'
<1> DEFINE out == Replaced(work, "current", memory.current, now.current)
<1>1. /\ pc = "current" /\ pc' = "observed" /\ UNCHANGED Unobserved
      /\ \/ work' = out /\ memory' = [memory EXCEPT !.current = now.current]
         \/ memory.current = now.current /\ UNCHANGED <<work, memory>>
  BY DEF UpdateCurrent, Replaced
<1>2. /\ Len(chain) = block /\ work \in SUBSET Record /\ memory \in Memory
      /\ InOrder(work, block) /\ InOrder(db.rows, db.block)
      /\ \A r \in work : r.state = "current" => r.enter <= db.block
  BY <1>1 DEF ObserverInv, ObserverTypeOK, ChainInv, WorkInv, Newest
<1>3. /\ db.block \in Nat /\ block = db.block + 1 /\ now \in ContractState
      /\ now.pending \in Seq(Nodes) /\ now.current \in Seq(Nodes)
  BY <1>2, InBlock
<1>4. UNCHANGED <<chain, db, ahead, lost, block, now>>
  BY <1>1 DEF Unobserved, block, now
<1>5. /\ memory' \in Memory /\ memory'.pending = memory.pending /\ memory'.round = memory.round
      /\ memory'.current = now.current
  BY <1>1, <1>2, <1>3 DEF Memory
<1>6. out \subseteq Record /\ InOrder(out, block)
  BY <1>2, <1>3, ReplacedTyped, ReplacedInOrder DEF States
<1>7. ObserverTypeOK'
  BY <1>1, <1>4, <1>5, <1>6 DEF ObserverInv, ObserverTypeOK, Moments
<1>8. ChainInv'
  BY <1>1, <1>2, <1>4 DEF ObserverInv, ChainInv
<1>9. WorkInv'
  <2>1. InOrder(work', block)
    BY <1>1, <1>2, <1>6
  <2> QED BY <1>1, <1>2, <1>4, <2>1 DEF WorkInv, Newest
<1>10. HistoryInv'
  <2>1. ASSUME NEW b \in 1 .. db.block, b \notin lost
        PROVE  Tells(work', b, chain[b]) /\ Tells(db.rows, b, chain[b])
    <3>1. Tells(work, b, chain[b]) /\ Tells(db.rows, b, chain[b])
      BY <2>1 DEF ObserverInv, HistoryInv
    <3>2. Tells(out, b, chain[b])
      BY <1>2, <1>3, <3>1, ReplacedTells DEF States
    <3> QED BY <1>1, <3>1, <3>2
  <2> QED BY <1>4, <2>1 DEF HistoryInv
<1>11. MemoryInv'
  <2> SUFFICES ASSUME ~ahead PROVE MemoryInv'
    BY <1>4 DEF MemoryInv
  <2>1. /\ Knows(work, "pending", memory.pending) /\ Knows(work, "current", memory.current)
        /\ memory.pending = now.pending /\ memory.round = now.round /\ OpenSince(work, now.round)
    BY <1>1 DEF ObserverInv, MemoryInv, SeenPending
  <2>2. CASE work' = out
    <3>1. Knows(out, "current", now.current)
      <4>1. \A r \in work : r.state = "current" => r.enter # block
        <5>1. ASSUME NEW r \in work, r.state = "current" PROVE r.enter # block
          BY <1>2, <1>3, <5>1 DEF Record
        <5> QED BY <5>1
      <4> QED BY <1>2, <1>3, <2>1, <4>1, ReplacedOpen DEF States
    <3>2. OpenOf(out, "pending") = OpenOf(work, "pending")
      BY <1>2, <1>3, ReplacedOther DEF States
    <3>3. Knows(out, "pending", now.pending) /\ OpenSince(out, now.round)
      BY <2>1, <3>2 DEF Knows, OpenNodes, OpenSince
    <3> HIDE DEF out
    <3> QED BY <1>1, <1>4, <1>5, <2>1, <2>2, <3>1, <3>3 DEF MemoryInv, SeenPending, SeenCurrent
  <2>3. CASE memory.current = now.current /\ UNCHANGED <<work, memory>>
    BY <1>1, <1>4, <2>1, <2>3 DEF MemoryInv, SeenPending, SeenCurrent
  <2> QED BY <1>1, <2>2, <2>3
<1> QED BY <1>7, <1>8, <1>9, <1>10, <1>11 DEF ObserverInv

(* With the commit the open records are those of the block.                *)
LEMMA CommitObserverInv ==
    ASSUME ObserverInv, Commit
    PROVE  ObserverInv'
<1>1. /\ pc \in {"observed", "unchanged"} /\ pc' = "idle"
      /\ db' = [block |-> block, rows |-> work]
      /\ lost' = (IF ahead THEN lost \cup {block} ELSE lost)
      /\ UNCHANGED <<chain, work, memory, ahead>>
  BY DEF Commit
<1>2. /\ Len(chain) = block /\ work \subseteq Record /\ InOrder(work, block)
      /\ chain \in Seq(ContractState)
  BY <1>1 DEF ObserverInv, ObserverTypeOK, ChainInv, WorkInv, Newest
<1>3. /\ db.block \in Nat /\ block = db.block + 1 /\ block \in Nat \ {0} /\ now = chain[block]
      /\ now.round \in Nat \ {0}
  BY <1>2, InBlock DEF now
<1>4. db'.block = block /\ db'.rows = work /\ Newest' = block
  BY <1>1 DEF Newest
<1>5. ObserverTypeOK'
  BY <1>1, <1>2, <1>3, <1>4 DEF ObserverInv, ObserverTypeOK, Moments
<1>6. ChainInv'
  BY <1>1, <1>2, <1>3, <1>4 DEF ObserverInv, ChainInv
<1>7. WorkInv'
  BY <1>1, <1>2, <1>4 DEF WorkInv
<1>8. ASSUME ~ahead PROVE Tells(work, block, now)
  <2>1. /\ Knows(work, "pending", now.pending) /\ Knows(work, "current", now.current)
        /\ OpenSince(work, now.round)
    BY <1>1, <1>8 DEF ObserverInv, MemoryInv, SeenPending, SeenCurrent
  <2>2. ASSUME NEW r \in work PROVE Covers(r, block) <=> r.exit = 0
    <3>1. r.enter <= block /\ r.exit <= block /\ r.exit \in Nat /\ r.enter \in Nat
      BY <1>2 DEF InOrder, Record
    <3> QED BY <1>3, <3>1 DEF Covers
  <2>3. ASSUME NEW s \in States
        PROVE  {r.node : r \in {q \in work : q.state = s /\ Covers(q, block)}} = OpenNodes(work, s)
    BY <2>2 DEF OpenNodes, OpenOf
  <2>4. \A r \in work : r.state = "pending" /\ Covers(r, block) => r.round = now.round
    BY <2>1, <2>2 DEF OpenSince, OpenOf
  <2>5. \A s \in States : OpenNodes(work, s) = ToSet(now[s])
    BY <2>1 DEF States, Knows
  <2> QED BY <2>3, <2>4, <2>5 DEF Tells
<1>9. HistoryInv'
  <2>1. ASSUME NEW b \in 1 .. block, b \notin lost'
        PROVE  Tells(work, b, chain[b])
    <3>1. CASE b = block
      <4>1. ~ahead
        BY <1>1, <2>1, <3>1
      <4> QED BY <1>3, <1>8, <3>1, <4>1
    <3>2. CASE b # block
      <4>1. b \in 1 .. db.block /\ b \notin lost
        BY <1>1, <1>3, <2>1, <3>2
      <4> QED BY <4>1 DEF ObserverInv, HistoryInv
    <3> QED BY <3>1, <3>2
  <2> QED BY <1>1, <1>4, <2>1 DEF HistoryInv
<1>10. MemoryInv'
  <2> SUFFICES ASSUME ~ahead PROVE MemoryInv'
    BY <1>1 DEF MemoryInv
  <2>1. /\ Knows(work, "pending", memory.pending) /\ Knows(work, "current", memory.current)
        /\ SeenPending(now) /\ SeenCurrent(now)
    BY <1>1 DEF ObserverInv, MemoryInv
  <2>2. SeenPending(chain[db.block])' /\ SeenCurrent(chain[db.block])'
    BY <1>1, <1>3, <1>4, <2>1 DEF SeenPending, SeenCurrent
  <2> QED BY <1>1, <1>3, <1>4, <2>1, <2>2 DEF MemoryInv
<1> QED BY <1>5, <1>6, <1>7, <1>9, <1>10 DEF ObserverInv

(* A rollback restores the records.  The memory stays: it was not changed  *)
(* yet, or it is ahead from now on.                                        *)
LEMMA FailsObserverInv ==
    ASSUME ObserverInv, BlockFails
    PROVE  ObserverInv'
<1>1. /\ pc # "idle" /\ pc' = "idle" /\ work' = db.rows
      /\ ahead' = (ahead \/ pc \in {"current", "observed"})
      /\ UNCHANGED <<chain, db, memory, lost>>
  BY DEF BlockFails
<1>2. db.rows \subseteq Record /\ InOrder(db.rows, db.block) /\ ahead' \in BOOLEAN
  BY <1>1 DEF ObserverInv, ObserverTypeOK, WorkInv
<1>3. ObserverTypeOK'
  BY <1>1, <1>2 DEF ObserverInv, ObserverTypeOK, Moments
<1>4. ChainInv'
  BY <1>1 DEF ObserverInv, ChainInv, block
<1>5. WorkInv'
  BY <1>1, <1>2 DEF WorkInv, Newest
<1>6. HistoryInv'
  BY <1>1 DEF ObserverInv, HistoryInv
<1>7. MemoryInv'
  <2> SUFFICES ASSUME ~ahead, pc \notin {"current", "observed"} PROVE MemoryInv'
    BY <1>1 DEF MemoryInv
  <2>1. work = db.rows /\ pc \in {"pending", "unchanged"}
    BY <1>1 DEF ObserverInv, ObserverTypeOK, WorkInv, Moments
  <2> QED BY <1>1, <2>1 DEF ObserverInv, MemoryInv, SeenPending, SeenCurrent
<1> QED BY <1>3, <1>4, <1>5, <1>6, <1>7 DEF ObserverInv

(* A restart reads the memory from the records: whatever was ahead is      *)
(* repaired.                                                               *)
LEMMA CrashObserverInv ==
    ASSUME ObserverInv, Crash
    PROVE  ObserverInv'
<1>1. /\ pc' = "idle" /\ work' = db.rows /\ ahead' = FALSE
      /\ memory' \in Initialized(db.rows)
      /\ UNCHANGED <<chain, db, lost>>
  BY DEF Crash
<1>2. db.rows \in SUBSET Record /\ InOrder(db.rows, db.block)
  BY DEF ObserverInv, ObserverTypeOK, WorkInv
<1>3. /\ memory' \in Memory /\ memory'.round = 0
      /\ Knows(db.rows, "pending", memory'.pending) /\ Knows(db.rows, "current", memory'.current)
  BY <1>1, <1>2, InitializedKnows
<1>4. ObserverTypeOK'
  <2>1. ahead' \in BOOLEAN
    BY DEF Crash
  <2> QED BY <1>1, <1>2, <1>3, <2>1 DEF ObserverInv, ObserverTypeOK, Moments
<1>5. ChainInv'
  BY <1>1 DEF ObserverInv, ChainInv, block
<1>6. WorkInv'
  BY <1>1, <1>2 DEF WorkInv, Newest
<1>7. HistoryInv'
  BY <1>1 DEF ObserverInv, HistoryInv
<1>8. MemoryInv'
  BY <1>1, <1>3 DEF MemoryInv
<1> QED BY <1>4, <1>5, <1>6, <1>7, <1>8 DEF ObserverInv

LEMMA StepObserverInv == ObserverInv /\ [Next]_vars => ObserverInv'
<1> SUFFICES ASSUME ObserverInv, [Next]_vars PROVE ObserverInv'
  OBVIOUS
<1>1. CASE Next
  BY <1>1, NewBlockObserverInv, ReadObserverInv, PendingObserverInv, CurrentObserverInv,
     CommitObserverInv, FailsObserverInv, CrashObserverInv DEF Next
<1>2. CASE UNCHANGED vars
  BY <1>2 DEF vars, ObserverInv, ObserverTypeOK, ChainInv, WorkInv, HistoryInv, MemoryInv,
              Newest, block, now, SeenPending, SeenCurrent
<1> QED BY <1>1, <1>2

(* The observer's invariant, for all nodes, chains and faults: its records *)
(* are in order, they tell the blocks that are not lost, and they agree    *)
(* with its memory and with the block (validatorObserver.ts).              *)
THEOREM ObserverAlways == Spec => []ObserverInv
BY InitObserverInv, StepObserverInv, PTL DEF Spec

-----------------------------------------------------------------------------
(* The properties.                                                         *)

(* No validator is ever recorded twice for a block, even while the memory  *)
(* is wrong: findValidator never refuses a block (validatorObserver.ts     *)
(* 103-166).                                                               *)
THEOREM RecordsDisjointAlways == Spec => []RecordsDisjoint
<1>1. ObserverInv => RecordsDisjoint
  <2> SUFFICES ASSUME ObserverInv, NEW r \in work, NEW q \in work, r # q, r.state = q.state,
                      r.node = q.node, NEW b \in 1 .. block, Covers(r, b), Covers(q, b)
               PROVE  FALSE
    BY DEF RecordsDisjoint
  <2>1. /\ r.enter \in Nat /\ r.exit \in Nat /\ q.enter \in Nat /\ q.exit \in Nat /\ b \in Int
        /\ r.enter <= b /\ q.enter <= b /\ (r.exit = 0 \/ b < r.exit) /\ (q.exit = 0 \/ b < q.exit)
    BY DEF ObserverInv, ObserverTypeOK, Record, Covers
  <2>2. Before(r, q) \/ Before(q, r)
    BY DEF ObserverInv, WorkInv, InOrder
  <2> QED BY <2>1, <2>2 DEF Before
<1> QED BY <1>1, ObserverAlways, PTL

(* Whoever was pending or current after a block is what the records say,   *)
(* but for the blocks stored after a rollback left the memory ahead: a     *)
(* crash anywhere costs nothing (validatorObserver.ts 27-101).             *)
THEOREM RecordsTellHistoryAlways == Spec => []RecordsTellHistory
<1>1. ObserverInv => RecordsTellHistory
  BY DEF ObserverInv, HistoryInv, Tells, RecordsTellHistory
<1> QED BY <1>1, ObserverAlways, PTL

(* The round on a pending validator's record is the round it was pending   *)
(* in (validatorObserver.ts 52-66).                                        *)
THEOREM PendingRoundsAlways == Spec => []PendingRounds
<1>1. ObserverInv => PendingRounds
  BY DEF ObserverInv, HistoryInv, Tells, PendingRounds
<1> QED BY <1>1, ObserverAlways, PTL

=============================================================================
