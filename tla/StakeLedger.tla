---------------------------- MODULE StakeLedger ----------------------------
(***************************************************************************)
(* What the staking events of a block do to stake_history,                 *)
(* ordered_withdrawal and stake_delegators (src/src/eventsVisitor.ts).     *)
(*                                                                         *)
(* The staking contract is external: it emits any legal sequence of        *)
(* events.  When a block is complete its events are visited by kind, not   *)
(* in the order they happened, in one transaction; the retries and crashes *)
(* of that transaction are modelled by Indexer.                            *)
(***************************************************************************)
EXTENDS Integers, SequencesExt, FiniteSetsExt

CONSTANTS
    Pools,     \* staking addresses of the pools
    Stakers,   \* addresses that stake; a pool's owner stakes as the pool
    MaxBlock,  \* bound: blocks are numbered 1 .. MaxBlock
    MaxEvents  \* bound: events in the whole history

ASSUME LedgerShape ==
    /\ Pools \subseteq Stakers /\ IsFiniteSet(Stakers)
    /\ MaxBlock \in Nat \ {0} /\ MaxEvents \in Nat

VARIABLES
    stake,      \* contract: stake of a staker in a pool, ordered stake included
    ordered,    \* contract: the part of it that is ordered
    orderedAt,  \* contract: block of the last order, 0 for none
    left,       \* history: what was claimed or left of a staker's stake
    crossed,    \* history: in some block the order of the visits mattered
    past,       \* history: total stake of each pool at the end of each block
    block,      \* the block the chain is in
    emitted,    \* events of the block, of each kind in the order they happened
    queue,      \* events the indexer has still to visit
    pc,         \* "chain", "visit" or "refused"
    db, work,   \* the tables: committed, and seen by the open transaction
    count       \* number of events so far

contract == <<stake, ordered, orderedAt, left, crossed, past, block, emitted, count>>
vars == <<contract, queue, pc, db, work>>

Accounts == Pools \X Stakers

Kinds == {"PlacedStake", "WithdrewStake", "MovedStake", "OrderedWithdrawal",
          "ClaimedOrderedWithdrawal", "GatherAbandonedStakes"}

NoEvents == [k \in Kinds |-> <<>>]

EmptyTables == [history |-> {}, orders |-> {}, delegated |-> [a \in Accounts |-> 0]]

Init ==
    /\ stake = [a \in Accounts |-> 0] /\ ordered = [a \in Accounts |-> 0]
    /\ orderedAt = [a \in Accounts |-> 0] /\ left = [a \in Accounts |-> 0]
    /\ crossed = FALSE
    /\ past = [b \in 1 .. MaxBlock |-> [p \in Pools |-> 0]]
    /\ block = 1 /\ emitted = NoEvents /\ count = 0
    /\ queue = <<>> /\ pc = "chain"
    /\ db = EmptyTables /\ work = EmptyTables

-----------------------------------------------------------------------------
(* The staking contract.  Every amount is one unit; the sizes of amounts   *)
(* play no role in the visitors.                                           *)

Emit(event) ==
    /\ pc = "chain" /\ count < MaxEvents
    /\ emitted' = [emitted EXCEPT ![event.kind] = Append(@, event)]
    /\ count' = count + 1
    /\ UNCHANGED <<past, block, queue, pc, db, work>>

Place(p, s) ==
    /\ Emit([kind |-> "PlacedStake", pool |-> p, staker |-> s, amount |-> 1])
    /\ stake' = [stake EXCEPT ![<<p, s>>] = @ + 1]
    /\ UNCHANGED <<ordered, orderedAt, left, crossed>>

Free(p, s) == stake[<<p, s>>] - ordered[<<p, s>>]

Withdraw(p, s) ==
    /\ Free(p, s) > 0
    /\ Emit([kind |-> "WithdrewStake", pool |-> p, staker |-> s, amount |-> 1])
    /\ stake' = [stake EXCEPT ![<<p, s>>] = @ - 1]
    /\ UNCHANGED <<ordered, orderedAt, left, crossed>>

Move(p, q, s) ==
    /\ p # q /\ Free(p, s) > 0
    /\ Emit([kind |-> "MovedStake", pool |-> p, to |-> q, staker |-> s, amount |-> 1])
    /\ stake' = [stake EXCEPT ![<<p, s>>] = @ - 1, ![<<q, s>>] = @ + 1]
    /\ UNCHANGED <<ordered, orderedAt, left, crossed>>

(* Orders are visited before claims, so that one which follows a claim of  *)
(* the same staker is merged with the claimed order and closed with it.    *)
Claimed(p, s) ==
    \E e \in Range(emitted["ClaimedOrderedWithdrawal"]) : e.pool = p /\ e.staker = s

Order(p, s) ==
    /\ Free(p, s) > 0
    /\ Emit([kind |-> "OrderedWithdrawal", pool |-> p, staker |-> s, amount |-> 1])
    /\ ordered' = [ordered EXCEPT ![<<p, s>>] = @ + 1]
    /\ orderedAt' = [orderedAt EXCEPT ![<<p, s>>] = block]
    /\ crossed' = (crossed \/ Claimed(p, s))
    /\ UNCHANGED <<stake, left>>

(* An order can be claimed, as a whole, in an epoch after the order's.     *)
Claim(p, s) ==
    /\ ordered[<<p, s>>] > 0 /\ orderedAt[<<p, s>>] < block
    /\ Emit([kind |-> "ClaimedOrderedWithdrawal", pool |-> p, staker |-> s,
             amount |-> ordered[<<p, s>>]])
    /\ stake' = [stake EXCEPT ![<<p, s>>] = @ - ordered[<<p, s>>]]
    /\ left' = [left EXCEPT ![<<p, s>>] = @ + ordered[<<p, s>>]]
    /\ ordered' = [ordered EXCEPT ![<<p, s>>] = 0]
    /\ UNCHANGED <<orderedAt, crossed>>

(* What is not ordered of the stakes of an abandoned pool leaves it.       *)
Gather(p) ==
    LET free == [a \in Accounts |-> Free(a[1], a[2])]
        amount == SumFunctionOnSet(free, {p} \X Stakers)
    IN  /\ amount > 0
        /\ Emit([kind |-> "GatherAbandonedStakes", pool |-> p, amount |-> amount])
        /\ stake' = [a \in Accounts |-> IF a[1] = p THEN ordered[a] ELSE stake[a]]
        /\ left' = [a \in Accounts |-> left[a] + IF a[1] = p THEN Free(p, a[2]) ELSE 0]
        /\ UNCHANGED <<ordered, orderedAt, crossed>>

PoolStake(p) == SumFunctionOnSet(stake, {p} \X Stakers)

PlacedStakeEvents == emitted["PlacedStake"]
WithdrewStakeEvents == emitted["WithdrewStake"]
MovedStakeEvents == emitted["MovedStake"]
WithdrawalOrderEvents == emitted["OrderedWithdrawal"] \o emitted["ClaimedOrderedWithdrawal"]
GatherAbandonedStakesEvents == emitted["GatherAbandonedStakes"]

(* getStakeUpdateEvents concatenates the queries; sorting by block changes *)
(* nothing within a block.                                                 *)
ByKind ==
    PlacedStakeEvents \o WithdrewStakeEvents \o MovedStakeEvents
        \o WithdrawalOrderEvents \o GatherAbandonedStakesEvents

(* Withdrawals are visited before the move that brought the first stake of *)
(* their pool.                                                             *)
WithdrawsBeforeMove ==
    \E e \in Range(WithdrewStakeEvents) :
        /\ \A r \in db.history : r.pool # e.pool
        /\ \A d \in Range(PlacedStakeEvents) : d.pool # e.pool

BlockComplete ==
    /\ pc = "chain"
    /\ pc' = "visit"
    /\ queue' = ByKind
    /\ past' = [past EXCEPT ![block] = [p \in Pools |-> PoolStake(p)]]
    /\ crossed' = (crossed \/ WithdrawsBeforeMove)
    /\ UNCHANGED <<stake, ordered, orderedAt, left, block, emitted, count, db, work>>

-----------------------------------------------------------------------------
(* Statements.  Each yields the set of tables it may leave behind: one, or *)
(* none when a primary key refuses it.                                     *)

(* getLastStakeHistoryRecord: the row that ends where the newest row with  *)
(* from_block = to_block ends, if there is exactly one.                    *)
LastRecords(t, p) ==
    LET ends == {r.to : r \in {q \in t.history : q.pool = p /\ q.from = q.to}}
        rows == {r \in t.history : r.pool = p /\ ends # {} /\ r.to = Max(ends)}
    IN  IF Cardinality(rows) = 1 THEN rows ELSE {}

NewRow(p, amount) == [pool |-> p, from |-> block, to |-> block, amount |-> amount]

Keys(rows) == {<<r.pool, r.from, r.to>> : r \in rows}

(* Close the last row at the previous block and insert one for this block. *)
Amended(t, p, amount) ==
    {[t EXCEPT !.history = (@ \ {r}) \cup {[r EXCEPT !.to = block - 1], NewRow(p, amount)}] :
        r \in {q \in LastRecords(t, p) : <<p, q.from, block - 1>> \notin Keys(t.history \ {q})}}

(* Mutant: the amount of the last row is not carried over.                 *)
Changed_Replaces(t, p, change) == UNION {Amended(t, p, change) : r \in LastRecords(t, p)}

Changed(t, p, change) == UNION {Amended(t, p, r.amount + change) : r \in LastRecords(t, p)}

Started(t, p, amount) == {[t EXCEPT !.history = @ \cup {NewRow(p, amount)}]}

(* Mutant: delegated stake is kept for the owner of the pool too.          *)
Delegated_Owners(t, p, s, change) == [t EXCEPT !.delegated[<<p, s>>] = @ + change]

(* saveDelegatedStake, for a staker that is not the pool's owner; a        *)
(* missing row of stake_delegators is a total of 0.                        *)
Delegated(t, p, s, change) ==
    IF p = s THEN t ELSE [t EXCEPT !.delegated[<<p, s>>] = @ + change]

StakeChangeAmount(e) == IF e.kind = "WithdrewStake" THEN -e.amount ELSE e.amount

StakeChanged(t, e) ==
    LET change == StakeChangeAmount(e)
        d == Delegated(t, e.pool, e.staker, change)
    IN  IF LastRecords(d, e.pool) = {} THEN Started(d, e.pool, e.amount)
        ELSE Changed(d, e.pool, change)

StakeMoved(t, e) ==
    LET To(d) == IF LastRecords(d, e.to) = {} THEN Started(d, e.to, e.amount)
                 ELSE Changed(d, e.to, e.amount)
        After(d) == Delegated(Delegated(d, e.pool, e.staker, -e.amount), e.to, e.staker, e.amount)
    IN  IF LastRecords(t, e.pool) = {} THEN {t}
        ELSE {After(d) : d \in UNION {To(c) : c \in Changed(t, e.pool, -e.amount)}}

OpenOrders(t, e) == {o \in t.orders : o.pool = e.pool /\ o.staker = e.staker /\ o.claimed = 0}

(* A row of ordered_withdrawal; claimed = 0 stands for NULL.               *)
NewOrder(t, e) ==
    [id |-> Cardinality(t.orders) + 1, pool |-> e.pool, staker |-> e.staker,
     amount |-> e.amount, placed |-> block, claimed |-> 0]

(* Mutant: a second order is a row of its own.                             *)
WithdrawalOrdered_Inserts(t, e) ==
    {[t EXCEPT !.orders = @ \cup {NewOrder(t, e)}]}

WithdrawalOrdered(t, e) ==
    IF OpenOrders(t, e) = {}
    THEN {[t EXCEPT !.orders = @ \cup {NewOrder(t, e)}]}
    ELSE {[t EXCEPT !.orders = (@ \ {o}) \cup
              {[o EXCEPT !.amount = @ + e.amount, !.placed = block]}] : o \in OpenOrders(t, e)}

(* Without an open order or a stake_history row the event is only logged.  *)
OrderClaimed(t, e) ==
    LET closed == {[t EXCEPT !.orders = (@ \ {o}) \cup {[o EXCEPT !.claimed = block]}] :
                      o \in OpenOrders(t, e)}
    IN  IF closed = {} \/ LastRecords(t, e.pool) = {} THEN {t}
        ELSE UNION {Changed(d, e.pool, -e.amount) : d \in closed}

StakesGathered(t, e) ==
    IF LastRecords(t, e.pool) = {} THEN {t} ELSE Changed(t, e.pool, -e.amount)

-----------------------------------------------------------------------------
(* The visitors, one event at a time.                                      *)

Visit(kinds, after) ==
    /\ pc = "visit" /\ queue # <<>>
    /\ Head(queue).kind \in kinds
    /\ \/ /\ work' \in after
          /\ queue' = Tail(queue)
          /\ UNCHANGED pc
       \/ /\ after = {}
          /\ work' = db /\ queue' = <<>> /\ pc' = "refused"
    /\ UNCHANGED <<contract, db>>

VisitStakeChanged == Visit({"PlacedStake", "WithdrewStake"}, StakeChanged(work, Head(queue)))
VisitMovedStake == Visit({"MovedStake"}, StakeMoved(work, Head(queue)))
VisitOrderedWithdrawal == Visit({"OrderedWithdrawal"}, WithdrawalOrdered(work, Head(queue)))
VisitClaimedOrderedWithdrawal == Visit({"ClaimedOrderedWithdrawal"}, OrderClaimed(work, Head(queue)))
VisitGatherAbandonedStakes == Visit({"GatherAbandonedStakes"}, StakesGathered(work, Head(queue)))

CommitBlock ==
    /\ pc = "visit" /\ queue = <<>> /\ block < MaxBlock
    /\ pc' = "chain"
    /\ db' = work
    /\ block' = block + 1 /\ emitted' = NoEvents
    /\ UNCHANGED <<stake, ordered, orderedAt, left, crossed, past, count, queue, work>>

Next ==
    \/ \E p \in Pools, s \in Stakers : Place(p, s) \/ Withdraw(p, s) \/ Order(p, s) \/ Claim(p, s)
    \/ \E p, q \in Pools, s \in Stakers : Move(p, q, s)
    \/ \E p \in Pools : Gather(p)
    \/ BlockComplete
    \/ VisitStakeChanged \/ VisitMovedStake \/ VisitOrderedWithdrawal
    \/ VisitClaimedOrderedWithdrawal \/ VisitGatherAbandonedStakes
    \/ CommitBlock

Spec == Init /\ [][Next]_vars

-----------------------------------------------------------------------------
(* Properties.                                                             *)

RowsOf(t, p) == {r \in t.history : r.pool = p /\ r.from <= r.to}

(* Rows that say what pool p had at block b; the newest row stays valid.   *)
RowsAt(t, p, b) ==
    {r \in RowsOf(t, p) : r.from <= b /\ (b <= r.to \/ \A q \in RowsOf(t, p) : q.from <= r.from)}

(* Unless a block's visits crossed, stake_history says of every block so   *)
(* far what each pool's stake was, and says it once, although a row is     *)
(* closed only by the next movement of the pool.                           *)
HistoryFollowsChain ==
    ~crossed => \A p \in Pools, b \in 1 .. (block - 1) :
        LET rows == RowsAt(db, p, b)
        IN  IF rows = {} THEN past[b][p] = 0
            ELSE \E r \in rows : rows = {r} /\ r.amount = past[b][p]

(* What is ordered in the contract is the amount of the one open order,    *)
(* however orders and claims of a staker alternate.                        *)
OrdersFollowChain ==
    (pc = "chain" /\ emitted = NoEvents /\ ~crossed) => \A p \in Pools, s \in Stakers :
        LET open == OpenOrders(db, [pool |-> p, staker |-> s])
        IN  IF ordered[<<p, s>>] = 0 THEN open = {}
            ELSE \E o \in open : open = {o} /\ o.amount = ordered[<<p, s>>]

(* stake_delegators counts what a delegator placed and moved; claimed and  *)
(* abandoned stake is never taken off.                                     *)
DelegatedFollowsChain ==
    (pc = "chain" /\ emitted = NoEvents) => \A p \in Pools, s \in Stakers :
        db.delegated[<<p, s>>] = IF p = s THEN 0 ELSE stake[<<p, s>>] + left[<<p, s>>]
=============================================================================
