------------------------------ MODULE DmdNames ------------------------------
(***************************************************************************)
(* The directory of .dmd names (src/src/eventsVisitor.ts 549-748,          *)
(* contractManager.ts 391-585, database-persistent.ts 1075-1185 and the    *)
(* tables of migration 007).  For each event of a block its visitor        *)
(* updates the row of the name in dmd_names and appends to                 *)
(* dmd_name_events.  Both statements go past the transaction of the block: *)
(* when the block fails or the process dies, they stay, and the block is   *)
(* visited again from its first event.                                     *)
(***************************************************************************)
EXTENDS Integers, Sequences, FiniteSets, SequencesExt, Functions

CONSTANTS
    Names,
    Chains,      \* possible chains: sequences of blocks
    FillStart,   \* DB_FILL_START_BLOCK, 0 when it is not set
    MaxFaults    \* bound: failed blocks and crashes

Queries == <<"Registered", "Activated", "Deactivated", "Renewed", "BlockedSet", "Transfer">>

(* Every log has its block, one of these kinds and an index of its own.    *)
ASSUME NamesShape ==
    /\ IsFiniteSet(Names) /\ FillStart \in Nat
    /\ \A c \in Chains :
        /\ Len(c) \in Nat \ {0} /\ DOMAIN c = 1 .. Len(c)
        /\ \A b \in DOMAIN c : LET logs == Range(c[b].logs) IN
            /\ IsFiniteSet(logs)
            /\ \A d, e \in logs : d.index = e.index => d = e
            /\ \A e \in logs :
                e.block = b /\ e.index \in Nat /\ e.name \in Names /\ e.kind \in Range(Queries)

VARIABLES
    chain,    \* the blocks, with the logs of the naming contracts in log order
    pc,       \* "idle", "visit", "upserted", "visited" or "down"
    at,       \* currentBlockNumber
    events,   \* what getDmdNamingEvents returned for the block
    pos,      \* how many of them have been visited
    rows,     \* dmd_names
    log,      \* dmd_name_events in the order of their ids
    high,     \* history: the highest block that was begun
    faults    \* bound

nameTables == <<rows, log>>
namesVars == <<chain, pc, at, events, pos, rows, log, high, faults>>

First == IF FillStart = 0 THEN 1 ELSE FillStart

NoRow == [f \in {} |-> 0]

-----------------------------------------------------------------------------
(* Fetching: one query for each kind of event, then a sort by log index.   *)

Fetched(b) == {e \in Range(chain[b].logs) : e.kind \in Range(Queries)}

QueryOf(e) == CHOOSE i \in DOMAIN Queries : Queries[i] = e.kind

(* Mutant: the events stay in the order of the queries.                    *)
InLogOrder_ByKind(es) ==
    {q \in SetToSeqs(es) : \A i, j \in DOMAIN q : i < j =>
        QueryOf(q[i]) < QueryOf(q[j]) \/ (q[i].kind = q[j].kind /\ q[i].index < q[j].index)}

InLogOrder(es) == {q \in SetToSeqs(es) : \A i, j \in DOMAIN q : i < j => q[i].index < q[j].index}

(* What an event says of its name; a field it says nothing of is null.     *)
RegistrarSays(e) ==
    CASE e.kind = "Registered" -> [label |-> e.name, created |-> e.block, expiration |-> e.expiration]
      [] e.kind = "Activated" -> [label |-> e.name, active |-> TRUE]
      [] e.kind = "Deactivated" -> [label |-> e.name, active |-> FALSE]
      [] e.kind = "Renewed" -> [label |-> e.name, expiration |-> e.expiration]
      [] OTHER -> [label |-> e.name, blocked |-> e.blocked]

Minted(e) == e.from = "none"

TransferSays(e) ==
    IF Minted(e) THEN [owner |-> e.to, creator |-> e.to, created |-> e.block, active |-> FALSE]
    ELSE [owner |-> e.to]

Says(e) == IF e.kind = "Transfer" THEN TransferSays(e) ELSE RegistrarSays(e)

(* The fields that an old value keeps: COALESCE(dmd_names.f, EXCLUDED.f).  *)
SetOnce == {"creator", "created"}

Upserted(e) ==
    LET old == rows[e.name]
        says == Says(e)
    IN  [f \in {"last"} \cup DOMAIN old \cup DOMAIN says |->
            IF f = "last" THEN <<e.block, e.index>>
            ELSE IF f \in DOMAIN says /\ ~(f \in SetOnce /\ f \in DOMAIN old) THEN says[f]
            ELSE old[f]]

-----------------------------------------------------------------------------
NamesInit ==
    /\ chain \in Chains
    /\ pc = "idle" /\ at = First /\ events = <<>> /\ pos = 0
    /\ rows = [n \in Names |-> NoRow] /\ log = <<>>
    /\ high = 0 /\ faults = 0

BeginBlock ==
    /\ pc = "idle" /\ at <= Len(chain)
    /\ pc' = "visit" /\ pos' = 0
    /\ events' \in InLogOrder(Fetched(at))
    /\ high' = IF at > high THEN at ELSE high
    /\ UNCHANGED <<chain, at, nameTables, faults>>

UpsertName ==
    /\ pc = "visit" /\ pos < Len(events)
    /\ LET e == events[pos + 1] IN rows' = [rows EXCEPT ![e.name] = Upserted(e)]
    /\ pc' = "upserted"
    /\ UNCHANGED <<chain, at, events, pos, log, high, faults>>

InsertNameEvent ==
    /\ pc = "upserted"
    /\ log' = Append(log, events[pos + 1])
    /\ pc' = "visit" /\ pos' = pos + 1
    /\ UNCHANGED <<chain, at, events, rows, high, faults>>

CommitBlock ==
    /\ pc = "visit" /\ pos = Len(events)
    /\ pc' = "idle" /\ at' = at + 1
    /\ UNCHANGED <<chain, events, pos, nameTables, high, faults>>

(* A statement throws, the transaction rolls back, the block is retried.   *)
BlockFails ==
    /\ pc \in {"visit", "upserted"} /\ faults < MaxFaults
    /\ pc' = "idle" /\ faults' = faults + 1
    /\ UNCHANGED <<chain, at, events, pos, nameTables, high>>

Crash ==
    /\ pc # "down" /\ faults < MaxFaults
    /\ pc' = "down" /\ faults' = faults + 1
    /\ UNCHANGED <<chain, at, events, pos, nameTables, high>>

(* With DB_FILL_START_BLOCK each start begins there.                       *)
RestartNames ==
    /\ pc = "down" /\ pc' = "idle"
    /\ at' = IF FillStart = 0 THEN at ELSE FillStart
    /\ UNCHANGED <<chain, events, pos, nameTables, high, faults>>

NamesNext ==
    BeginBlock \/ UpsertName \/ InsertNameEvent \/ CommitBlock \/ BlockFails \/ Crash \/ RestartNames

-----------------------------------------------------------------------------
(* Properties.                                                             *)

History(n, from, to) == {e \in UNION {Range(chain[b].logs) : b \in from .. to} : e.name = n}

Before(d, e) == d.block < e.block \/ (d.block = e.block /\ d.index < e.index)

(* The events es say v of a field: the first of them that speaks of it, if *)
(* it is set once, else the last.                                          *)
Tells(es, f, v) ==
    \E e \in es :
        /\ f \in DOMAIN Says(e) /\ v = Says(e)[f]
        /\ \A d \in es : f \in DOMAIN Says(d) =>
            IF f \in SetOnce THEN ~Before(d, e) ELSE ~Before(e, d)

(* However often blocks were retried or repeated and wherever the process  *)
(* died: once every block that was begun is through, the row of each name  *)
(* is what the chain tells of it (database-persistent.ts 1117-1130, the    *)
(* order of contractManager.ts 578-583 included).                          *)
RowsTellChain ==
    pc = "idle" /\ at = high + 1 =>
        \A n \in Names :
            LET es == History(n, First, high)
                row == rows[n]
            IN  /\ DOMAIN row \ {"last"} = UNION {DOMAIN Says(e) : e \in es}
                /\ \A f \in DOMAIN row \ {"last"} : Tells(es, f, row[f])
                /\ es # {} => \E e \in es :
                    row.last = <<e.block, e.index>> /\ \A d \in es : ~Before(e, d)
=============================================================================
