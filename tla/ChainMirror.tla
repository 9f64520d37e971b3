---------------------------- MODULE ChainMirror ----------------------------
(***************************************************************************)
(* What the indexer promises: the database is a mirror of the first n      *)
(* blocks of the chain, a function of n alone, and n grows one block at a  *)
(* time.  Nothing about transactions, retries or restarts appears here.    *)
(***************************************************************************)
EXTENDS Chain

VARIABLES
    n,        \* number of blocks mirrored so far
    tables    \* the rows of the database

NULL == -1    \* SQL NULL in an integer column

Stakers(b) ==
    {EventsOf[b][i].pool : i \in {j \in DOMAIN EventsOf[b] : EventsOf[b][j].kind = "stake"}}

(* The pools block b obliges the database to know.                         *)
Mentioned(b) ==
    (IF b = 0 THEN AllPoolsOf[0] ELSE {})
        \cup Stakers(b)
        \cup (IF StartsEpoch(b) THEN ValidatorsOf[b] ELSE {})

(* The blocks before m that open an epoch.                                 *)
Starts(m) == {b \in 0 .. (m - 1) : StartsEpoch(b)}

(* The last block before m of the epoch block b opens; NULL while open.    *)
LastOf(b, m) ==
    LET later == {c \in Starts(m) : c > b}
    IN  IF later = {} THEN NULL ELSE (CHOOSE c \in later : \A d \in later : c <= d) - 1

Mirror(m) == [
    headers |-> {[block |-> b, before |-> b - 1] : b \in 0 .. (m - 1)},
    nodes |-> {r \in [pool : Pools, added : 0 .. (m - 1)] :
                  /\ r.pool \in Mentioned(r.added)
                  /\ \A b \in 0 .. (r.added - 1) : r.pool \notin Mentioned(b)},
    epochs |-> {[id |-> EpochOf[b], start |-> b, end |-> LastOf(b, m)] : b \in Starts(m)},
    epochNodes |-> UNION {
        {[epoch |-> EpochOf[b], pool |-> p,
          rewarded |-> LastOf(b, m) # NULL /\ p \in AllPoolsOf[LastOf(b, m)]] :
             p \in ValidatorsOf[b]} : b \in Starts(m)},
    avail |-> UNION {
        {[pool |-> EventsOf[b][i].pool, block |-> b] :
            i \in {j \in DOMAIN EventsOf[b] : EventsOf[b][j].kind = "avail"}} :
                b \in 0 .. (m - 1)}]

Init == n = 0 /\ tables = Mirror(0)

OneMoreBlock == n <= MaxBlock /\ n' = n + 1

MirrorNextBlock == OneMoreBlock /\ tables' = Mirror(n + 1)

Spec == Init /\ [][MirrorNextBlock]_<<n, tables>>
=============================================================================
