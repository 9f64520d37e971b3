------------------------- MODULE DbConnectionProofs -------------------------
(***************************************************************************)
(* A block has all rows of its transaction or none, for any statements,    *)
(* number of attempts and outages.  What makes it inductive is what the    *)
(* open transaction holds: the statements before the one under way, also   *)
(* while that one is repeated and its connection is long lost.  A node     *)
(* that was left out is missed by the first row that refers to it.         *)
(***************************************************************************)
EXTENDS DbConnection, TLAPS

Repeating == {"handle", "dispose", "test"}

DbTypeOK ==
    /\ cur \in Nat \ {0} /\ cur <= MaxBlock + 1 /\ nr \in Nat \ {0} /\ unheard \in Nat
    /\ tx \in {"none", "live", "dead"}
    /\ pc \in {"exited", "read", "loop", "block"} \cup Repeating
    /\ db \in [Blocks -> SUBSET Nat]
    /\ work \in SUBSET Nat

(* A node of which nothing stored so far makes use.                        *)
LeftOut(i, n) ==
    /\ Statements[cur][i] = "node"
    /\ \A j \in DOMAIN Statements[cur] : i < j /\ j < n => Statements[cur][j] # "movement"

Complete(n, stored) ==
    \A i \in InTransaction(cur) : i < n => i \in stored \/ LeftOut(i, n)

(* A transaction is open exactly while a block is under way, and none of   *)
(* its statements is lost or done twice.                                   *)
WorkSoFar ==
    /\ tx = "none" => work = {}
    /\ tx # "none" =>
        /\ cur \in Blocks
        /\ work \subseteq InTransaction(cur)
        /\ Complete(nr, work \cup db[cur])
    /\ pc = "block" => tx # "none"
    /\ pc \in {"exited", "read", "loop"} => tx = "none"

DbInv == DbTypeOK /\ WorkSoFar /\ AllOrNothing

LEMMA BlockNumbers ==
    /\ Blocks = 1 .. MaxBlock /\ MaxBlock \in Nat
    /\ \A b \in Blocks : /\ Statements[b] \in Seq(Names) /\ Len(Statements[b]) \in Nat
                         /\ DOMAIN Statements[b] = 1 .. Len(Statements[b])
                         /\ 1 \in InTransaction(b)
<1>1. Blocks = 1 .. MaxBlock /\ MaxBlock \in Nat
    BY DbShape DEF Blocks, MaxBlock
<1>2. ASSUME NEW b \in Blocks
      PROVE  /\ Statements[b] \in Seq(Names) /\ Len(Statements[b]) \in Nat
             /\ DOMAIN Statements[b] = 1 .. Len(Statements[b])
             /\ 1 \in InTransaction(b)
    <2>1. Statements[b] \in Seq(Names) /\ Statements[b] # <<>> /\ Statements[b][1] = "header"
        BY <1>2, DbShape DEF Blocks
    <2>2. Len(Statements[b]) \in Nat /\ DOMAIN Statements[b] = 1 .. Len(Statements[b])
        BY <2>1
    <2>3. 1 \in DOMAIN Statements[b]
        BY <2>1
    <2> QED BY <2>1, <2>2, <2>3 DEF InTransaction
<1> QED BY <1>1, <1>2

(* A statement runs in the transaction exactly when it is one of those     *)
(* that belong there.                                                      *)
LEMMA ContextOfBlock ==
    ASSUME DbInv, pc = "block", nr \in DOMAIN Statements[cur]
    PROVE  (Context = "transaction") <=> (nr \in InTransaction(cur))
BY DEF DbInv, WorkSoFar, Context, Statement, InTransaction

(* The loop starts with nothing stored.                                    *)
LEMMA InitDbInv == Init => DbInv
BY BlockNumbers DEF Init, DbInv, DbTypeOK, WorkSoFar, AllOrNothing, Repeating

(* A rollback leaves the tables as they were.                              *)
LEMMA ThrownDbInv ==
    ASSUME DbInv, Thrown, UNCHANGED <<cur, nr, db, unheard>>
    PROVE  DbInv'
<1>1. tx' = "none" /\ work' = {} /\ pc' \in {"exited", "loop"}
    BY DEF Thrown, DbInv, WorkSoFar
<1> QED BY <1>1 DEF DbInv, DbTypeOK, WorkSoFar, AllOrNothing

(* Neither attempts nor the state of the pool matter to the invariant.     *)
LEMMA SameDbInv ==
    ASSUME DbInv, UNCHANGED <<cur, nr, db, work, unheard>>,
           (tx' = "none") <=> (tx = "none"), tx' \in {"none", "live", "dead"},
           pc' = pc \/ (pc' \in Repeating)
               \/ (pc' = "block" /\ tx # "none")
               \/ (pc' \in {"read", "loop"} /\ tx = "none")
    PROVE  DbInv'
BY DEF DbInv, DbTypeOK, WorkSoFar, AllOrNothing, Complete, LeftOut, Repeating

(* What one more statement leaves complete: no row refers to a node that   *)
(* has none.                                                               *)
LEMMA OneMore ==
    ASSUME DbInv, tx # "none", nr \in DOMAIN Statements[cur], NEW stored,
           work \cup db[cur] \subseteq stored,
           nr \in InTransaction(cur) => nr \in stored \/ Statements[cur][nr] = "node",
           Statements[cur][nr] = "movement" => ~NodeMissing(nr)
    PROVE  Complete(nr + 1, stored)
<1>1. cur \in Blocks /\ Complete(nr, work \cup db[cur]) /\ nr \in Nat
    BY DEF DbInv, DbTypeOK, WorkSoFar
<1>2. \A i \in InTransaction(cur) : i \in Nat /\ i \in DOMAIN Statements[cur]
    BY <1>1, BlockNumbers DEF InTransaction
<1> SUFFICES ASSUME NEW i \in InTransaction(cur), i < nr + 1, i \notin stored
             PROVE  LeftOut(i, nr + 1)
    BY DEF Complete
<1>3. CASE i = nr
    BY <1>1, <1>2, <1>3, BlockNumbers DEF LeftOut
<1>4. CASE i # nr
    <2>1. i < nr /\ LeftOut(i, nr)
        BY <1>1, <1>2, <1>4 DEF Complete
    <2>2. Statements[cur][nr] # "movement"
        BY <1>2, <2>1 DEF NodeMissing, LeftOut
    <2>3. ASSUME NEW j \in DOMAIN Statements[cur], i < j, j < nr + 1
          PROVE  Statements[cur][j] # "movement"
        <3>1. j = nr \/ j < nr
            BY <1>1, <2>3, BlockNumbers
        <3> QED BY <2>1, <2>2, <2>3, <3>1 DEF LeftOut
    <2> QED BY <2>1, <2>3 DEF LeftOut
<1> QED BY <1>3, <1>4

(* A node that is known is left out.                                       *)
LEMMA SkipsDbInv ==
    ASSUME DbInv, SkipsNode
    PROVE  DbInv'
<1>1. /\ UnderWay /\ pc = "block" /\ Statements[cur][nr] = "node" /\ nr' = nr + 1
      /\ UNCHANGED <<tx, pc, cur, work, db, unheard>>
    BY DEF SkipsNode, KnownNode, Statement, UnderWay, place
<1>2. tx # "none" /\ cur \in Blocks /\ nr \in DOMAIN Statements[cur]
    <2>1. tx # "none" /\ cur \in Blocks /\ nr \in Nat \ {0}
        BY <1>1 DEF DbInv, DbTypeOK, WorkSoFar
    <2> QED BY <1>1, <2>1, BlockNumbers DEF UnderWay
<1>3. Complete(nr + 1, work \cup db[cur])
    BY <1>1, <1>2, OneMore
<1>4. Complete(nr, work \cup db[cur])'
    BY <1>1, <1>3 DEF Complete, InTransaction, LeftOut
<1> QED BY <1>1, <1>2, <1>4 DEF DbInv, DbTypeOK, WorkSoFar, AllOrNothing, InTransaction

(* A statement of the block joins the transaction, or is written beside it.*)
LEMMA SucceedsDbInv ==
    ASSUME DbInv, Succeeds
    PROVE  DbInv'
<1> USE DEF DbInv
<1>0. /\ nr \in Nat \ {0} /\ nr' = nr + 1 /\ UNCHANGED <<tx, pc, cur, unheard>>
      /\ UnderWay
    BY DEF Succeeds, DbTypeOK
<1>1. CASE pc = "read"
    <2>1. tx = "none" /\ UNCHANGED <<work, db>>
        BY <1>1 DEF Succeeds, WorkSoFar
    <2> QED BY <1>0, <1>1, <2>1 DEF DbTypeOK, WorkSoFar, AllOrNothing
<1>2. CASE pc = "block"
    <2>1. tx # "none" /\ cur \in Blocks /\ work \subseteq InTransaction(cur)
        BY <1>2 DEF WorkSoFar
    <2>2. nr \in DOMAIN Statements[cur] /\ nr <= Len(Statements[cur])
        BY <1>0, <1>2, <2>1, BlockNumbers DEF UnderWay
    <2>3. (Context = "transaction") <=> (nr \in InTransaction(cur))
        BY <1>2, <2>2, ContextOfBlock
    <2>4. Statements[cur][nr] = "movement" => ~NodeMissing(nr)
        BY <1>2 DEF Succeeds, Refused, Statement
    <2> DEFINE stored == work' \cup db'[cur]
    <2>5. /\ db' \in [Blocks -> SUBSET Nat] /\ work' \in SUBSET Nat
          /\ \A b \in Blocks : db'[b] \cap InTransaction(b) = db[b] \cap InTransaction(b)
          /\ work' \subseteq InTransaction(cur)
          /\ work \cup db[cur] \subseteq stored /\ nr \in stored
        <3>1. CASE Context = "pool"
            <4>1. nr \notin InTransaction(cur)
                BY <2>3, <3>1
            <4>2. UNCHANGED work /\ db' = [db EXCEPT ![cur] = @ \cup {nr}]
                BY <1>2, <3>1 DEF Succeeds
            <4> QED BY <1>0, <2>1, <4>1, <4>2 DEF DbTypeOK
        <3>2. CASE Context # "pool"
            <4>1. nr \in InTransaction(cur)
                BY <2>3, <3>2 DEF Context
            <4>2. UNCHANGED db /\ work' = work \cup {nr}
                BY <1>2, <3>2 DEF Succeeds
            <4> QED BY <1>0, <2>1, <4>1, <4>2 DEF DbTypeOK
        <3> QED BY <3>1, <3>2
    <2>6. Complete(nr + 1, stored)
        <3> HIDE DEF stored
        <3> QED BY <2>1, <2>2, <2>4, <2>5, OneMore
    <2>7. Complete(nr, work \cup db[cur])'
        BY <1>0, <2>6 DEF Complete, InTransaction, LeftOut
    <2>8. AllOrNothing'
        BY <1>0, <2>5 DEF AllOrNothing, InTransaction
    <2> QED BY <1>0, <1>2, <2>1, <2>5, <2>7, <2>8 DEF DbTypeOK, WorkSoFar, InTransaction
<1> QED BY <1>0, <1>1, <1>2 DEF UnderWay

(* COMMIT stores all of the transaction, also when its answer is lost.     *)
LEMMA CommitDbInv ==
    ASSUME DbInv, Commit \/ CommitAnswerLost
    PROVE  DbInv'
<1> USE DEF DbInv
<1>1. /\ pc = "block" /\ nr > Len(Statements[cur]) /\ db' = Stored /\ nr' = nr
      /\ tx' = "none" /\ work' = {} /\ pc' = "loop"
      /\ \/ cur' = cur + 1 /\ unheard' = 0
         \/ cur' = cur /\ unheard' = unheard + 1
    BY DEF Commit, CommitAnswerLost, Thrown
<1>2. /\ cur \in Blocks /\ work \subseteq InTransaction(cur)
      /\ Complete(nr, work \cup db[cur]) /\ nr \in Nat /\ cur \in Nat /\ unheard \in Nat
    BY <1>1 DEF WorkSoFar, DbTypeOK
<1>3. InTransaction(cur) \subseteq work \cup db[cur]
    <2> SUFFICES ASSUME NEW i \in InTransaction(cur), LeftOut(i, nr) PROVE FALSE
        <3>1. \A i \in InTransaction(cur) : i \in Nat /\ i < nr
            BY <1>1, <1>2, BlockNumbers DEF InTransaction
        <3> QED BY <1>2, <3>1 DEF Complete
    <2>1. i \in DOMAIN Statements[cur] /\ Statements[cur][i] = "node"
        BY DEF InTransaction, LeftOut
    <2>2. PICK j \in DOMAIN Statements[cur] : i < j /\ Statements[cur][j] = "movement"
        BY <1>2, <2>1, DbShape DEF Blocks
    <2>3. j < nr
        BY <1>1, <1>2, BlockNumbers
    <2> QED BY <2>2, <2>3 DEF LeftOut
<1>4. \A b \in Blocks : db'[b] = IF b = cur THEN db[b] \cup work ELSE db[b]
    BY <1>1, <1>2 DEF Stored, DbTypeOK
<1>5. db' \in [Blocks -> SUBSET Nat]
    BY <1>1, <1>2 DEF Stored, DbTypeOK
<1>6. ASSUME NEW b \in Blocks
      PROVE  db'[b] \cap InTransaction(b) =
                IF b < cur' \/ (b = cur' /\ unheard' > 0) THEN InTransaction(b) ELSE {}
    <2>1. b \in Nat
        BY BlockNumbers
    <2>2. db[b] \cap InTransaction(b) =
             IF b < cur \/ (b = cur /\ unheard > 0) THEN InTransaction(b) ELSE {}
        BY DEF AllOrNothing
    <2>3. CASE b = cur
        <3>1. db'[b] \cap InTransaction(b) = InTransaction(b)
            BY <1>3, <1>4, <2>3
        <3>2. b < cur' \/ (b = cur' /\ unheard' > 0)
            BY <1>1, <1>2, <2>3
        <3> QED BY <3>1, <3>2
    <2>4. CASE b # cur
        <3>1. (b < cur' \/ (b = cur' /\ unheard' > 0)) <=> (b < cur \/ (b = cur /\ unheard > 0))
            BY <1>1, <1>2, <2>1, <2>4
        <3> QED BY <1>4, <2>2, <2>4, <3>1
    <2> QED BY <2>3, <2>4
<1>7. AllOrNothing'
    BY <1>6 DEF AllOrNothing, InTransaction
<1>8. cur' \in Nat \ {0} /\ cur' <= MaxBlock + 1 /\ unheard' \in Nat
    BY <1>1, <1>2, BlockNumbers
<1> QED BY <1>1, <1>5, <1>7, <1>8 DEF DbTypeOK, WorkSoFar

(* A new process goes on after the last block that is stored.              *)
LEMMA RestartDbInv ==
    ASSUME DbInv, Restart
    PROVE  DbInv'
<1> USE DEF DbInv
<1>1. /\ tx = "none" /\ work = {} /\ pc' = "read" /\ nr' = 1 /\ unheard' = 0
      /\ UNCHANGED <<db, tx, work>>
    BY DEF Restart, WorkSoFar
<1>2. PICK newest \in 0 .. MaxBlock :
         /\ newest = 0 \/ HasHeader(newest)
         /\ \A b \in Blocks : HasHeader(b) => b <= newest
         /\ cur' = newest + 1
    BY DEF Restart
<1>3. \A b \in Blocks : HasHeader(b) <=> b < cur \/ (b = cur /\ unheard > 0)
    BY BlockNumbers DEF HasHeader, AllOrNothing
<1>4. cur \in Nat \ {0} /\ cur <= MaxBlock + 1 /\ unheard \in Nat
    BY DEF DbTypeOK
<1>5. ASSUME NEW b \in Blocks
      PROVE  (b < cur \/ (b = cur /\ unheard > 0)) <=> b < cur'
    <2>1. HasHeader(b) => b < cur'
        BY <1>2, <1>5, BlockNumbers
    <2>2. ASSUME b < cur' PROVE b < cur \/ (b = cur /\ unheard > 0)
        <3>1. newest \in Blocks /\ HasHeader(newest) /\ b <= newest
            BY <1>2, <2>2, BlockNumbers
        <3>2. newest < cur \/ (newest = cur /\ unheard > 0)
            BY <1>3, <3>1
        <3> QED BY <1>4, <3>1, <3>2, BlockNumbers
    <2> QED BY <1>3, <2>1, <2>2
<1>6. AllOrNothing'
    BY <1>1, <1>5 DEF AllOrNothing, InTransaction
<1> QED BY <1>1, <1>2, <1>6, BlockNumbers DEF DbTypeOK, WorkSoFar

(* Every step of the process, the server and the loop keeps the invariant. *)
LEMMA NextDbInv == DbInv /\ [Next]_vars => DbInv'
<1> SUFFICES ASSUME DbInv, [Next]_vars PROVE DbInv'
    OBVIOUS
<1>1. CASE Succeeds \/ SkipsNode
    BY <1>1, SucceedsDbInv, SkipsDbInv
<1>2. CASE ConnectionError
    <2>1. UNCHANGED <<cur, nr, db, unheard>>
        BY <1>2 DEF ConnectionError, place
    <2>2. CASE Thrown
        BY <2>1, <2>2, ThrownDbInv
    <2>3. CASE ~Thrown
        <3>1. pc' = "handle" /\ UNCHANGED <<tx, work>>
            BY <1>2, <2>3 DEF ConnectionError
        <3> QED BY <2>1, <3>1, SameDbInv DEF Repeating, DbInv, DbTypeOK
    <2> QED BY <2>2, <2>3
<1>3. CASE OtherError \/ StatementRefused \/ TooManyRetries \/ ReconnectFails \/ CommitFails
    BY <1>3, ThrownDbInv
       DEF OtherError, StatementRefused, TooManyRetries, ReconnectFails, CommitFails, place
<1>4. CASE Reconnect \/ PoolReplaced
    BY <1>4, SameDbInv DEF Reconnect, PoolReplaced, Repeating, place, DbInv, DbTypeOK
<1>5. CASE Reconnected
    BY <1>5, SameDbInv DEF Reconnected, place, DbInv, DbTypeOK
<1>6. CASE ReadsDone \/ BeginFails \/ Recovers
    BY <1>6, SameDbInv DEF ReadsDone, BeginFails, Recovers, place, DbInv, DbTypeOK, WorkSoFar
<1>7. CASE Outage
    <2>1. UNCHANGED <<cur, nr, db, work, unheard, pc>> /\ tx' = IF tx = "live" THEN "dead" ELSE tx
        BY <1>7 DEF Outage, place
    <2> QED BY <2>1, SameDbInv DEF DbInv, DbTypeOK
<1>8. CASE Begin
    <2>1. /\ tx' = "live" /\ work' = {} /\ nr' = 1 /\ pc' = "block" /\ cur \in Blocks
          /\ UNCHANGED <<cur, db, unheard>>
        BY <1>8 DEF Begin, place
    <2>2. \A i \in InTransaction(cur) : ~(i < 1)
        BY <2>1, BlockNumbers DEF InTransaction
    <2> QED BY <2>1, <2>2 DEF DbInv, DbTypeOK, WorkSoFar, AllOrNothing, Complete, InTransaction
<1>9. CASE Commit \/ CommitAnswerLost
    BY <1>9, CommitDbInv
<1>10. CASE Restart
    BY <1>10, RestartDbInv
<1>11. CASE Killed
    BY <1>11 DEF Killed, place, DbInv, DbTypeOK, WorkSoFar, AllOrNothing
<1>12. CASE UNCHANGED vars
    BY <1>12, SameDbInv DEF vars, place, DbInv, DbTypeOK
<1> QED
    BY <1>1, <1>2, <1>3, <1>4, <1>5, <1>6, <1>7, <1>8, <1>9, <1>10, <1>11, <1>12 DEF Next, Process

(* However often its connection is lost, no block is stored in part, none  *)
(* before its COMMIT, and none without the node that a repetition left out *)
(* (executeInTransaction, executeWithRetry, getDbContext).                 *)
THEOREM BlocksWhole == Spec => []AllOrNothing
<1>1. DbInv => AllOrNothing
    BY DEF DbInv
<1> QED
    BY <1>1, InitDbInv, NextDbInv, PTL DEF Spec
=============================================================================
