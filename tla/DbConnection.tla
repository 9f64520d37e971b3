---------------------------- MODULE DbConnection ----------------------------
(***************************************************************************)
(* Lost connections to the database: executeWithRetry, reconnect and       *)
(* executeInTransaction of the DbManager (src/src/db/database-persistent.ts)*)
(* under the import of runFillDb, while the server goes down and comes     *)
(* back.  Of the statements of a block five are told apart, by how they    *)
(* are run and by what their repetition meets; Indexer tells what they     *)
(* write.                                                                  *)
(*                                                                         *)
(* The process waits for each call: one statement is under way at a time.  *)
(* Whether ConnectionPool.dispose waits for connections that are in use is *)
(* the library's business; both are followed.                              *)
(***************************************************************************)
EXTENDS Naturals, Sequences

CONSTANTS
    Statements,             \* of each block, in order; blocks are numbered from 1
    Reads,                  \* number of reads before the first block
    MaxAttempts,            \* maxAttempts
    MaxConnectionRetries,   \* maxConnectionRetries
    MaxOutages,             \* bound: times the server goes down
    MaxErrors               \* bound: other errors, and deaths of the process

(* "header" is ignored when it is there, "node" is left out for a node that *)
(* is known, "epoch" has a key, "stakeTx" has none and is written beside    *)
(* the transaction, and "movement" refers to the node of its block; its     *)
(* keys take it twice.                                                      *)
Names == {"header", "node", "epoch", "stakeTx", "movement"}

Retried == {"header", "node", "epoch"}

ASSUME DbShape ==
    /\ Statements \in Seq(Seq(Names))
    /\ \A b \in DOMAIN Statements : Statements[b] # <<>> /\ Statements[b][1] = "header"
    /\ \A b \in DOMAIN Statements : \A i \in DOMAIN Statements[b] :
          Statements[b][i] = "node" =>
              \E j \in DOMAIN Statements[b] : i < j /\ Statements[b][j] = "movement"
    /\ {Reads, MaxAttempts, MaxConnectionRetries, MaxOutages, MaxErrors} \subseteq Nat

VARIABLES
    server,              \* "up" or "down"
    pool,                \* connections at rest: "fresh", or "stale" since an outage
    disposeWaits,        \* dispose waits for connections in use
    tx,                  \* connection of currentTransaction: "none", "live" or "dead"
    pc,                  \* "exited", "read", "loop", "block", "handle", "dispose", "test"
    nr,                  \* the statement under way, or the read
    attempts,
    connectionRetries,
    isReconnecting,
    cur,                 \* currentBlockNumber
    known,               \* knownNodes: the statements that inserted them
    work,                \* statements done in the open transaction
    db,                  \* statements of each block that are committed
    unheard,             \* history: COMMITs of this block stored, their answer lost
    outages, errors

counters == <<attempts, connectionRetries, isReconnecting>>
place == <<cur, known, db, unheard>>
bounds == <<outages, errors>>
vars == <<server, pool, disposeWaits, tx, pc, nr, counters, place, work, bounds>>

Blocks == DOMAIN Statements
MaxBlock == Len(Statements)

Init ==
    /\ server = "up" /\ pool = "fresh" /\ disposeWaits \in BOOLEAN
    /\ tx = "none" /\ pc = "read" /\ nr = 1
    /\ attempts = 0 /\ connectionRetries = 0 /\ isReconnecting = FALSE
    /\ cur = 1 /\ known = {} /\ work = {} /\ db = [b \in Blocks |-> {}] /\ unheard = 0
    /\ outages = 0 /\ errors = 0

-----------------------------------------------------------------------------
(* The server, or the network between.                                     *)

GoesDown ==
    /\ server = "up" /\ outages < MaxOutages /\ outages' = outages + 1
    /\ server' = "down" /\ pool' = "stale"

Outage ==
    /\ GoesDown
    /\ tx' = IF tx = "live" THEN "dead" ELSE tx
    /\ UNCHANGED <<disposeWaits, pc, nr, counters, place, work, errors>>

Recovers ==
    /\ server = "down" /\ server' = "up"
    /\ UNCHANGED <<pool, disposeWaits, tx, pc, nr, counters, place, work, bounds>>

-----------------------------------------------------------------------------
(* One statement.                                                          *)

Statement == IF pc = "read" THEN "read" ELSE Statements[cur][nr]

(* Mutant: once its connection is lost the transaction is not used.        *)
Context_Alive ==
    IF tx # "live" \/ Statement = "stakeTx" THEN "pool" ELSE "transaction"

(* getDbContext, asked again for each attempt; insertStakeTransaction and  *)
(* the names use connectionPool itself.                                    *)
Context == IF tx = "none" \/ Statement = "stakeTx" THEN "pool" ELSE "transaction"

Broken == IF Context = "pool" THEN pool = "stale" ELSE tx = "dead"

UnderWay ==
    \/ pc = "read" /\ nr <= Reads
    \/ pc = "block" /\ nr <= Len(Statements[cur])

KnownNode == Statement = "node" /\ <<cur, nr>> \in known

(* A known node of the block has no row.                                   *)
NodeMissing(n) ==
    \E i \in DOMAIN Statements[cur] :
        i < n /\ Statements[cur][i] = "node" /\ i \notin work \cup db[cur]

(* Keys of posdao_epoch and stake_history, foreign key of stake_history.   *)
Refused ==
    \/ Statement = "epoch" /\ unheard > 0
    \/ Statement = "movement" /\ (unheard > 1 \/ NodeMissing(nr))

SkipsNode ==
    /\ UnderWay /\ KnownNode
    /\ nr' = nr + 1
    /\ UNCHANGED <<server, pool, disposeWaits, tx, pc, counters, place, work, bounds>>

Succeeds ==
    /\ UnderWay /\ server = "up" /\ ~KnownNode
    /\ Context = "transaction" => tx = "live"
    /\ ~Refused
    /\ nr' = nr + 1 /\ attempts' = 0
    /\ known' = IF Statement = "node" THEN known \cup {<<cur, nr>>} ELSE known
    /\ IF pc = "read" THEN UNCHANGED <<work, db>>
       ELSE IF Context = "pool" THEN db' = [db EXCEPT ![cur] = @ \cup {nr}] /\ UNCHANGED work
       ELSE work' = work \cup {nr} /\ UNCHANGED db
    /\ UNCHANGED <<server, pool, disposeWaits, tx, pc, connectionRetries, isReconnecting, cur, unheard, bounds>>

(* The error leaves the DbManager.  Inside a block the transaction is      *)
(* rolled back, currentTransaction restored, and the block tried again     *)
(* after a while; before the first block it ends the process.              *)
Thrown ==
    /\ attempts' = 0
    /\ IF tx = "none" THEN pc' = "exited" /\ UNCHANGED <<tx, work>>
       ELSE pc' = "loop" /\ tx' = "none" /\ work' = {}

(* An error that the retries do not mend.                                  *)
StatementRefused ==
    /\ UnderWay /\ server = "up" /\ tx = "live" /\ Refused
    /\ Thrown
    /\ UNCHANGED <<server, pool, disposeWaits, nr, connectionRetries, isReconnecting, place, bounds>>

(* A lost connection.  executeWithRetry sees it for the last time, or has  *)
(* handleConnectionError deal with it.                                     *)
ConnectionError ==
    /\ UnderWay /\ ~KnownNode /\ (server = "down" \/ Broken)
    /\ pool' = IF Context = "pool" /\ server = "up" THEN "fresh" ELSE pool
    /\ IF Statement \in Retried \cup {"read"} /\ attempts + 1 < MaxAttempts
       THEN attempts' = attempts + 1 /\ pc' = "handle" /\ UNCHANGED <<tx, work>>
       ELSE Thrown
    /\ UNCHANGED <<server, disposeWaits, nr, connectionRetries, isReconnecting, place, bounds>>

(* Any other error is thrown again by handleConnectionError.               *)
OtherError ==
    /\ UnderWay /\ ~KnownNode /\ errors < MaxErrors /\ errors' = errors + 1
    /\ Thrown
    /\ UNCHANGED <<server, pool, disposeWaits, nr, connectionRetries, isReconnecting, place, outages>>

-----------------------------------------------------------------------------
(* handleConnectionError and reconnect.                                    *)

TooManyRetries ==
    /\ pc = "handle" /\ connectionRetries >= MaxConnectionRetries
    /\ Thrown
    /\ UNCHANGED <<server, pool, disposeWaits, nr, connectionRetries, isReconnecting, place, bounds>>

(* After the backoff, and when nobody else reconnects.                     *)
Reconnect ==
    /\ pc = "handle" /\ connectionRetries < MaxConnectionRetries /\ ~isReconnecting
    /\ connectionRetries' = connectionRetries + 1
    /\ isReconnecting' = TRUE /\ pc' = "dispose"
    /\ UNCHANGED <<server, pool, disposeWaits, tx, nr, attempts, place, work, bounds>>

(* The connection of the transaction is not given back before the          *)
(* operation in it has ended.                                              *)
Hangs == pc = "dispose" /\ disposeWaits /\ tx # "none"

PoolReplaced ==
    /\ pc = "dispose" /\ ~Hangs
    /\ pool' = "fresh" /\ pc' = "test"
    /\ UNCHANGED <<server, disposeWaits, tx, nr, counters, place, work, bounds>>

(* SELECT 1 on the new pool; isReconnecting is reset in either case.       *)
Reconnected ==
    /\ pc = "test" /\ server = "up"
    /\ pc' = IF tx = "none" THEN "read" ELSE "block"
    /\ connectionRetries' = 0 /\ isReconnecting' = FALSE
    /\ UNCHANGED <<server, pool, disposeWaits, tx, nr, attempts, place, work, bounds>>

(* Mutant: isReconnecting is reset by a reconnection that succeeds.        *)
ReconnectFails_Marked ==
    /\ pc = "test" /\ server = "down"
    /\ Thrown
    /\ UNCHANGED <<server, pool, disposeWaits, nr, connectionRetries, isReconnecting, place, bounds>>

ReconnectFails ==
    /\ pc = "test" /\ server = "down"
    /\ isReconnecting' = FALSE /\ Thrown
    /\ UNCHANGED <<server, pool, disposeWaits, nr, connectionRetries, place, bounds>>

-----------------------------------------------------------------------------
(* The import.                                                             *)

ReadsDone ==
    /\ pc = "read" /\ nr > Reads /\ pc' = "loop"
    /\ UNCHANGED <<server, pool, disposeWaits, tx, nr, counters, place, work, bounds>>

(* executeInTransaction: a connection of the pool, and BEGIN.              *)
Begin ==
    /\ pc = "loop" /\ cur \in Blocks /\ server = "up"
    /\ tx' = "live" /\ work' = {} /\ nr' = 1 /\ attempts' = 0 /\ pc' = "block"
    /\ UNCHANGED <<server, pool, disposeWaits, connectionRetries, isReconnecting, place, bounds>>

(* The loop waits and tries again.                                         *)
BeginFails ==
    /\ pc = "loop" /\ cur \in Blocks /\ server = "up" /\ pool = "stale" /\ pool' = "fresh"
    /\ UNCHANGED <<server, disposeWaits, tx, pc, nr, counters, place, work, bounds>>

Stored == [db EXCEPT ![cur] = @ \cup work]

Commit ==
    /\ pc = "block" /\ nr > Len(Statements[cur]) /\ tx = "live"
    /\ db' = Stored /\ unheard' = 0
    /\ tx' = "none" /\ work' = {} /\ cur' = cur + 1 /\ pc' = "loop"
    /\ UNCHANGED <<server, pool, disposeWaits, nr, counters, known, bounds>>

CommitFails ==
    /\ pc = "block" /\ nr > Len(Statements[cur]) /\ tx = "dead"
    /\ Thrown
    /\ UNCHANGED <<server, pool, disposeWaits, nr, connectionRetries, isReconnecting, place, bounds>>

(* The server goes down with the answer: to the process the block failed.  *)
CommitAnswerLost ==
    /\ pc = "block" /\ nr > Len(Statements[cur]) /\ tx = "live"
    /\ GoesDown /\ Thrown
    /\ db' = Stored /\ unheard' = unheard + 1
    /\ UNCHANGED <<disposeWaits, nr, connectionRetries, isReconnecting, cur, known, errors>>

(* The process dies.                                                       *)
Killed ==
    /\ pc # "exited" /\ errors < MaxErrors /\ errors' = errors + 1
    /\ pc' = "exited" /\ tx' = "none" /\ work' = {} /\ attempts' = 0
    /\ UNCHANGED <<server, pool, disposeWaits, nr, connectionRetries, isReconnecting, place, outages>>

HasHeader(b) == b \in Blocks /\ 1 \in db[b]

(* docker compose starts the process again; it goes on after the newest    *)
(* header, and knows the nodes that have a row.                            *)
Restart ==
    /\ pc = "exited" /\ pc' = "read" /\ nr' = 1
    /\ pool' = "fresh" /\ connectionRetries' = 0 /\ isReconnecting' = FALSE
    /\ \E newest \in 0 .. MaxBlock :
          /\ newest = 0 \/ HasHeader(newest)
          /\ \A b \in Blocks : HasHeader(b) => b <= newest
          /\ cur' = newest + 1
    /\ known' = UNION {{<<b, i>> : i \in {j \in db[b] : Statements[b][j] = "node"}} : b \in Blocks}
    /\ unheard' = 0
    /\ UNCHANGED <<server, disposeWaits, tx, attempts, work, db, bounds>>

Process ==
    \/ SkipsNode \/ Succeeds \/ StatementRefused \/ ConnectionError
    \/ TooManyRetries \/ Reconnect \/ PoolReplaced \/ Reconnected \/ ReconnectFails
    \/ ReadsDone \/ Begin \/ BeginFails \/ Commit \/ CommitFails \/ Restart

Next == Process \/ Outage \/ Recovers \/ CommitAnswerLost \/ OtherError \/ Killed

Fairness == WF_vars(Process) /\ WF_vars(Recovers)

Spec == Init /\ [][Next]_vars /\ Fairness

-----------------------------------------------------------------------------
(* Properties.                                                             *)

InTransaction(b) == {i \in DOMAIN Statements[b] : Statements[b][i] # "stakeTx"}

(* However its connection was lost and its statements were repeated, a     *)
(* block has all of its rows or none but those that are written beside the *)
(* transaction, and all of them only once its COMMIT was executed: no      *)
(* attempt of a statement reaches the database by the new pool, and no     *)
(* block is stored without the node that a repetition leaves out           *)
(* (runFillDb.ts 134, 240-242, 280-297, database-persistent.ts 213-263).   *)
AllOrNothing ==
    \A b \in Blocks :
        db[b] \cap InTransaction(b) =
            IF b < cur \/ (b = cur /\ unheard > 0) THEN InTransaction(b) ELSE {}

(* Every repetition of the block is refused until the process is restarted:*)
(* the answer of its COMMIT was lost and the keys do not take it again, or *)
(* a rollback took the row of a node that is known.                        *)
Wedged ==
    /\ cur \in Blocks /\ pc # "exited"
    /\ \E i \in DOMAIN Statements[cur] :
        \/ Statements[cur][i] = "epoch" /\ unheard > 0
        \/ Statements[cur][i] = "movement" /\ unheard > 1
        \/ <<cur, i>> \in known /\ i \notin work \cup db[cur]

(* The import outlives every outage, also when so many reconnections have  *)
(* failed that none is tried any more, unless a reconnection waits for the *)
(* transaction that waits for it, or the outage came at one of the two     *)
(* moments that leave the block wedged (database-persistent.ts 116-204,    *)
(* runFillDb.ts 236-242, 440-463).                                         *)
ImportGoesOn == <>(cur > MaxBlock \/ Hangs \/ Wedged)
=============================================================================
