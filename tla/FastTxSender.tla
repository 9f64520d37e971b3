---------------------------- MODULE FastTxSender ----------------------------
(***************************************************************************)
(* src/src/tools/FastTxSender.ts and awaitTransactions.ts, driven by       *)
(* src/src/tests/performanceTest.ts: batches of transactions are signed    *)
(* with nonces counted locally, posted to the node without waiting for     *)
(* each answer, and then looked for in the blocks.  Each batch has a       *)
(* sender of its own, whose requests may still be under way when the next  *)
(* batch runs.                                                             *)
(*                                                                         *)
(* A request the node refuses with -32010 is repeated after a pause that   *)
(* nobody awaits.  Any other refusal, and a repetition that gets no        *)
(* answer, is only logged: the transaction is dropped.                     *)
(*                                                                         *)
(* The hash computed by the signature may differ from that of the network, *)
(* the id of the transaction; the one the node reports replaces it, or     *)
(* undefined when the node reports none.                                   *)
(***************************************************************************)
EXTENDS TxPool

CONSTANTS
    Batches,     \* for each batch the accounts its transactions are from
    AwaitEvery,  \* awaitAllX
    MaxTrouble   \* bound: refusals, lost answers and wrong or missing hashes

ASSUME BatchesShape == Batches \in Seq(Seq(Accounts)) /\ Batches # <<>>

VARIABLES
    stage,      \* "add", "send", "pause", "all", "scan", "ended" or "failed"
    batch,      \* number of the batch
    txs,        \* rawTransactions of each batch
    request,    \* the state of the request of each of them
    promise,    \* promisses: "open", "kept" or "broken"
    next,       \* i of the loop in sendTxs
    scanned,    \* blockBeforeSent, then lastAnalysedBlock; -1 for NaN
    hashes,     \* transactionHashes of this batch
    copied,     \* awaitTransactions has filtered: left is an array of its own
    left,       \* the hashes it still looks for
    trouble     \* bound

awaited == <<copied, left>>
fastVars == <<stage, batch, txs, request, promise, next, scanned, hashes, awaited, trouble>>

NoHash == <<0, 0>>
OtherHash(id) == <<-id[1], id[2]>>

FastInit ==
    /\ stage = "add" /\ batch = 1 /\ next = 1 /\ scanned = -1 /\ trouble = 0
    /\ hashes = <<>> /\ copied = FALSE /\ left = {}
    /\ txs = [b \in DOMAIN Batches |-> <<>>]
    /\ request = [b \in DOMAIN Batches |-> <<>>] /\ promise = <<>>

-----------------------------------------------------------------------------
(* Nonces known to this sender (nonces).                                   *)
KnownNonces(a) == {txs[batch][i].nonce : i \in {j \in DOMAIN txs[batch] : txs[batch][j].from = a}}

NextNonce(a) ==
    IF KnownNonces(a) = {} THEN TransactionCount(a)
    ELSE 1 + CHOOSE n \in KnownNonces(a) : \A k \in KnownNonces(a) : k <= n

Trouble == trouble < MaxTrouble /\ trouble' = trouble + 1

AddTransaction ==
    /\ stage = "add" /\ Len(txs[batch]) < Len(Batches[batch])
    /\ LET nr == Len(txs[batch]) + 1
           a == Batches[batch][nr]
           tx == [from |-> a, nonce |-> NextNonce(a), id |-> <<batch, nr>>]
       IN  /\ txs' = [txs EXCEPT ![batch] = Append(@, tx)]
           /\ \/ hashes' = Append(hashes, tx.id) /\ UNCHANGED trouble
              \/ hashes' = Append(hashes, OtherHash(tx.id)) /\ Trouble
    /\ request' = [request EXCEPT ![batch] = Append(@, "unsent")]
    /\ promise' = Append(promise, "open")
    /\ UNCHANGED <<stage, batch, next, scanned, awaited, nodeVars>>

(* sendTxs: the block number is read before anything is posted.            *)
SendTxs ==
    /\ stage = "add" /\ Len(txs[batch]) = Len(Batches[batch])
    /\ stage' = "send" /\ scanned' = Len(blocks)
    /\ UNCHANGED <<batch, txs, request, promise, next, hashes, awaited, trouble, nodeVars>>

Awaited(i) == (i - 1) % AwaitEvery = 0

SendSingleTxRaw ==
    /\ stage = "send" /\ next <= Len(txs[batch])
    /\ request' = [request EXCEPT ![batch][next] = "posted"]
    /\ IF Awaited(next) THEN stage' = "pause" /\ next' = next
       ELSE stage' = "send" /\ next' = next + 1
    /\ UNCHANGED <<batch, txs, promise, scanned, hashes, awaited, trouble, nodeVars>>

(* await promisses[i]                                                      *)
Paused ==
    /\ stage = "pause" /\ promise[next] # "open"
    /\ IF promise[next] = "kept" THEN stage' = "send" /\ next' = next + 1
       ELSE stage' = "failed" /\ next' = next
    /\ UNCHANGED <<batch, txs, request, promise, scanned, hashes, awaited, trouble, nodeVars>>

(* await Promise.all(promisses), then awaitTxs.                            *)
PromiseAll ==
    /\ stage = "send" /\ next > Len(txs[batch])
    /\ \/ (\E i \in DOMAIN promise : promise[i] = "broken") /\ stage' = "failed"
       \/ (\A i \in DOMAIN promise : promise[i] = "kept") /\ stage' = "scan"
    /\ UNCHANGED <<batch, txs, request, promise, next, scanned, hashes, awaited, trouble, nodeVars>>

(* Mutant: starts behind the block that followed the first request.        *)
Unseen_Late == scanned + 2 .. Len(blocks)

(* blockToAnalyse                                                          *)
Unseen == scanned + 1 .. Len(blocks)

(* awaitTransactions is handed transactionHashes itself, and later answers *)
(* reach it until its first filter makes a copy.                           *)
LookedFor == IF copied THEN left ELSE Range(hashes)

(* One round over the new blocks.                                          *)
AwaitTransactions ==
    /\ stage = "scan" /\ LookedFor # {}
    /\ scanned < Len(blocks)
    /\ copied' = TRUE
    /\ left' = LookedFor \ {t.id : t \in UNION {blocks[b] : b \in Unseen}}
    /\ scanned' = Len(blocks)
    /\ UNCHANGED <<stage, batch, txs, request, promise, next, hashes, trouble, nodeVars>>

(* Mutant: awaitTxs is not awaited.                                        *)
AllConfirmed_Forgotten == TRUE

AllConfirmed == LookedFor = {}

(* The next batch has a new FastTxSender.                                  *)
BatchConfirmed ==
    /\ stage = "scan" /\ AllConfirmed
    /\ IF batch < Len(Batches) THEN stage' = "add" /\ batch' = batch + 1
       ELSE stage' = "ended" /\ UNCHANGED batch
    /\ promise' = <<>> /\ next' = 1 /\ scanned' = -1
    /\ hashes' = <<>> /\ copied' = FALSE /\ left' = {}
    /\ UNCHANGED <<txs, request, trouble, nodeVars>>

(* getTransactionCount, getBlockNumber or getBlock fails.                  *)
ReadFails ==
    /\ stage \in {"add", "scan"} /\ Trouble
    /\ stage' = "failed"
    /\ UNCHANGED <<batch, txs, request, promise, next, scanned, hashes, awaited, nodeVars>>

-----------------------------------------------------------------------------
(* Requests, of this batch or of an earlier one.                           *)

Requests == UNION {{b} \X DOMAIN request[b] : b \in DOMAIN request}

(* The node takes the transaction; its answer is under way.                *)
Taken(r) ==
    /\ request[r[1]][r[2]] \in {"posted", "repeated"}
    /\ Import(txs[r[1]][r[2]])
    /\ request' = [request EXCEPT ![r[1]][r[2]] = "taken"]
    /\ UNCHANGED <<stage, batch, txs, promise, next, scanned, hashes, awaited, trouble>>

(* The promise of this batch settles with the first answer; that of a      *)
(* repetition and of an earlier sender interests nobody.                   *)
Settles(r, how) ==
    promise' = IF r[1] = batch /\ r[2] \in DOMAIN promise /\ promise[r[2]] = "open"
               THEN [promise EXCEPT ![r[2]] = how] ELSE promise

Answer(r, from, to, how) ==
    /\ request[r[1]][r[2]] \in from
    /\ request' = [request EXCEPT ![r[1]][r[2]] = to]
    /\ Settles(r, how)
    /\ UNCHANGED <<stage, batch, txs, next, scanned, awaited, nodeVars>>

(* An earlier batch has a transactionHashes of its own, which nobody reads *)
(* any more.                                                               *)
Reported(r, hash) ==
    /\ Answer(r, {"taken"}, "sent", "kept")
    /\ hashes' = IF r[1] = batch /\ r[2] \in DOMAIN hashes
                 THEN [hashes EXCEPT ![r[2]] = hash] ELSE hashes

Accepted(r) == Reported(r, txs[r[1]][r[2]].id) /\ UNCHANGED trouble

AcceptedWithoutHash(r) == Trouble /\ Reported(r, NoHash)

(* -32010                                                                  *)
TooMany(r) ==
    /\ Full /\ Trouble
    /\ Answer(r, {"posted", "repeated"}, "resting", "kept") /\ UNCHANGED hashes

Refused(r) ==
    /\ Trouble
    /\ Answer(r, {"posted", "repeated"}, "dropped", "kept") /\ UNCHANGED hashes

(* The request or its answer is lost.                                      *)
ConnectionLost(r) ==
    /\ Trouble
    /\ \/ Answer(r, {"posted", "repeated"}, "dropped", "broken")
       \/ Answer(r, {"taken"}, "sent", "broken")
    /\ UNCHANGED hashes

(* sleepDurationOnToManyTransactions is over.                              *)
Repeat(r) ==
    /\ request[r[1]][r[2]] = "resting"
    /\ request' = [request EXCEPT ![r[1]][r[2]] = "repeated"]
    /\ UNCHANGED <<stage, batch, txs, promise, next, scanned, hashes, awaited, trouble, nodeVars>>

FastSteps ==
    \/ AddTransaction \/ SendTxs \/ SendSingleTxRaw \/ Paused \/ PromiseAll
    \/ AwaitTransactions \/ BatchConfirmed

FastAnswers == \E r \in Requests : Taken(r) \/ Accepted(r) \/ Repeat(r)

FastFaults ==
    \/ ReadFails
    \/ \E r \in Requests :
        TooMany(r) \/ Refused(r) \/ ConnectionLost(r) \/ AcceptedWithoutHash(r)

-----------------------------------------------------------------------------
(* Properties.                                                             *)

Created == UNION {Range(txs[b]) : b \in DOMAIN txs}

(* No two transactions share account and nonce although each sender counts *)
(* for itself: the blocks hold all of the earlier batches when a new one   *)
(* asks the node for its first nonce (FastTxSender.ts 113-124, 313-333).   *)
NoncesFresh ==
    \A t, u \in Created : t # u => t.from # u.from \/ t.nonce # u.nonce

Dropped == \E r \in Requests : request[r[1]][r[2]] = "dropped"

(* awaitTransactions looks for a hash that is that of no transaction: the  *)
(* node reported none, or the answer that would have put a wrong hash      *)
(* right came after the first filter.                                      *)
Mislaid == stage = "scan" /\ copied /\ \E h \in left : \A t \in Created : t.id # h

BatchesDone == stage \in {"ended", "failed"} \/ Dropped \/ Mislaid
=============================================================================
