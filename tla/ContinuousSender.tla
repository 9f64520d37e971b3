-------------------------- MODULE ContinuousSender --------------------------
(***************************************************************************)
(* src/src/continuousTransactionsSender.ts as runContinousTransactions-    *)
(* Sender.ts uses it: a timer sends one transaction after the other and    *)
(* leaves a turn out while currentPoolSize has reached maximumPoolSize.    *)
(* Each sendTx goes on in its own time: it waits for the signature, posts  *)
(* the transaction, and counts down when the receipt comes.  A transaction *)
(* that ends with an error is only logged and stays counted.               *)
(* (calcNonceEveryTurn is off, as in the configuration.)                   *)
(***************************************************************************)
EXTENDS TxPool

CONSTANTS
    Sender,           \* address
    MaximumPoolSize,
    MaxTurns,         \* bound: transactions of a run
    MaxErrors         \* bound: transactions that end with an error

VARIABLES
    running,      \* isRunning
    starting,     \* startSending awaits the nonce
    currentNonce,
    poolSize,     \* currentPoolSize
    sends         \* the calls of sendTx: [nonce, at]

senderVars == <<running, starting, currentNonce, poolSize, sends>>

SenderInit ==
    /\ running = FALSE /\ starting = TRUE
    /\ currentNonce = 0 /\ poolSize = 0 /\ sends = <<>>

TxOf(i) == [from |-> Sender, nonce |-> sends[i].nonce, id |-> <<0, i>>]

StartSending ==
    /\ starting
    /\ starting' = FALSE /\ running' = TRUE
    /\ currentNonce' = TransactionCount(Sender)
    /\ UNCHANGED <<poolSize, sends, nodeVars>>

(* executeFunction, and sendTx up to the call of signTransaction: the      *)
(* nonce is taken and counted on before anything is awaited.               *)
Turn ==
    /\ running /\ Len(sends) < MaxTurns
    /\ poolSize < MaximumPoolSize
    /\ sends' = Append(sends, [nonce |-> currentNonce, at |-> "signing"])
    /\ currentNonce' = currentNonce + 1
    /\ UNCHANGED <<running, starting, poolSize, nodeVars>>

Moves(i, from, to) ==
    /\ sends[i].at = from
    /\ sends' = [sends EXCEPT ![i].at = to]
    /\ UNCHANGED <<running, starting, currentNonce>>

Signed(i) ==
    /\ Moves(i, "signing", "posted")
    /\ poolSize' = poolSize + 1
    /\ UNCHANGED nodeVars

Pooled(i) ==
    /\ Moves(i, "posted", "pooled")
    /\ Import(TxOf(i))
    /\ UNCHANGED poolSize

Errors == {i \in DOMAIN sends : sends[i].at = "error"}

(* once('error'): the post fails or is refused, or no receipt comes in     *)
(* web3's time.                                                            *)
SendFails(i) ==
    /\ Cardinality(Errors) < MaxErrors
    /\ Moves(i, "posted", "error") \/ Moves(i, "pooled", "error")
    /\ UNCHANGED <<poolSize, nodeVars>>

(* Mutant: the receipt does not count down.                                *)
AfterReceipt_Kept(size) == size

AfterReceipt(size) == size - 1

(* Mutant: once('transactionHash') in place of once('receipt').            *)
ReceiptSeen_Hash(i) == TRUE

ReceiptSeen(i) == TxOf(i) \in Mined

(* once('receipt')                                                         *)
Receipt(i) ==
    /\ Moves(i, "pooled", "done")
    /\ ReceiptSeen(i)
    /\ poolSize' = AfterReceipt(poolSize)
    /\ UNCHANGED nodeVars

(* testDurationMs is over.                                                 *)
Stop ==
    /\ running /\ running' = FALSE
    /\ UNCHANGED <<starting, currentNonce, poolSize, sends, nodeVars>>

Sends ==
    \/ StartSending \/ Turn
    \/ \E i \in DOMAIN sends : Signed(i) \/ Pooled(i) \/ Receipt(i)

SenderFaults == Stop \/ \E i \in DOMAIN sends : SendFails(i)

SenderNext == Sends \/ SenderFaults \/ (Mine /\ UNCHANGED senderVars)

-----------------------------------------------------------------------------
(* Properties.                                                             *)

(* currentPoolSize never lags behind the node: whatever is in its pool is  *)
(* counted, although turns overlap while they sign and receipts come late  *)
(* (continuousTransactionsSender.ts 98-113).                               *)
PoolSizeCoversPending ==
    Cardinality({i \in DOMAIN sends : TxOf(i) \in pool}) <= poolSize

(* All turns of the run have reached a block, unless one ended with an     *)
(* error or the run was stopped.                                           *)
TurnsDone ==
    \/ Errors # {} \/ (~starting /\ ~running)
    \/ Cardinality({t \in Mined : t.from = Sender}) = MaxTurns
=============================================================================
