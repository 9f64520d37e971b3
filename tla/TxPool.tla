------------------------------- MODULE TxPool -------------------------------
(***************************************************************************)
(* What the tools that send transactions see of a diamond-node (external): *)
(* a pool that takes a transaction of any nonce that is not used up yet,   *)
(* and blocks that take the transactions of an account in the order of     *)
(* their nonces.  A transaction is a record [from, nonce, id]; its id      *)
(* stands for its hash.                                                    *)
(***************************************************************************)
EXTENDS Integers, Sequences, FiniteSets, Functions

CONSTANTS
    Accounts,
    QueueSize     \* transactions the pool holds before it refuses more

VARIABLES
    pool,
    blocks        \* sequence of sets of transactions

nodeVars == <<pool, blocks>>

NodeInit == pool = {} /\ blocks = <<>>

Mined == UNION Range(blocks)

(* eth_getTransactionCount, of the newest block.                           *)
TransactionCount(a) == Cardinality({t \in Mined : t.from = a})

(* A pooled transaction of the same account and nonce has the same gas     *)
(* price and is not replaced.                                              *)
Usable(t) ==
    /\ t.nonce >= TransactionCount(t.from)
    /\ \A u \in pool : u.from = t.from => u.nonce # t.nonce

Full == Cardinality(pool) >= QueueSize

Import(t) ==
    /\ Usable(t) /\ ~Full
    /\ pool' = pool \cup {t}
    /\ UNCHANGED blocks

Contiguous(txs) ==
    \A t \in txs : \A n \in TransactionCount(t.from) .. t.nonce :
        \E u \in txs : u.from = t.from /\ u.nonce = n

Mine ==
    \E txs \in SUBSET pool \ {{}} :
        /\ Contiguous(txs)
        /\ blocks' = Append(blocks, txs)
        /\ pool' = pool \ txs
=============================================================================
