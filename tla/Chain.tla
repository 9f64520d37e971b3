------------------------------- MODULE Chain -------------------------------
(***************************************************************************)
(* The DMD chain as the indexer reads it over RPC: a finite history of     *)
(* blocks that never changes.  Everything here is external to the          *)
(* repository; it is what web3 and the contracts answer for a block.       *)
(***************************************************************************)
EXTENDS Integers, Sequences, FiniteSets

CONSTANTS
    MaxBlock,      \* bound: the last block of the modelled history
    Pools,         \* pool (staking) addresses; a mining address is its pool
    EpochOf,       \* [Blocks -> Blocks]  posdao epoch of a block
    EventsOf,      \* [Blocks -> Seq(Event)]  contract events, in visiting order
    ValidatorsOf,  \* [Blocks -> SUBSET Pools]  validator set at a block
    AllPoolsOf     \* [Blocks -> SUBSET Pools]  getAllPools at a block

Blocks == 0 .. MaxBlock

(* A "stake" event moves stake of a pool; an "avail" event reports that a  *)
(* validator became available or unavailable.                              *)
Event == [kind : {"stake", "avail"}, pool : Pools]

StartsEpoch(b) == b = 0 \/ EpochOf[b] # EpochOf[b - 1]

ASSUME ChainShape ==
    /\ MaxBlock \in Nat
    /\ EpochOf \in [Blocks -> Blocks]
    /\ EventsOf \in [Blocks -> Seq(Event)]
    /\ ValidatorsOf \in [Blocks -> SUBSET Pools]
    /\ AllPoolsOf \in [Blocks -> SUBSET Pools]

(* Epochs are numbered from 0 and a block opens at most the next one, so   *)
(* that an epoch number never exceeds the number of a block in it.         *)
ASSUME EpochsCountUp ==
    /\ EpochOf[0] = 0
    /\ \A b \in 1 .. MaxBlock : EpochOf[b] \in {EpochOf[b - 1], EpochOf[b - 1] + 1}
=============================================================================
