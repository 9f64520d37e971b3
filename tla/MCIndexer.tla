----------------------------- MODULE MCIndexer -----------------------------
(***************************************************************************)
(* A chain of seven blocks and three epochs for Indexer.  Block 1 brings a   *)
(* new pool by its first stake, block 2 a validator no event has named,    *)
(* block 3 moves the stake of one pool twice, and pool p3 is gone when its *)
(* epoch is rewarded.                                                      *)
(***************************************************************************)
EXTENDS Indexer

CONSTANTS p1, p2, p3

Stake(p) == [kind |-> "stake", pool |-> p]
Avail(p) == [kind |-> "avail", pool |-> p]

MCMaxBlock == 6
MCPools == {p1, p2, p3}
MCEpochOf == [b \in 0 .. 6 |-> IF b < 2 THEN 0 ELSE IF b < 5 THEN 1 ELSE 2]
MCEventsOf == [b \in 0 .. 6 |->
    IF b = 1 THEN <<Stake(p2)>>
    ELSE IF b = 2 THEN <<Avail(p1)>>
    ELSE IF b = 3 THEN <<Stake(p1), Stake(p1)>>
    ELSE IF b = 4 THEN <<Avail(p3), Stake(p3)>>
    ELSE IF b = 5 THEN <<Avail(p2), Stake(p2)>>
    ELSE <<>>]
MCValidatorsOf == [b \in 0 .. 6 |->
    IF b < 2 THEN {p1} ELSE IF b < 5 THEN {p1, p3} ELSE {p2}]
MCAllPoolsOf == [b \in 0 .. 6 |->
    IF b = 0 THEN {p1} ELSE IF b = 4 THEN {p1, p2} ELSE {p1, p2, p3}]
=============================================================================
