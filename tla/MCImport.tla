------------------------------ MODULE MCImport ------------------------------
(***************************************************************************)
(* For the start, seven blocks and three epochs: the import may begin in   *)
(* block 0, at an epoch's first, second or a later block; an earlier       *)
(* import has stored nothing or some blocks, fewer or more than the start. *)
(*                                                                         *)
(* For the rewards, two pools and two stakers over three epochs, whose     *)
(* percentages differ and divide the payments without a rest.              *)
(***************************************************************************)
EXTENDS Import, TLC

CONSTANTS p1, p2, p3, v1, v2, s1, s2

MCMaxBlock == 6
MCPools == {p1, p2, p3}
MCFillStarts == {0, 1, 2, 4, 5, 6}
MCEpochOf == [b \in 0 .. 6 |-> IF b < 3 THEN 0 ELSE IF b < 6 THEN 1 ELSE 2]
MCEventsOf == [b \in 0 .. 6 |-> <<>>]
MCValidatorsOf == [b \in 0 .. 6 |->
    IF b < 3 THEN {p1} ELSE IF b < 6 THEN {p1, p2} ELSE {p2, p3}]
MCAllPoolsOf == [b \in 0 .. 6 |-> IF b < 4 THEN {p1, p2} ELSE {p1, p2, p3}]

MCRewardPools == {v1, v2}
MCStakers == {s1, s2}
Symmetry == Permutations(MCRewardPools) \cup Permutations(MCStakers)

MCPayments == [MCRewardPools -> {0, 8}]
MCMinPercent == [e \in 0 .. 1 |-> IF e = 1 THEN 50 ELSE 25]
=============================================================================
