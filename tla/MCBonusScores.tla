--------------------------- MODULE MCBonusScores ---------------------------
(***************************************************************************)
(* Two interchangeable pools; every property is an invariant.              *)
(***************************************************************************)
EXTENDS BonusScores

CONSTANTS p1, p2

MCPools == {p1, p2}
MCSymmetry == Permutations(MCPools)
=============================================================================
