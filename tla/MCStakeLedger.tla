--------------------------- MODULE MCStakeLedger ---------------------------
(***************************************************************************)
(* Two pools; the owner of each stakes in it and delegates to the other.   *)
(***************************************************************************)
EXTENDS StakeLedger, TLC

CONSTANTS p1, p2

MCPools == {p1, p2}
MCStakers == MCPools

(* The pools are interchangeable; every property is an invariant.          *)
MCSymmetry == Permutations(MCPools)
=============================================================================
