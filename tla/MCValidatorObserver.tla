------------------------ MODULE MCValidatorObserver ------------------------
(***************************************************************************)
(* Interchangeable validators; every property is an invariant.             *)
(***************************************************************************)
EXTENDS ValidatorObserver, TLC

CONSTANTS n1, n2

MCNodes == {n1, n2}
MCSymmetry == Permutations(MCNodes)
=============================================================================
