------------------------------ MODULE MCTools -------------------------------
(***************************************************************************)
(* Two batches of the performance test, of four and of two transactions of *)
(* two accounts, against a node that holds three; a continuous sender that *)
(* may have two under way; three nodes, a fourth without an address, and a *)
(* wallet of four accounts; two proxies.                                   *)
(***************************************************************************)
EXTENDS Tools

CONSTANTS a1, a2, n1, n2, n3, zero, w1, w2, w3, w4, o1, random, staking

MCAccounts == {a1, a2}
MCBatches == <<<<a1, a1, a2, a2>>, <<a1, a2>>>>
MCCandidates == <<n1, zero, n2, n3>>
MCWallet == <<w1, w2, w3, w4>>
MCOthers == {o1, w3}
MCProxies == <<staking, random>>
=============================================================================
