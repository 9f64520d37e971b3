------------------------------- MODULE Import -------------------------------
(***************************************************************************)
(* What the import does besides taking block after block: how it begins in *)
(* the middle of the chain, and how it closes an epoch with its rewards.   *)
(* The two touch different tables, at different times of a process; a      *)
(* behaviour is of one of them.                                            *)
(***************************************************************************)
EXTENDS Bootstrap, Rewards

VARIABLE part

vars == <<part, seedVars, rewardVars>>

(* The state of the other part is of no interest.                          *)
Init ==
    /\ part \in {"start", "rewards"}
    /\ SeedInit /\ RewardsInit
    /\ part # "start" => start = Largest(FillStarts) /\ tables = Imported(0)
    /\ part # "rewards" => epoch.validators = RewardPools

Starts == part = "start" /\ SeedNext /\ UNCHANGED <<part, rewardVars>>
ClosesEpochs == part = "rewards" /\ RewardsNext /\ UNCHANGED <<part, seedVars>>

Next == Starts \/ ClosesEpochs

Spec == Init /\ [][Next]_vars
=============================================================================
