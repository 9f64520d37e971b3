------------------------------- MODULE Tools --------------------------------
(***************************************************************************)
(* The scripts an operator runs against a network, one of them at a time:  *)
(* FastTxSender under the performance test, the continuous sender, the     *)
(* script that adds pools, and the contract upgrade.  The senders share    *)
(* the node of TxPool; the others meet their part of the chain only.       *)
(***************************************************************************)
EXTENDS FastTxSender, ContinuousSender, AddValidators, UpgradeContracts

VARIABLE tool

vars == <<tool, nodeVars, fastVars, senderVars, addVars, upgradeVars>>

(* The state of the scripts that do not run is of no interest.             *)
Init ==
    /\ tool \in {"fast", "continuous", "add", "upgrade"}
    /\ NodeInit /\ FastInit /\ SenderInit /\ AddInit /\ UpgradeInit
    /\ tool # "add" => mode = "each" /\ validators = {}
    /\ tool # "upgrade" => initialized /\ implementation = [p \in ProxyNames |-> 1]

OthersThanFast == <<tool, senderVars, addVars, upgradeVars>>
OthersThanSender == <<tool, fastVars, addVars, upgradeVars>>

Fast == tool = "fast" /\ FastSteps /\ UNCHANGED OthersThanFast
FastHears == tool = "fast" /\ FastAnswers /\ UNCHANGED OthersThanFast
FastFails == tool = "fast" /\ FastFaults /\ UNCHANGED OthersThanFast
FastMined == tool = "fast" /\ Mine /\ UNCHANGED <<fastVars, OthersThanFast>>

Continuous == tool = "continuous" /\ Sends /\ UNCHANGED OthersThanSender
ContinuousFails == tool = "continuous" /\ SenderFaults /\ UNCHANGED OthersThanSender
ContinuousMined == tool = "continuous" /\ Mine /\ UNCHANGED <<senderVars, OthersThanSender>>

Add ==
    /\ tool = "add" /\ AddNext
    /\ UNCHANGED <<tool, nodeVars, fastVars, senderVars, upgradeVars>>

Upgrade ==
    /\ tool = "upgrade" /\ UpgradeNext
    /\ UNCHANGED <<tool, nodeVars, fastVars, senderVars, addVars>>

Next ==
    \/ Fast \/ FastHears \/ FastFails \/ FastMined
    \/ Continuous \/ ContinuousFails \/ ContinuousMined
    \/ Add \/ Upgrade

(* A script goes on, the node answers and mines.  Faults, the end of the   *)
(* test's time and whatever the operator does are not fair.                *)
Fairness ==
    /\ WF_vars(Fast) /\ WF_vars(FastHears) /\ WF_vars(FastMined)
    /\ WF_vars(Continuous) /\ WF_vars(ContinuousMined)

Spec == Init /\ [][Next]_vars /\ Fairness

-----------------------------------------------------------------------------
(* Properties.                                                             *)

(* Every batch is found in the blocks, or the script fails, or one of its  *)
(* transactions was given up for a refusal or a lost repetition, or its    *)
(* hash is mislaid: no block between the first request and the last        *)
(* confirmation is left out, however often requests were repeated, and a   *)
(* wrong hash is put right by any answer that comes before the first       *)
(* filter (FastTxSender.ts 200-310, awaitTransactions.ts 6-55).            *)
BatchesEnd == tool = "fast" => <>BatchesDone

(* The continuous sender never comes to rest at its limit as long as no    *)
(* transaction ended with an error (continuousTransactionsSender.ts        *)
(* 110-113, 155-173).                                                      *)
SenderGoesOn == tool = "continuous" => <>TurnsDone
=============================================================================
