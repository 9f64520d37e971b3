--------------------------- MODULE AddValidators ---------------------------
(***************************************************************************)
(* src/src/net/stakeOnValidators.ts, run by itself (runStakeOnValidators)  *)
(* or once per epoch by runAddOneValidatorEachEpoch.ts, which waits with   *)
(* awaitEpochSwitch.ts after each pool.  Other operators may add pools,    *)
(* and epochs switch at any time.                                          *)
(***************************************************************************)
EXTENDS Integers, Sequences, FiniteSets

CONSTANTS
    Candidates,      \* nodeInfos.validators, a sequence
    ZeroAddress,     \* what it holds for a node without an address
    Wallet,          \* addressPairs, a sequence of staking addresses
    Others,          \* staking addresses of other operators
    FirstAccount,    \* mnemonicAccountIndex, counted from 0
    MaxEpoch         \* bound

VARIABLES
    mode,        \* "each", one pool per epoch, or "ask", a single run
    step,        \* "stake", "check", "account", "fund", "post", "result", "epoch",
                 \* "poll", "ended" or "failed"
    current,     \* currentValidators, read when stakeOnValidators starts
    cand,        \* i
    account,     \* accountIndex, counted from 0
    staked,      \* length of the result
    epochAtStart,
    poolOf,      \* ValidatorSetHbbft: the pool of a mining address, or "none"
    validators,  \* ValidatorSetHbbft: the current validators
    epoch,       \* StakingHbbft.stakingEpoch
    funded,      \* accounts that can pay the stake
    addedIn      \* history: the epochs in which addPool of this tool was mined

chainVars == <<poolOf, validators, epoch, funded, addedIn>>
addVars == <<mode, step, current, cand, account, staked, epochAtStart, chainVars>>

AddInit ==
    /\ mode \in {"each", "ask"}
    /\ step = "stake" /\ current = {} /\ cand = 1 /\ account = 0 /\ staked = 0 /\ epochAtStart = 0
    /\ poolOf = [c \in {Candidates[i] : i \in DOMAIN Candidates} |-> "none"]
    /\ validators \in {{}, {Candidates[1]}}
    /\ epoch = 1 /\ funded = {} /\ addedIn = <<>>

-----------------------------------------------------------------------------
(* stakeOnValidators                                                       *)

GoTo(to) == step' = to

(* The leading account may not have enough for a pool: nothing is staked.  *)
ReadValidators ==
    /\ step = "stake"
    /\ current' = validators /\ cand' = 1 /\ staked' = 0
    /\ GoTo("check") \/ GoTo("result")
    /\ UNCHANGED <<mode, account, epochAtStart, chainVars>>

TakesPool(c) == c # ZeroAddress /\ poolOf[c] = "none" /\ c \notin current

SkipsCandidate ==
    /\ step = "check" /\ cand <= Len(Candidates)
    /\ ~TakesPool(Candidates[cand])
    /\ cand' = cand + 1
    /\ UNCHANGED <<mode, step, current, account, staked, epochAtStart, chainVars>>

TakesCandidate ==
    /\ step = "check" /\ cand <= Len(Candidates)
    /\ TakesPool(Candidates[cand])
    /\ account' = FirstAccount + cand - 1 /\ GoTo("account")
    /\ UNCHANGED <<mode, current, cand, staked, epochAtStart, chainVars>>

Address == Wallet[account + 1]
InUse(a) == \E c \in DOMAIN poolOf : poolOf[c] = a

(* miningByStakingAddress                                                  *)
AccountTaken ==
    /\ step = "account" /\ account < Len(Wallet) /\ InUse(Address)
    /\ account' = account + 1
    /\ UNCHANGED <<mode, step, current, cand, staked, epochAtStart, chainVars>>

NoAccountLeft ==
    /\ step = "account" /\ account >= Len(Wallet)
    /\ cand' = cand + 1 /\ GoTo("check")
    /\ UNCHANGED <<mode, current, account, staked, epochAtStart, chainVars>>

(* Without a prompt when a validator is staked automatically.              *)
Choices == IF mode = "each" THEN {"y"} ELSE {"y", "n", "s", "c"}

AccountFree ==
    /\ step = "account" /\ account < Len(Wallet) /\ ~InUse(Address)
    /\ \E choice \in Choices :
        \/ choice = "y" /\ GoTo("fund") /\ UNCHANGED <<cand, account>>
        \/ choice = "n" /\ account' = account + 1 /\ UNCHANGED <<step, cand>>
        \/ choice = "s" /\ cand' = cand + 1 /\ GoTo("check") /\ UNCHANGED account
        \/ choice = "c" /\ GoTo("result") /\ UNCHANGED <<cand, account>>
    /\ UNCHANGED <<mode, current, staked, epochAtStart, chainVars>>

(* getBalance, and the transfer if the balance is below the stake: its     *)
(* failure is logged, and then ends the script.                            *)
Fund ==
    /\ step = "fund"
    /\ \/ GoTo("post") /\ funded' = funded \cup {Address}
       \/ Address \notin funded /\ GoTo("failed") /\ UNCHANGED funded
    /\ UNCHANGED <<mode, current, cand, account, staked, epochAtStart, poolOf, validators, epoch, addedIn>>

(* addPool is mined: it reverts when the node or the account got a pool in *)
(* the meantime, and the script ends with the error.                       *)
AddPool ==
    /\ step = "post" /\ Address \in funded
    /\ IF poolOf[Candidates[cand]] = "none" /\ ~InUse(Address)
       THEN /\ poolOf' = [poolOf EXCEPT ![Candidates[cand]] = Address]
            /\ funded' = funded \ {Address}
            /\ addedIn' = Append(addedIn, epoch)
            /\ staked' = staked + 1
            /\ IF mode = "each" THEN GoTo("result") /\ UNCHANGED cand
               ELSE GoTo("check") /\ cand' = cand + 1
       ELSE GoTo("failed") /\ UNCHANGED <<poolOf, funded, addedIn, staked, cand>>
    /\ UNCHANGED <<mode, current, account, epochAtStart, validators, epoch>>

NoMoreCandidates ==
    /\ step = "check" /\ cand > Len(Candidates) /\ GoTo("result")
    /\ UNCHANGED <<mode, current, cand, account, staked, epochAtStart, chainVars>>

-----------------------------------------------------------------------------
(* runAddOneValidatorEachEpoch and awaitEpochSwitch                        *)

Result ==
    /\ step = "result"
    /\ GoTo(IF mode = "each" THEN "epoch" ELSE "ended")
    /\ UNCHANGED <<mode, current, cand, account, staked, epochAtStart, chainVars>>

ReadEpoch ==
    /\ step = "epoch"
    /\ epochAtStart' = epoch /\ GoTo("poll")
    /\ UNCHANGED <<mode, current, cand, account, staked, chainVars>>

(* Mutant: the result of awaitEpochSwitch is not awaited.                  *)
Switched_NotAwaited == TRUE

Switched == epoch # epochAtStart

EpochPolled ==
    /\ step = "poll" /\ Switched
    /\ GoTo(IF staked > 0 THEN "stake" ELSE "ended")
    /\ UNCHANGED <<mode, current, cand, account, staked, epochAtStart, chainVars>>

AddSteps ==
    \/ ReadValidators \/ SkipsCandidate \/ TakesCandidate \/ AccountTaken \/ NoAccountLeft
    \/ AccountFree \/ Fund \/ AddPool \/ NoMoreCandidates \/ Result \/ ReadEpoch \/ EpochPolled

-----------------------------------------------------------------------------
(* The network.                                                            *)

EpochSwitch ==
    /\ epoch < MaxEpoch
    /\ epoch' = epoch + 1
    /\ validators' = {c \in DOMAIN poolOf : poolOf[c] # "none"}
    /\ UNCHANGED <<mode, step, current, cand, account, staked, epochAtStart, poolOf, funded, addedIn>>

(* Somebody else adds a pool for one of the nodes.                         *)
OtherAddsPool ==
    /\ \E a \in Others, c \in DOMAIN poolOf :
        /\ ~InUse(a) /\ c # ZeroAddress /\ poolOf[c] = "none"
        /\ poolOf' = [poolOf EXCEPT ![c] = a]
    /\ UNCHANGED <<mode, step, current, cand, account, staked, epochAtStart,
                   validators, epoch, funded, addedIn>>

AddNext == AddSteps \/ EpochSwitch \/ OtherAddsPool

-----------------------------------------------------------------------------
(* Properties.                                                             *)

(* runAddOneValidatorEachEpoch adds at most one pool in an epoch, although *)
(* the epoch may switch while addPool is mined, before it is read, and     *)
(* between two polls (runAddOneValidatorEachEpoch.ts 56-73,                *)
(* awaitEpochSwitch.ts 17-26).                                             *)
OnePoolPerEpoch ==
    mode = "each" =>
        \A i, j \in DOMAIN addedIn : i # j => addedIn[i] # addedIn[j]
=============================================================================
