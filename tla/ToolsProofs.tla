----------------------------- MODULE ToolsProofs ----------------------------
(***************************************************************************)
(* Theorems about the scripts of Tools, for every account, candidate,      *)
(* proxy and bound.  Each script has an inductive invariant of its own;    *)
(* the steps of the others leave its variables alone.                      *)
(***************************************************************************)
EXTENDS Tools, FiniteSetTheorems, WellFoundedInduction, TLAPS

-----------------------------------------------------------------------------
(* The script that adds pools.  runAddOneValidatorEachEpoch adds at most   *)
(* one pool in an epoch, for any candidates, accounts, epochs and          *)
(* interventions of others.  That the epochs differ is not inductive: what *)
(* counts is that none of them can still be the current one when the       *)
(* script looks for the next node.                                         *)

Staking == {"stake", "check", "account", "fund", "post"}

AddTypeOK == epoch \in Nat /\ epochAtStart \in Nat /\ addedIn \in Seq(Nat)

(* The epochs so far are over while a node is looked for, and known to the *)
(* script while it waits.                                                  *)
EpochsOver ==
    mode = "each" =>
        /\ \A i \in DOMAIN addedIn : addedIn[i] <= epoch
        /\ step \in Staking => \A i \in DOMAIN addedIn : addedIn[i] < epoch
        /\ step = "poll" =>
            epochAtStart <= epoch /\ \A i \in DOMAIN addedIn : addedIn[i] <= epochAtStart

AddInv == AddTypeOK /\ EpochsOver /\ OnePoolPerEpoch

LEMMA InitAddInv == AddInit => AddInv
BY DEF AddInit, AddInv, AddTypeOK, EpochsOver, OnePoolPerEpoch

(* Steps of a search that goes on or ends without a pool.                  *)
LEMMA SearchAddInv ==
    ASSUME AddInv, UNCHANGED <<mode, epoch, epochAtStart, addedIn>>,
           step \in Staking,
           step' \in Staking \cup {"result", "failed"}
    PROVE  AddInv'
BY DEF AddInv, AddTypeOK, EpochsOver, OnePoolPerEpoch, Staking

(* Steps after the search; those that lead back to it are not among them.  *)
LEMMA AfterAddInv ==
    ASSUME AddInv, UNCHANGED <<mode, epoch, epochAtStart, addedIn>>,
           step' \in {"epoch", "ended"}
    PROVE  AddInv'
BY DEF AddInv, AddTypeOK, EpochsOver, OnePoolPerEpoch, Staking

(* The epoch of the new pool is later than those of all others.            *)
LEMMA PoolAddInv ==
    ASSUME AddInv, AddPool, addedIn' = Append(addedIn, epoch)
    PROVE  AddInv'
<1>1. /\ UNCHANGED <<mode, epoch, epochAtStart>> /\ step = "post"
      /\ epoch \in Nat /\ epochAtStart \in Nat /\ addedIn \in Seq(Nat)
    BY DEF AddPool, AddInv, AddTypeOK
<1>2. AddTypeOK'
    BY <1>1 DEF AddTypeOK
<1>3. CASE mode = "each"
    <2>1. step' \in {"result", "failed"}
        BY <1>3 DEF AddPool, GoTo
    <2>2. \A i \in DOMAIN addedIn : addedIn[i] < epoch
        BY <1>1, <1>3 DEF AddInv, EpochsOver, Staking
    <2>3. DOMAIN addedIn' = DOMAIN addedIn \cup {Len(addedIn) + 1}
        BY <1>1
    <2>4. /\ \A i \in DOMAIN addedIn : addedIn'[i] = addedIn[i]
          /\ addedIn'[Len(addedIn) + 1] = epoch
        BY <1>1
    <2>5. \A i \in DOMAIN addedIn : addedIn[i] \in Nat /\ i # Len(addedIn) + 1
        BY <1>1
    <2>6. EpochsOver'
        BY <1>1, <2>1, <2>2, <2>3, <2>4, <2>5 DEF EpochsOver, Staking
    <2>7. OnePoolPerEpoch'
        <3>1. \A i, j \in DOMAIN addedIn : i # j => addedIn[i] # addedIn[j]
            BY <1>3 DEF AddInv, OnePoolPerEpoch
        <3>2. SUFFICES ASSUME NEW i \in DOMAIN addedIn', NEW j \in DOMAIN addedIn', i # j
                       PROVE  addedIn'[i] # addedIn'[j]
            BY DEF OnePoolPerEpoch
        <3>3. CASE i \in DOMAIN addedIn /\ j \in DOMAIN addedIn
            BY <2>4, <3>1, <3>2, <3>3
        <3>4. CASE i = Len(addedIn) + 1
            BY <1>1, <2>2, <2>3, <2>4, <2>5, <3>2, <3>4
        <3>5. CASE j = Len(addedIn) + 1
            BY <1>1, <2>2, <2>3, <2>4, <2>5, <3>2, <3>5
        <3> QED BY <2>3, <3>3, <3>4, <3>5
    <2> QED BY <1>2, <2>6, <2>7 DEF AddInv
<1>4. CASE mode # "each"
    BY <1>1, <1>2, <1>4 DEF AddInv, EpochsOver, OnePoolPerEpoch
<1> QED BY <1>3, <1>4

LEMMA NextAddInv == AddInv /\ [AddNext]_addVars => AddInv'
<1> SUFFICES ASSUME AddInv, [AddNext]_addVars PROVE AddInv'
    OBVIOUS
<1>1. CASE \/ ReadValidators \/ SkipsCandidate \/ TakesCandidate \/ AccountTaken
           \/ NoAccountLeft \/ AccountFree \/ NoMoreCandidates
    <2>1. /\ UNCHANGED <<mode, epoch, epochAtStart, addedIn>>
          /\ step \in Staking /\ step' \in Staking \cup {"result", "failed"}
        BY <1>1 DEF ReadValidators, SkipsCandidate, TakesCandidate, AccountTaken, NoAccountLeft,
                    AccountFree, NoMoreCandidates, chainVars, GoTo, Staking
    <2> QED BY <2>1, SearchAddInv
<1>2. CASE Fund
    BY <1>2, SearchAddInv DEF Fund, GoTo, Staking
<1>3. CASE AddPool
    <2>1. CASE addedIn' = Append(addedIn, epoch)
        BY <1>3, <2>1, PoolAddInv
    <2>2. CASE addedIn' # Append(addedIn, epoch)
        BY <1>3, <2>2, SearchAddInv DEF AddPool, GoTo, Staking
    <2> QED BY <2>1, <2>2
<1>4. CASE Result
    BY <1>4, AfterAddInv DEF Result, chainVars, GoTo
<1>5. CASE ReadEpoch
    <2>1. UNCHANGED <<mode, epoch, addedIn>> /\ epochAtStart' = epoch /\ step' = "poll"
        BY <1>5 DEF ReadEpoch, chainVars, GoTo
    <2> QED BY <2>1 DEF AddInv, AddTypeOK, EpochsOver, OnePoolPerEpoch, Staking
<1>6. CASE EpochPolled
    <2>1. /\ UNCHANGED <<mode, epoch, epochAtStart, addedIn>>
          /\ step = "poll" /\ epoch # epochAtStart /\ step' \in {"stake", "ended"}
        BY <1>6 DEF EpochPolled, Switched, chainVars, GoTo
    <2>2. CASE mode = "each"
        <3>1. epoch \in Nat /\ epochAtStart \in Nat /\ addedIn \in Seq(Nat)
            BY DEF AddInv, AddTypeOK
        <3>2. epochAtStart < epoch
            BY <2>1, <2>2, <3>1 DEF AddInv, EpochsOver
        <3>3. \A i \in DOMAIN addedIn : addedIn[i] \in Nat /\ addedIn[i] <= epochAtStart
            BY <2>1, <2>2, <3>1 DEF AddInv, EpochsOver
        <3>4. \A i \in DOMAIN addedIn : addedIn[i] < epoch /\ addedIn[i] <= epoch
            BY <3>1, <3>2, <3>3
        <3> QED BY <2>1, <3>4 DEF AddInv, AddTypeOK, EpochsOver, OnePoolPerEpoch
    <2>3. CASE mode # "each"
        BY <2>1, <2>3 DEF AddInv, AddTypeOK, EpochsOver, OnePoolPerEpoch
    <2> QED BY <2>2, <2>3
<1>7. CASE EpochSwitch
    <2>1. UNCHANGED <<mode, step, epochAtStart, addedIn>> /\ epoch' = epoch + 1
        BY <1>7 DEF EpochSwitch
    <2>2. \A i \in DOMAIN addedIn : addedIn[i] \in Nat
        BY DEF AddInv, AddTypeOK
    <2> QED BY <2>1, <2>2 DEF AddInv, AddTypeOK, EpochsOver, OnePoolPerEpoch
<1>8. CASE OtherAddsPool \/ UNCHANGED addVars
    <2>1. UNCHANGED <<mode, step, epochAtStart, addedIn, epoch>>
        BY <1>8 DEF OtherAddsPool, addVars, chainVars
    <2> QED BY <2>1 DEF AddInv, AddTypeOK, EpochsOver, OnePoolPerEpoch
<1> QED
    BY <1>1, <1>2, <1>3, <1>4, <1>5, <1>6, <1>7, <1>8 DEF AddNext, AddSteps

-----------------------------------------------------------------------------
(* The contract upgrade.  A proxy is switched once, or twice after a run   *)
(* has given up its pending upgradeTo, for any proxies and any number of   *)
(* runs, crashes and interventions.  What is counted for a proxy is how    *)
(* often it was switched, an upgradeTo in the pool, and a switch the run   *)
(* still has to post.  The invariant bounds their sum, and ties to it that *)
(* a proxy that was switched runs the build, that what is deployed or      *)
(* posted is the build, and that a pending upgradeTo nobody waits for was  *)
(* abandoned.                                                              *)

Phases == {"scan", "ask", "deploy", "confirm", "switch", "special", "ended"}
Kinds == {"none", "deploy", "upgrade", "initialize"}
Transactions == [kind : Kinds, proxy : ProxyNames \cup {"none"}, address : Nat]

UpgradeTypeOK ==
    /\ phase \in Phases
    /\ index \in Nat \ {0}
    /\ pending \in Seq(ProxyNames)
    /\ newAddress \in Seq(Nat)
    /\ awaiting \in BOOLEAN
    /\ inPool \in Transactions
    /\ contracts \in Seq([body : {"old", "new"}, tail : Nat])
    /\ Len(contracts) >= 2
    /\ implementation \in [ProxyNames -> Nat]
    /\ \A p \in ProxyNames : implementation[p] \in DOMAIN contracts
    /\ ours \in [ProxyNames -> Nat]
    /\ abandoned \subseteq ProxyNames

IsBuild(a) == a \in DOMAIN contracts /\ UpToDate(contracts[a])

SwitchedRunBuild == \A p \in ProxyNames : ours[p] # 0 => IsBuild(implementation[p])

(* The position in pending from which on nothing is posted.                *)
Open ==
    IF phase = "switch" THEN (IF awaiting THEN index + 1 ELSE index)
    ELSE IF phase = "special" THEN index + 1 ELSE 1

Due(p) == phase # "ended" /\ \E k \in DOMAIN pending : k >= Open /\ pending[k] = p
Posted(p) == inPool.kind = "upgrade" /\ inPool.proxy = p
Claims(p) == (IF Due(p) THEN 1 ELSE 0) + (IF Posted(p) THEN 1 ELSE 0)

SwitchesCounted ==
    \A p \in ProxyNames : ours[p] + Claims(p) <= IF p \in abandoned THEN 2 ELSE 1

PendingOnce ==
    /\ \A j, k \in DOMAIN pending : j # k => pending[j] # pending[k]
    /\ phase = "scan" => \A k \in DOMAIN pending : \E j \in DOMAIN Proxies : j < index /\ pending[k] = Proxies[j]

(* What the script waits for is what it posted last.                       *)
Waiting ==
    /\ awaiting =>
        \/ phase = "deploy" /\ inPool.kind = "deploy" /\ index <= Len(pending)
        \/ phase = "switch" /\ inPool.kind = "upgrade" /\ index <= Len(pending)
        \/ phase = "special" /\ inPool.kind = "initialize"
    /\ inPool.kind = "upgrade" =>
        /\ inPool.proxy \in ProxyNames /\ IsBuild(inPool.address)
        /\ ~awaiting => inPool.proxy \in abandoned

BuildDeployed ==
    /\ \A k \in DOMAIN newAddress : IsBuild(newAddress[k])
    /\ phase \in {"scan", "ask"} => newAddress = <<>>
    /\ phase = "deploy" => Len(newAddress) = index - 1 /\ index <= Len(pending) + 1
    /\ phase \in {"confirm", "switch", "special"} => Len(newAddress) = Len(pending)

UpgradeInv ==
    /\ UpgradeTypeOK /\ SwitchedRunBuild /\ SwitchesCounted
    /\ PendingOnce /\ Waiting /\ BuildDeployed

LEMMA NoTxIs == NoTx \in Transactions /\ NoTx.kind = "none"
    BY DEF NoTx, Transaction, Transactions, Kinds

LEMMA InitUpgradeInv == UpgradeInit => UpgradeInv
<1> SUFFICES ASSUME UpgradeInit PROVE UpgradeInv
    OBVIOUS
<1>1. UpgradeTypeOK
    <2>1. contracts \in Seq([body : {"old", "new"}, tail : Nat]) /\ Len(contracts) = 2
        BY DEF UpgradeInit, OldCode, Build
    <2>2. ours \in [ProxyNames -> Nat]
        BY DEF UpgradeInit
    <2>3. implementation \in [ProxyNames -> Nat] /\ \A p \in ProxyNames : implementation[p] \in 1 .. 2
        BY DEF UpgradeInit
    <2>4. phase \in Phases /\ index \in Nat \ {0} /\ pending \in Seq(ProxyNames) /\ newAddress \in Seq(Nat)
        BY DEF UpgradeInit, Phases
    <2>5. DOMAIN contracts = 1 .. 2
        BY <2>1
    <2>6. inPool \in Transactions /\ awaiting \in BOOLEAN /\ abandoned \subseteq ProxyNames
        BY NoTxIs DEF UpgradeInit
    <2> QED BY <2>1, <2>2, <2>3, <2>4, <2>5, <2>6 DEF UpgradeTypeOK
<1>2. SwitchedRunBuild
    BY DEF UpgradeInit, SwitchedRunBuild
<1>3. PendingOnce /\ BuildDeployed /\ Waiting
    BY NoTxIs DEF UpgradeInit, PendingOnce, BuildDeployed, Waiting
<1>4. \A p \in ProxyNames : ours[p] = 0 /\ ~Due(p) /\ ~Posted(p)
    BY NoTxIs DEF UpgradeInit, Due, Posted
<1>5. SwitchesCounted
    BY <1>4 DEF SwitchesCounted, Claims
<1> QED BY <1>1, <1>2, <1>3, <1>5 DEF UpgradeInv

(* A step that adds neither a switch nor a claim to one.                   *)
LEMMA NoMoreClaims ==
    ASSUME UpgradeTypeOK, SwitchesCounted, abandoned \subseteq abandoned',
           \A p \in ProxyNames : /\ ours'[p] \in Nat /\ ours'[p] <= ours[p]
                                 /\ Due(p)' => Due(p)
                                 /\ Posted(p)' => Posted(p)
    PROVE  SwitchesCounted'
<1> SUFFICES ASSUME NEW p \in ProxyNames
             PROVE  ours'[p] + Claims(p)' <= IF p \in abandoned' THEN 2 ELSE 1
    BY DEF SwitchesCounted
<1>1. ours[p] + Claims(p) <= IF p \in abandoned THEN 2 ELSE 1
    BY DEF SwitchesCounted
<1>2. ours[p] \in Nat /\ ours'[p] \in Nat /\ ours'[p] <= ours[p]
    BY DEF UpgradeTypeOK
<1>3. Claims(p)' <= Claims(p) /\ Claims(p) \in Nat /\ Claims(p)' \in Nat
    BY DEF Claims
<1> QED BY <1>1, <1>2, <1>3

LEMMA BuildsStay ==
    ASSUME UpgradeInv, UNCHANGED <<contracts, implementation, ours>>
    PROVE  SwitchedRunBuild'
    BY DEF UpgradeInv, SwitchedRunBuild, IsBuild, UpToDate, Build

(* A run ends; an upgradeTo it waited for is abandoned.                    *)
LEMMA EndsUpgradeInv ==
    ASSUME UpgradeInv, Ends
    PROVE  UpgradeInv'
<1>1. /\ phase' = "ended" /\ awaiting' = FALSE
      /\ UNCHANGED <<index, pending, newAddress, inPool, contracts, implementation, ours>>
      /\ abandoned' = IF awaiting /\ inPool.kind = "upgrade"
                      THEN abandoned \cup {inPool.proxy} ELSE abandoned
    BY DEF Ends, proxyVars
<1>2. UpgradeTypeOK'
    BY <1>1 DEF UpgradeInv, UpgradeTypeOK, Waiting, Phases
<1>3. SwitchesCounted'
    BY <1>1, NoMoreClaims DEF UpgradeInv, UpgradeTypeOK, Due, Posted
<1>4. PendingOnce'
    BY <1>1 DEF UpgradeInv, PendingOnce
<1>5. Waiting'
    <2>1. ASSUME inPool.kind = "upgrade"
          PROVE  inPool.proxy \in ProxyNames /\ IsBuild(inPool.address) /\ inPool.proxy \in abandoned'
        BY <1>1, <2>1 DEF UpgradeInv, UpgradeTypeOK, Waiting
    <2> QED BY <1>1, <2>1 DEF Waiting, IsBuild, UpToDate, Build
<1>6. BuildDeployed'
    BY <1>1 DEF UpgradeInv, BuildDeployed, IsBuild, UpToDate, Build
<1> QED BY <1>1, <1>2, <1>3, <1>4, <1>5, <1>6, BuildsStay DEF UpgradeInv

(* What the pool holds is neither posted nor mined by the script itself.   *)
LEMMA WaitsForNothing ==
    ASSUME UpgradeInv, ~awaiting,
           UNCHANGED <<awaiting, inPool, abandoned, contracts>>
    PROVE  Waiting'
    BY DEF UpgradeInv, Waiting, IsBuild, UpToDate, Build

LEMMA AwaitsInLoops ==
    ASSUME UpgradeInv,
           \/ phase \notin {"deploy", "switch", "special"}
           \/ index > Len(pending) /\ phase # "special"
    PROVE  ~awaiting
<1> SUFFICES ASSUME awaiting PROVE FALSE
    OBVIOUS
<1>1. index \in Nat /\ Len(pending) \in Nat
    BY DEF UpgradeInv, UpgradeTypeOK
<1> QED BY <1>1 DEF UpgradeInv, Waiting

(* Only a proxy that does not run the build is put on the list: it was not *)
(* switched, and an upgradeTo in the pool is an abandoned one.             *)
LEMMA CompareUpgradeInv ==
    ASSUME UpgradeInv, CompareProxy
    PROVE  UpgradeInv'
<1>1. CASE Ends
    BY <1>1, EndsUpgradeInv
<1>2. CASE ~Ends
    <2> DEFINE p == Proxies[index]
    <2>1. /\ phase = "scan" /\ index \in DOMAIN Proxies /\ p \in ProxyNames
          /\ index' = index + 1 /\ UNCHANGED <<phase, newAddress>>
          /\ UNCHANGED <<awaiting, inPool, abandoned>>
          /\ UNCHANGED <<contracts, implementation, ours>>
          /\ pending' = IF UpToDate(contracts[implementation[p]]) THEN pending ELSE Append(pending, p)
          /\ index \in Nat \ {0} /\ pending \in Seq(ProxyNames)
        BY <1>2, ProxiesShape, SMTT(30) DEF CompareProxy, ProxyNames, UpgradeInv, UpgradeTypeOK, proxyVars
    <2>2. UpgradeTypeOK'
        BY <2>1 DEF UpgradeInv, UpgradeTypeOK
    <2>3. ~awaiting
        BY <2>1, AwaitsInLoops
    <2>4. BuildDeployed'
        BY <2>1 DEF UpgradeInv, BuildDeployed, IsBuild, UpToDate
    <2>5. PendingOnce' /\ SwitchesCounted'
        <3>1. \A k \in DOMAIN pending : \E j \in DOMAIN Proxies : j < index /\ pending[k] = Proxies[j]
            BY <2>1 DEF UpgradeInv, PendingOnce
        <3>2. \A j \in DOMAIN Proxies : j \in Nat /\ (j < index => j < index')
            BY <2>1, ProxiesShape
        <3>3. CASE pending' = pending
            <4>1. \A k \in DOMAIN pending : \E j \in DOMAIN Proxies : j < index' /\ pending[k] = Proxies[j]
                BY <3>1, <3>2
            <4>2. PendingOnce'
                BY <2>1, <3>3, <4>1 DEF UpgradeInv, PendingOnce
            <4>3. \A q \in ProxyNames : (Due(q)' <=> Due(q)) /\ (Posted(q)' <=> Posted(q))
                BY <2>1, <3>3 DEF Due, Posted, Open
            <4>4. SwitchesCounted'
                BY <2>1, <4>3, NoMoreClaims DEF UpgradeInv, UpgradeTypeOK
            <4> QED BY <4>2, <4>4
        <3>4. CASE ~UpToDate(contracts[implementation[p]])
            <4>1. ours[p] = 0
                BY <2>1, <3>4 DEF UpgradeInv, SwitchedRunBuild, IsBuild
            <4>2. /\ pending' = Append(pending, p)
                  /\ DOMAIN pending' = DOMAIN pending \cup {Len(pending) + 1}
                  /\ \A k \in DOMAIN pending : pending'[k] = pending[k] /\ k # Len(pending) + 1
                  /\ pending'[Len(pending) + 1] = p
                BY <2>1, <3>4
            <4>3. \A k \in DOMAIN pending : pending[k] # p
                BY <2>1, <3>1, ProxiesShape
            <4>4. \A k \in DOMAIN pending' : \E j \in DOMAIN Proxies : j < index' /\ pending'[k] = Proxies[j]
                <5> TAKE k \in DOMAIN pending'
                <5>1. CASE k \in DOMAIN pending
                    BY <2>1, <3>1, <3>2, <4>2, <5>1
                <5>2. CASE k = Len(pending) + 1
                    BY <2>1, <4>2, <5>2
                <5> QED BY <4>2, <5>1, <5>2
            <4>5. \A j, k \in DOMAIN pending' : j # k => pending'[j] # pending'[k]
                BY <4>2, <4>3 DEF UpgradeInv, PendingOnce
            <4>6. ASSUME NEW q \in ProxyNames
                  PROVE  ours'[q] + Claims(q)' <= IF q \in abandoned' THEN 2 ELSE 1
                <5>1. Posted(q)' <=> Posted(q)
                    BY <2>1 DEF Posted
                <5>2. CASE q = p
                    <6>1. Posted(p) => p \in abandoned
                        BY <2>3 DEF UpgradeInv, Waiting, Posted
                    <6> QED BY <2>1, <4>1, <5>1, <5>2, <6>1 DEF Claims
                <5>3. CASE q # p
                    <6>1. Due(q)' => Due(q)
                        BY <2>1, <4>2, <5>3 DEF Due, Open
                    <6>2. Claims(q)' <= Claims(q) /\ Claims(q) \in Nat /\ Claims(q)' \in Nat
                        BY <5>1, <6>1 DEF Claims
                    <6>3. ours[q] + Claims(q) <= (IF q \in abandoned THEN 2 ELSE 1) /\ ours[q] \in Nat
                        BY DEF UpgradeInv, UpgradeTypeOK, SwitchesCounted
                    <6> QED BY <2>1, <6>2, <6>3
                <5> QED BY <5>2, <5>3
            <4> QED BY <4>4, <4>5, <4>6 DEF PendingOnce, SwitchesCounted
        <3> QED BY <2>1, <3>3, <3>4
    <2> QED BY <2>1, <2>2, <2>3, <2>4, <2>5, BuildsStay, WaitsForNothing DEF UpgradeInv
<1> QED BY <1>1, <1>2

(* Between the loops, and when a new run begins, nothing is posted.        *)
LEMMA BetweenUpgradeInv ==
    ASSUME UpgradeInv, Compared \/ Answered \/ Deployed \/ RunAgain
    PROVE  UpgradeInv'
<1>1. /\ UNCHANGED <<awaiting, inPool, abandoned>>
      /\ UNCHANGED <<contracts, implementation, ours>>
    BY DEF Compared, Answered, Deployed, RunAgain, proxyVars
<1>2. ~awaiting
    BY AwaitsInLoops DEF Compared, Answered, Deployed, RunAgain
<1>3. CASE RunAgain
    <2>1. phase' = "scan" /\ index' = 1 /\ pending' = <<>> /\ newAddress' = <<>>
        BY <1>3 DEF RunAgain
    <2>2. DOMAIN pending' = {} /\ DOMAIN newAddress' = {}
        BY <2>1
    <2>3. UpgradeTypeOK'
        <3>1. index' \in Nat \ {0} /\ pending' \in Seq(ProxyNames) /\ newAddress' \in Seq(Nat)
            BY <2>1
        <3> QED BY <1>1, <2>1, <3>1 DEF UpgradeInv, UpgradeTypeOK, Phases
    <2>4. PendingOnce' /\ BuildDeployed'
        BY <2>1, <2>2 DEF PendingOnce, BuildDeployed
    <2>5. \A p \in ProxyNames : ~Due(p)' /\ (Posted(p)' <=> Posted(p))
        BY <1>1, <2>2 DEF Due, Posted
    <2>6. SwitchesCounted'
        BY <1>1, <2>5, NoMoreClaims DEF UpgradeInv, UpgradeTypeOK
    <2> QED BY <1>1, <1>2, <2>3, <2>4, <2>6, BuildsStay, WaitsForNothing DEF UpgradeInv
<1>4. CASE Compared \/ Answered \/ Deployed
    <2>1. /\ UNCHANGED <<pending, newAddress>> /\ phase # "switch" /\ phase # "special" /\ phase # "ended"
          /\ phase' \in {"ask", "deploy", "confirm", "switch", "ended"}
          /\ index' = index \/ index' = 1
          /\ phase' = "switch" => index' = 1
        BY <1>4 DEF Compared, Answered, Deployed
    <2>2. UpgradeTypeOK'
        BY <1>1, <2>1 DEF UpgradeInv, UpgradeTypeOK, Phases
    <2>3. PendingOnce'
        BY <2>1 DEF UpgradeInv, PendingOnce
    <2>4. \A k \in DOMAIN pending : k >= 1
        BY DEF UpgradeInv, UpgradeTypeOK
    <2>5. \A p \in ProxyNames : (Due(p)' => Due(p)) /\ (Posted(p)' <=> Posted(p))
        BY <1>1, <1>2, <2>1, <2>4 DEF Due, Posted, Open
    <2>6. SwitchesCounted'
        BY <1>1, <2>5, NoMoreClaims DEF UpgradeInv, UpgradeTypeOK
    <2>7. BuildDeployed'
        <3>1. \A k \in DOMAIN newAddress' : IsBuild(newAddress[k])'
            BY <1>1, <2>1 DEF UpgradeInv, BuildDeployed, IsBuild, UpToDate
        <3>2. CASE Compared
            BY <1>1, <2>1, <3>1, <3>2 DEF UpgradeInv, BuildDeployed, Compared
        <3>3. CASE Answered
            BY <1>1, <2>1, <3>1, <3>3 DEF UpgradeInv, UpgradeTypeOK, BuildDeployed, Answered
        <3>4. CASE Deployed
            BY <1>1, <2>1, <3>1, <3>4 DEF UpgradeInv, UpgradeTypeOK, BuildDeployed, Deployed
        <3> QED BY <1>4, <3>2, <3>3, <3>4
    <2> QED BY <1>1, <1>2, <2>2, <2>3, <2>6, <2>7, BuildsStay, WaitsForNothing DEF UpgradeInv
<1> QED BY <1>3, <1>4

(* A transaction is posted, in place of any other.  The claim of an        *)
(* upgradeTo passes from the list to the pool.                             *)
LEMMA PostUpgradeInv ==
    ASSUME UpgradeInv, Deploy \/ UpgradeTo \/ Initialize
    PROVE  UpgradeInv'
<1>1. CASE Ends
    BY <1>1, EndsUpgradeInv
<1>2. CASE /\ phase = "special" /\ ~awaiting /\ phase' = "switch" /\ index' = index + 1
           /\ UNCHANGED <<pending, newAddress, awaiting, inPool, abandoned, proxyVars>>
    <2>1. UNCHANGED <<contracts, implementation, ours>>
        BY <1>2 DEF proxyVars
    <2>2. UpgradeTypeOK'
        BY <1>2, <2>1 DEF UpgradeInv, UpgradeTypeOK, Phases
    <2>3. PendingOnce' /\ BuildDeployed'
        BY <1>2, <2>1 DEF UpgradeInv, PendingOnce, BuildDeployed, IsBuild, UpToDate
    <2>4. \A p \in ProxyNames : (Due(p)' => Due(p)) /\ (Posted(p)' <=> Posted(p))
        BY <1>2 DEF Due, Posted, Open
    <2>5. SwitchesCounted'
        BY <1>2, <2>1, <2>4, NoMoreClaims DEF UpgradeInv, UpgradeTypeOK
    <2> QED BY <1>2, <2>1, <2>2, <2>3, <2>5, BuildsStay, WaitsForNothing DEF UpgradeInv
<1>3. ASSUME NEW tx \in Transactions,
             ~awaiting, inPool' = tx, awaiting' = TRUE,
             UNCHANGED <<phase, index, pending, newAddress, abandoned, proxyVars>>,
             \/ phase = "deploy" /\ tx.kind = "deploy" /\ index <= Len(pending)
             \/ phase = "special" /\ tx.kind = "initialize"
             \/ /\ phase = "switch" /\ tx.kind = "upgrade" /\ index <= Len(pending)
                /\ tx.proxy = pending[index] /\ tx.address = newAddress[index]
      PROVE  UpgradeInv'
    <2>1. UNCHANGED <<contracts, implementation, ours>>
        BY <1>3 DEF proxyVars
    <2>2. UpgradeTypeOK'
        BY <1>3, <2>1 DEF UpgradeInv, UpgradeTypeOK
    <2>3. PendingOnce' /\ BuildDeployed'
        BY <1>3, <2>1 DEF UpgradeInv, PendingOnce, BuildDeployed, IsBuild, UpToDate
    <2>4. /\ index \in Nat \ {0} /\ pending \in Seq(ProxyNames) /\ newAddress \in Seq(Nat)
          /\ \A k \in DOMAIN pending : k \in Nat
        <3>1. /\ index \in Nat \ {0} /\ pending \in Seq(ProxyNames)
              /\ newAddress \in Seq(Nat)
            BY DEF UpgradeInv, UpgradeTypeOK
        <3>2. \A k \in DOMAIN pending : k \in Nat
            BY <3>1
        <3> QED BY <3>1, <3>2
    <2>5. ASSUME phase = "switch"
          PROVE  /\ index \in DOMAIN pending /\ pending[index] \in ProxyNames
                 /\ IsBuild(newAddress[index]) /\ Due(pending[index]) /\ ~Due(pending[index])'
        <3>1. index \in DOMAIN pending /\ pending[index] \in ProxyNames /\ index \in DOMAIN newAddress
            BY <1>3, <2>4, <2>5 DEF UpgradeInv, BuildDeployed
        <3>2. Open = index /\ Open' = index + 1
            BY <1>3, <2>5 DEF Open
        <3>3. Due(pending[index])
            BY <2>4, <2>5, <3>1, <3>2 DEF Due
        <3>4. ASSUME NEW k \in DOMAIN pending, k >= index + 1 PROVE pending[k] # pending[index]
            BY <2>4, <3>1, <3>4 DEF UpgradeInv, PendingOnce
        <3>5. ~Due(pending[index])'
            BY <1>3, <3>2, <3>4 DEF Due
        <3> QED BY <3>1, <3>3, <3>5 DEF UpgradeInv, BuildDeployed
    <2>6. Waiting'
        <3>1. ASSUME tx.kind = "upgrade" PROVE tx.proxy \in ProxyNames /\ IsBuild(tx.address)
            BY <1>3, <2>5, <3>1
        <3> QED BY <1>3, <2>1, <3>1 DEF Waiting, IsBuild, UpToDate, Build
    <2>7. ASSUME NEW q \in ProxyNames PROVE Due(q)' => Due(q)
        BY <1>3, <2>4 DEF Due, Open
    <2>8. ASSUME NEW q \in ProxyNames PROVE Claims(q)' <= Claims(q) /\ Claims(q) \in Nat /\ Claims(q)' \in Nat
        <3>1. ASSUME Posted(q)' PROVE Due(q) /\ ~Due(q)'
            BY <1>3, <2>5, <3>1 DEF Posted
        <3> QED BY <2>7, <3>1 DEF Claims
    <2>9. ASSUME NEW q \in ProxyNames PROVE ours[q] + Claims(q) <= (IF q \in abandoned THEN 2 ELSE 1) /\ ours[q] \in Nat
        BY DEF UpgradeInv, UpgradeTypeOK, SwitchesCounted
    <2>10. SwitchesCounted'
        BY <1>3, <2>1, <2>8, <2>9 DEF SwitchesCounted
    <2> QED BY <2>1, <2>2, <2>3, <2>6, <2>10, BuildsStay DEF UpgradeInv
<1>4. CASE Deploy
    <2>1. Transaction("deploy", "none", 0) \in Transactions
        BY DEF Transaction, Transactions, Kinds
    <2> QED BY <1>1, <1>3, <1>4, <2>1 DEF Deploy, Post, Transaction
<1>5. CASE UpgradeTo
    <2>1. ~awaiting /\ phase = "switch" /\ index <= Len(pending) /\ Post(Transaction("upgrade", pending[index], newAddress[index]))
        BY <1>5 DEF UpgradeTo
    <2>2. index \in DOMAIN pending /\ index \in DOMAIN newAddress
        BY <2>1 DEF UpgradeInv, UpgradeTypeOK, BuildDeployed
    <2>3. pending[index] \in ProxyNames /\ newAddress[index] \in Nat
        <3>1. pending \in Seq(ProxyNames) /\ newAddress \in Seq(Nat)
            BY DEF UpgradeInv, UpgradeTypeOK
        <3> QED BY <2>2, <3>1
    <2>4. Transaction("upgrade", pending[index], newAddress[index])
            \in Transactions
        BY <2>3 DEF Transaction, Transactions, Kinds
    <2> QED BY <1>1, <1>3, <2>1, <2>4 DEF Post, Transaction
<1>6. CASE Initialize
    <2>1. Transaction("initialize", "none", 0) \in Transactions
        BY DEF Transaction, Transactions, Kinds
    <2> QED BY <1>1, <1>2, <1>3, <1>6, <2>1 DEF Initialize, Post, Transaction
<1> QED BY <1>4, <1>5, <1>6

(* What is deployed is the build; the contracts that are there stay.       *)
LEMMA DeployUpgradeInv ==
    ASSUME UpgradeInv, DeployMined
    PROVE  UpgradeInv'
<1> DEFINE new == [body |-> "new", tail |-> Len(contracts) + 1]
<1>1. /\ inPool.kind = "deploy" /\ inPool' = NoTx /\ awaiting' = FALSE
      /\ contracts' = Append(contracts, new)
      /\ UNCHANGED <<phase, pending, implementation, ours, abandoned>>
      /\ awaiting => newAddress' = Append(newAddress, Len(contracts) + 1) /\ index' = index + 1
      /\ ~awaiting => newAddress' = newAddress /\ index' = index
    BY DEF DeployMined, Build
<1>2. /\ contracts \in Seq([body : {"old", "new"}, tail : Nat]) /\ Len(contracts) >= 2
      /\ newAddress \in Seq(Nat) /\ Len(contracts) + 1 \in Nat /\ index \in Nat \ {0}
      /\ new \in [body : {"old", "new"}, tail : Nat]
    BY DEF UpgradeInv, UpgradeTypeOK
<1>3. /\ contracts' \in Seq([body : {"old", "new"}, tail : Nat])
      /\ Len(contracts') = Len(contracts) + 1
      /\ \A a \in DOMAIN contracts : a \in DOMAIN contracts' /\ contracts'[a] = contracts[a]
      /\ Len(contracts) + 1 \in DOMAIN contracts' /\ contracts'[Len(contracts) + 1] = new
    BY <1>1, <1>2
<1>4. /\ UpToDate(contracts'[Len(contracts) + 1])
      /\ \A a : IsBuild(a) => a \in DOMAIN contracts' /\ UpToDate(contracts'[a])
    BY <1>3 DEF IsBuild, UpToDate, Build
<1>5. /\ newAddress' \in Seq(Nat) /\ index' \in Nat \ {0}
      /\ awaiting => /\ Len(newAddress') = Len(newAddress) + 1
                     /\ \A k \in DOMAIN newAddress' :
                            \/ k \in DOMAIN newAddress /\ newAddress'[k] = newAddress[k]
                            \/ newAddress'[k] = Len(contracts) + 1
    <2>1. PICK c \in Nat : c = Len(contracts) + 1
        BY <1>2
    <2>2. /\ Append(newAddress, c) \in Seq(Nat) /\ Len(Append(newAddress, c)) = Len(newAddress) + 1
          /\ \A k \in DOMAIN Append(newAddress, c) :
                \/ k \in DOMAIN newAddress /\ Append(newAddress, c)[k] = newAddress[k]
                \/ Append(newAddress, c)[k] = c
        BY <1>2
    <2> HIDE DEF new
    <2>3. CASE awaiting
        <3>1. newAddress' = Append(newAddress, Len(contracts) + 1) /\ index' = index + 1
            BY <1>1, <2>3
        <3>2. newAddress' = Append(newAddress, c)
            BY <2>1, <3>1, Zenon
        <3>3. index' \in Nat \ {0}
            BY <1>2, <3>1
        <3> QED BY <2>1, <2>2, <3>2, <3>3
    <2>4. CASE ~awaiting
        BY <1>1, <1>2, <2>4
    <2> QED BY <2>3, <2>4
<1>6. BuildDeployed'
    <2>1. \A k \in DOMAIN newAddress : IsBuild(newAddress[k])
        BY DEF UpgradeInv, BuildDeployed
    <2>2. CASE awaiting
        <3>1. phase = "deploy" /\ index <= Len(pending)
            BY <1>1, <2>2 DEF UpgradeInv, Waiting
        <3>2. /\ Len(newAddress') = Len(newAddress) + 1
              /\ \A k \in DOMAIN newAddress' :
                    \/ k \in DOMAIN newAddress /\ newAddress'[k] = newAddress[k]
                    \/ newAddress'[k] = Len(contracts) + 1
            BY <1>5, <2>2
        <3>3. \A k \in DOMAIN newAddress' :
                newAddress'[k] \in DOMAIN contracts' /\ UpToDate(contracts'[newAddress'[k]])
            BY <1>3, <1>4, <2>1, <3>2
        <3>4. Len(newAddress') = index' - 1 /\ index' <= Len(pending') + 1
            BY <1>1, <1>2, <2>2, <3>1, <3>2 DEF UpgradeInv, UpgradeTypeOK, BuildDeployed
        <3> QED BY <1>1, <3>1, <3>3, <3>4 DEF BuildDeployed, IsBuild, UpToDate, Build
    <2>3. CASE ~awaiting
        <3>1. \A k \in DOMAIN newAddress' :
                newAddress'[k] \in DOMAIN contracts' /\ UpToDate(contracts'[newAddress'[k]])
            BY <1>1, <1>4, <2>1, <2>3
        <3> QED BY <1>1, <2>3, <3>1 DEF UpgradeInv, BuildDeployed, IsBuild, UpToDate, Build
    <2> QED BY <1>2, <2>2, <2>3 DEF UpgradeInv, UpgradeTypeOK
<1>7. UpgradeTypeOK'
    <2>1. Len(contracts') >= 2 /\ \A q \in ProxyNames : implementation'[q] \in DOMAIN contracts'
        BY <1>1, <1>2, <1>3 DEF UpgradeInv, UpgradeTypeOK
    <2> QED BY <1>1, <1>3, <1>5, <2>1, NoTxIs DEF UpgradeInv, UpgradeTypeOK
<1>8. SwitchedRunBuild'
    BY <1>1, <1>4 DEF UpgradeInv, SwitchedRunBuild, IsBuild, UpToDate, Build
<1>9. PendingOnce'
    <2>1. phase = "scan" => ~awaiting
        BY AwaitsInLoops
    <2> QED BY <1>1, <2>1 DEF UpgradeInv, PendingOnce
<1>10. SwitchesCounted'
    <2>1. awaiting => phase = "deploy"
        BY <1>1 DEF UpgradeInv, Waiting
    <2>2. \A p \in ProxyNames : (Due(p)' => Due(p)) /\ ~Posted(p)'
        BY <1>1, <2>1, NoTxIs DEF Due, Posted, Open
    <2> QED BY <1>1, <2>2, NoMoreClaims DEF UpgradeInv, UpgradeTypeOK
<1>11. Waiting'
    BY <1>1, NoTxIs DEF Waiting
<1> QED BY <1>6, <1>7, <1>8, <1>9, <1>10, <1>11 DEF UpgradeInv

(* An upgradeTo in the pool is a claim of its proxy until it is mined, and *)
(* then a switch; the proxy runs the build from now on.                    *)
LEMMA UpgradeMinedUpgradeInv ==
    ASSUME UpgradeInv, UpgradeMined
    PROVE  UpgradeInv'
<1> DEFINE p == inPool.proxy
           a == inPool.address
<1>1. /\ inPool.kind = "upgrade" /\ inPool' = NoTx /\ awaiting' = FALSE
      /\ implementation' = [implementation EXCEPT ![p] = a]
      /\ ours' = [ours EXCEPT ![p] = ours[p] + 1]
      /\ \/ ~awaiting /\ UNCHANGED <<phase, index>>
         \/ awaiting /\ phase' = "special" /\ UNCHANGED index
         \/ awaiting /\ index' = index + 1 /\ UNCHANGED phase
      /\ UNCHANGED <<pending, newAddress, contracts, abandoned>>
    BY Zenon DEF UpgradeMined
<1>2. /\ p \in ProxyNames /\ IsBuild(a) /\ a \in Nat /\ index \in Nat \ {0} /\ phase \in Phases
      /\ awaiting => phase = "switch" /\ index <= Len(pending)
    <2>1. inPool \in Transactions /\ index \in Nat \ {0} /\ phase \in Phases
        BY DEF UpgradeInv, UpgradeTypeOK
    <2>2. inPool.address \in Nat
        BY <2>1 DEF Transactions
    <2> QED BY <1>1, <2>1, <2>2 DEF UpgradeInv, Waiting
<1>3. implementation \in [ProxyNames -> Nat] /\ ours \in [ProxyNames -> Nat]
    BY DEF UpgradeInv, UpgradeTypeOK
<1>4. /\ implementation' \in [ProxyNames -> Nat] /\ ours' \in [ProxyNames -> Nat]
      /\ implementation'[p] = a /\ ours'[p] = ours[p] + 1
      /\ \A q \in ProxyNames : q # p => implementation'[q] = implementation[q] /\ ours'[q] = ours[q]
    <2> HIDE DEF p, a
    <2>1. ours[p] \in Nat
        BY <1>2, <1>3
    <2> QED BY <1>1, <1>2, <1>3, <2>1
<1>5. UpgradeTypeOK'
    <2>1. phase' \in Phases /\ index' \in Nat \ {0}
        BY <1>1, <1>2 DEF Phases
    <2>2. ASSUME NEW q \in ProxyNames PROVE implementation'[q] \in DOMAIN contracts
        BY <1>2, <1>4 DEF UpgradeInv, UpgradeTypeOK, IsBuild
    <2> QED BY <1>1, <1>4, <2>1, <2>2, NoTxIs DEF UpgradeInv, UpgradeTypeOK
<1>6. SwitchedRunBuild'
    <2>1. ASSUME NEW q \in ProxyNames, ours'[q] # 0
          PROVE  implementation'[q] \in DOMAIN contracts /\ UpToDate(contracts[implementation'[q]])
        BY <1>2, <1>4, <2>1 DEF UpgradeInv, SwitchedRunBuild, IsBuild
    <2> QED BY <1>1, <2>1 DEF SwitchedRunBuild, IsBuild, UpToDate, Build
<1>7. PendingOnce'
    BY <1>1, <1>2 DEF UpgradeInv, PendingOnce
<1>8. BuildDeployed'
    BY <1>1, <1>2 DEF UpgradeInv, BuildDeployed, IsBuild, UpToDate, Build
<1>9. Waiting'
    BY <1>1, NoTxIs DEF Waiting
<1>10. SwitchesCounted'
    <2>1. ASSUME NEW q \in ProxyNames PROVE (Due(q)' => Due(q)) /\ ~Posted(q)' /\ (Posted(q) <=> q = p)
        BY <1>1, <1>2, NoTxIs DEF Due, Posted, Open
    <2>2. ASSUME NEW q \in ProxyNames
          PROVE  ours'[q] + Claims(q)' <= IF q \in abandoned' THEN 2 ELSE 1
        <3>1. ours[q] + Claims(q) <= (IF q \in abandoned THEN 2 ELSE 1) /\ ours[q] \in Nat
            BY DEF UpgradeInv, UpgradeTypeOK, SwitchesCounted
        <3>2. Claims(q) = (IF Due(q) THEN 1 ELSE 0) + (IF q = p THEN 1 ELSE 0)
            BY <2>1 DEF Claims
        <3>3. Claims(q)' = IF Due(q)' THEN 1 ELSE 0
            BY <2>1 DEF Claims
        <3>4. ours'[q] = IF q = p THEN ours[q] + 1 ELSE ours[q]
            BY <1>4
        <3> HIDE DEF p
        <3> QED BY <1>1, <2>1, <3>1, <3>2, <3>3, <3>4
    <2> QED BY <2>2 DEF SwitchesCounted
<1> QED BY <1>5, <1>6, <1>7, <1>8, <1>9, <1>10 DEF UpgradeInv

(* initialize is mined, or a transaction is not.                           *)
LEMMA RestUpgradeInv ==
    ASSUME UpgradeInv, InitializeMined \/ NotMined
    PROVE  UpgradeInv'
<1>1. /\ inPool' = NoTx /\ awaiting' = FALSE
      /\ UNCHANGED <<pending, newAddress, abandoned, contracts, implementation, ours>>
      /\ \/ phase' = "ended" /\ index' = index
         \/ ~awaiting /\ UNCHANGED <<phase, index>>
         \/ phase = "special" /\ phase' = "switch" /\ index' = index + 1
    BY DEF InitializeMined, NotMined, proxyVars, UpgradeInv, Waiting
<1>2. UpgradeTypeOK'
    <2>1. index \in Nat \ {0} /\ phase \in Phases
        BY DEF UpgradeInv, UpgradeTypeOK
    <2>2. index' \in Nat \ {0} /\ phase' \in Phases
        BY <1>1, <2>1 DEF Phases
    <2> QED BY <1>1, <2>2, NoTxIs DEF UpgradeInv, UpgradeTypeOK
<1>3. PendingOnce'
    BY <1>1 DEF UpgradeInv, PendingOnce
<1>4. BuildDeployed'
    BY <1>1 DEF UpgradeInv, BuildDeployed, IsBuild, UpToDate, Build
<1>5. Waiting'
    BY <1>1, NoTxIs DEF Waiting
<1>6. \A p \in ProxyNames : (Due(p)' => Due(p)) /\ ~Posted(p)'
    BY <1>1, NoTxIs DEF Due, Posted, Open
<1>7. SwitchesCounted'
    BY <1>1, <1>6, NoMoreClaims DEF UpgradeInv, UpgradeTypeOK
<1> QED BY <1>1, <1>2, <1>3, <1>4, <1>5, <1>7, BuildsStay DEF UpgradeInv

(* Another admin begins the count of a proxy anew.                         *)
LEMMA OtherAdminUpgradeInv ==
    ASSUME UpgradeInv, OtherAdmin
    PROVE  UpgradeInv'
<1>1. UNCHANGED <<phase, index, pending, newAddress, awaiting, inPool, abandoned, contracts>>
    BY DEF OtherAdmin, scriptVars
<1>2. PICK p \in ProxyNames, a \in {1, 2} :
        /\ implementation' = [implementation EXCEPT ![p] = a]
        /\ ours' = [ours EXCEPT ![p] = 0]
    BY DEF OtherAdmin
<1>3. /\ a \in DOMAIN contracts /\ a \in Nat
      /\ implementation \in [ProxyNames -> Nat] /\ ours \in [ProxyNames -> Nat]
    BY DEF UpgradeInv, UpgradeTypeOK
<1>4. /\ implementation' \in [ProxyNames -> Nat] /\ ours' \in [ProxyNames -> Nat]
      /\ implementation'[p] = a /\ ours'[p] = 0
      /\ \A q \in ProxyNames : q # p => implementation'[q] = implementation[q] /\ ours'[q] = ours[q]
    BY <1>2, <1>3
<1>5. UpgradeTypeOK'
    BY <1>1, <1>3, <1>4 DEF UpgradeInv, UpgradeTypeOK
<1>6. SwitchedRunBuild'
    <2>1. ASSUME NEW q \in ProxyNames, ours'[q] # 0
          PROVE  implementation'[q] \in DOMAIN contracts /\ UpToDate(contracts[implementation'[q]])
        BY <1>4, <2>1 DEF UpgradeInv, SwitchedRunBuild, IsBuild
    <2> QED BY <1>1, <2>1 DEF SwitchedRunBuild, IsBuild, UpToDate, Build
<1>7. PendingOnce' /\ BuildDeployed' /\ Waiting'
    BY <1>1 DEF UpgradeInv, PendingOnce, BuildDeployed, Waiting, IsBuild, UpToDate, Build
<1>8. ASSUME NEW q \in ProxyNames
      PROVE  ours'[q] \in Nat /\ ours'[q] <= ours[q] /\ (Due(q)' => Due(q)) /\ (Posted(q)' => Posted(q))
    <2>1. Due(q)' => Due(q)
        BY <1>1 DEF Due, Open
    <2>2. Posted(q)' => Posted(q)
        BY <1>1 DEF Posted
    <2>3. ours'[q] \in Nat /\ ours[q] \in Nat /\ ours'[q] <= ours[q]
        BY <1>3, <1>4
    <2> QED BY <2>1, <2>2, <2>3
<1>9. SwitchesCounted'
    BY <1>1, <1>8, NoMoreClaims DEF UpgradeInv
<1> QED BY <1>5, <1>6, <1>7, <1>9 DEF UpgradeInv

LEMMA NextUpgradeInv ==
    ASSUME UpgradeInv, [UpgradeNext]_upgradeVars
    PROVE  UpgradeInv'
<1>1. CASE CompareProxy
    BY <1>1, CompareUpgradeInv
<1>2. CASE Compared \/ Answered \/ Deployed \/ RunAgain
    BY <1>2, BetweenUpgradeInv
<1>3. CASE Deploy \/ UpgradeTo \/ Initialize
    BY <1>3, PostUpgradeInv
<1>4. CASE Upgraded \/ UpgradeCrash
    BY <1>4, EndsUpgradeInv DEF Upgraded, UpgradeCrash
<1>5. CASE DeployMined
    BY <1>5, DeployUpgradeInv
<1>6. CASE UpgradeMined
    BY <1>6, UpgradeMinedUpgradeInv
<1>7. CASE InitializeMined \/ NotMined
    BY <1>7, RestUpgradeInv
<1>8. CASE OtherAdmin
    BY <1>8, OtherAdminUpgradeInv
<1>9. CASE UNCHANGED upgradeVars
    <2>1. /\ UNCHANGED <<phase, index, pending, newAddress, awaiting, inPool, abandoned>>
          /\ UNCHANGED <<contracts, implementation, ours>>
        BY <1>9 DEF upgradeVars, scriptVars, proxyVars
    <2>2. UpgradeTypeOK' /\ PendingOnce' /\ Waiting' /\ BuildDeployed'
        BY <2>1 DEF UpgradeInv, UpgradeTypeOK, PendingOnce, Waiting, BuildDeployed, IsBuild, UpToDate, Build
    <2>3. \A p \in ProxyNames : (Due(p)' <=> Due(p)) /\ (Posted(p)' <=> Posted(p))
        BY <2>1 DEF Due, Posted, Open
    <2>4. SwitchesCounted'
        BY <2>1, <2>3, NoMoreClaims DEF UpgradeInv, UpgradeTypeOK
    <2> QED BY <2>1, <2>2, <2>4, BuildsStay DEF UpgradeInv
<1> QED BY <1>1, <1>2, <1>3, <1>4, <1>5, <1>6, <1>7, <1>8, <1>9 DEF UpgradeNext

-----------------------------------------------------------------------------
(* The continuous sender.  currentPoolSize covers what the node has in its *)
(* pool, for any limit and any number of turns and errors.  It is the      *)
(* number of calls between the signature and the receipt; a transaction in *)
(* the pool belongs to one of them, because a receipt is seen only for     *)
(* what is mined and nothing is in the pool and in a block.                *)

Stages == {"signing", "posted", "pooled", "error", "done"}
Call == [nonce : Nat, at : Stages]
Tx == [from : {Sender}, nonce : Nat, id : {0} \X Nat]

SenderTypeOK ==
    /\ currentNonce \in Nat
    /\ sends \in Seq(Call)
    /\ pool \subseteq Tx
    /\ blocks \in Seq(SUBSET Tx)

Counted == {i \in DOMAIN sends : sends[i].at \in {"posted", "pooled", "error"}}
Sent == {i \in DOMAIN sends : sends[i].at \in {"pooled", "error", "done"}}

PoolIsSent ==
    /\ pool \cap Mined = {}
    /\ \A t \in pool \cup Mined : \E i \in Sent : t = TxOf(i)
    /\ \A i \in DOMAIN sends : sends[i].at = "done" => TxOf(i) \in Mined

SenderInv == SenderTypeOK /\ poolSize = Cardinality(Counted) /\ PoolIsSent

(* Calls are numbered from 1: sets of them are finite.                     *)
LEMMA CallsFinite ==
    ASSUME SenderTypeOK, NEW S, S \subseteq DOMAIN sends
    PROVE  IsFiniteSet(S) /\ Cardinality(S) \in Nat
<1>1. DOMAIN sends = 1 .. Len(sends) /\ Len(sends) \in Nat
    BY DEF SenderTypeOK
<1>2. IsFiniteSet(1 .. Len(sends))
    BY <1>1, FS_Interval
<1> QED BY <1>1, <1>2, FS_Subset, FS_CardinalityType

(* Transactions of different calls differ.                                 *)
LEMMA TxOfCall ==
    ASSUME NEW i \in DOMAIN sends, NEW j \in DOMAIN sends, TxOf(i) = TxOf(j)
    PROVE  i = j
BY DEF TxOf

(* The count of the network is a number.                                   *)
LEMMA NonceIsNumber ==
    ASSUME SenderInv
    PROVE  TransactionCount(Sender) \in Nat
<1> DEFINE T == {t \in Mined : t.from = Sender}
           Txs == {TxOf(i) : i \in DOMAIN sends}
<1>1. IsFiniteSet(DOMAIN sends)
    BY CallsFinite DEF SenderInv
<1>2. IsFiniteSet(Txs)
    <2> DEFINE f == [i \in DOMAIN sends |-> TxOf(i)]
    <2>1. f \in Surjection(DOMAIN sends, Txs)
        BY DEF Surjection
    <2> QED BY <1>1, <2>1, FS_Surjection
<1>3. T \subseteq Txs
    BY DEF SenderInv, PoolIsSent, Sent
<1> HIDE DEF T, Txs
<1>4. Cardinality(T) \in Nat
    BY <1>2, <1>3, FS_Subset, FS_CardinalityType
<1> QED BY <1>4 DEF T, TransactionCount

LEMMA InitSenderInv == NodeInit /\ SenderInit => SenderInv
<1> SUFFICES ASSUME NodeInit, SenderInit PROVE SenderInv
    OBVIOUS
<1>1. DOMAIN sends = {} /\ Counted = {} /\ Mined = {} /\ pool = {}
    BY DEF NodeInit, SenderInit, Counted, Mined, Range
<1>2. SenderTypeOK
    BY DEF NodeInit, SenderInit, SenderTypeOK
<1>3. poolSize = Cardinality(Counted)
    BY <1>1, FS_EmptySet DEF SenderInit
<1> QED BY <1>1, <1>2, <1>3 DEF SenderInv, PoolIsSent

(* A call moves on and the node stays as it is.                            *)
LEMMA MovesTyped ==
    ASSUME SenderTypeOK, NEW i \in DOMAIN sends, NEW from, NEW to \in Stages, Moves(i, from, to)
    PROVE  /\ sends' \in Seq(Call) /\ DOMAIN sends' = DOMAIN sends
           /\ sends[i].at = from /\ sends'[i].at = to
           /\ \A j \in DOMAIN sends : j # i => sends'[j] = sends[j]
           /\ \A j \in DOMAIN sends : TxOf(j)' = TxOf(j)
           /\ currentNonce' = currentNonce
<1>1. /\ sends \in Seq(Call) /\ sends[i].at = from
      /\ sends' = [sends EXCEPT ![i].at = to] /\ currentNonce' = currentNonce
    BY DEF SenderTypeOK, Moves
<1> DEFINE r == [sends[i] EXCEPT !.at = to]
<1>2. sends[i] \in Call
    BY <1>1
<1>3. r \in Call /\ r.at = to /\ r.nonce = sends[i].nonce
    BY <1>2 DEF Call
<1>4. sends' = [sends EXCEPT ![i] = r]
    BY <1>1
<1> HIDE DEF r
<1>5. sends' \in Seq(Call) /\ DOMAIN sends' = DOMAIN sends
    BY <1>1, <1>3, <1>4
<1>6. /\ sends'[i] = r
      /\ \A j \in DOMAIN sends : j # i => sends'[j] = sends[j]
    BY <1>1, <1>4
<1>7. \A j \in DOMAIN sends : TxOf(j)' = TxOf(j)
    BY <1>3, <1>6 DEF TxOf
<1> QED BY <1>1, <1>3, <1>5, <1>6, <1>7

(* What the node has stays what the calls have sent.                       *)
LEMMA KeepsPoolIsSent ==
    ASSUME PoolIsSent, UNCHANGED <<pool, blocks>>, Sent \subseteq Sent',
           \A i \in DOMAIN sends : TxOf(i)' = TxOf(i),
           \A i \in DOMAIN sends' : sends'[i].at = "done" => i \in DOMAIN sends /\ TxOf(i) \in Mined
    PROVE  PoolIsSent'
<1>1. Mined' = Mined /\ pool' = pool
    BY DEF Mined
<1>2. \A t \in pool \cup Mined : \E i \in Sent' : t = TxOf(i)'
    <2>1. \A i \in Sent : i \in DOMAIN sends
        BY DEF Sent
    <2>2. \A t \in pool \cup Mined : \E i \in Sent : t = TxOf(i)
        BY DEF PoolIsSent
    <2> QED BY <2>1, <2>2
<1>3. \A i \in DOMAIN sends' : sends'[i].at = "done" => TxOf(i)' \in Mined'
    BY <1>1
<1> QED BY <1>1, <1>2, <1>3 DEF PoolIsSent

(* A turn adds a call that is not counted yet.                             *)
LEMMA TurnSenderInv ==
    ASSUME SenderInv, Turn
    PROVE  SenderInv'
<1> DEFINE call == [nonce |-> currentNonce, at |-> "signing"]
<1>1. /\ sends \in Seq(Call) /\ currentNonce \in Nat
      /\ sends' = Append(sends, call) /\ currentNonce' = currentNonce + 1
      /\ call \in Call /\ call.at = "signing"
      /\ UNCHANGED <<pool, blocks, poolSize>>
    BY DEF SenderInv, SenderTypeOK, Turn, nodeVars, Stages, Call
<1>2. SenderTypeOK'
    BY <1>1 DEF SenderInv, SenderTypeOK
<1>3. /\ DOMAIN sends' = DOMAIN sends \cup {Len(sends) + 1}
      /\ \A i \in DOMAIN sends : sends'[i] = sends[i]
      /\ sends'[Len(sends) + 1].at = "signing"
    BY <1>1
<1>4. Counted' = Counted
    BY <1>3 DEF Counted
<1>5. Sent' = Sent /\ \A i \in DOMAIN sends : TxOf(i)' = TxOf(i)
    BY <1>3 DEF Sent, TxOf
<1>6. PoolIsSent'
    <2>1. \A i \in DOMAIN sends' : sends'[i].at = "done" => i \in DOMAIN sends /\ TxOf(i) \in Mined
        BY <1>3 DEF SenderInv, PoolIsSent
    <2> QED BY <1>1, <1>5, <2>1, KeepsPoolIsSent DEF SenderInv
<1> QED BY <1>1, <1>2, <1>4, <1>6 DEF SenderInv

(* sendTx counts when the signature is there.                              *)
LEMMA SignedSenderInv ==
    ASSUME SenderInv, NEW i \in DOMAIN sends, Signed(i)
    PROVE  SenderInv'
<1>1. Moves(i, "signing", "posted") /\ poolSize' = poolSize + 1 /\ UNCHANGED <<pool, blocks>>
    BY DEF Signed, nodeVars
<1>2. /\ sends' \in Seq(Call) /\ DOMAIN sends' = DOMAIN sends
      /\ sends[i].at = "signing" /\ sends'[i].at = "posted"
      /\ \A j \in DOMAIN sends : j # i => sends'[j] = sends[j]
      /\ \A j \in DOMAIN sends : TxOf(j)' = TxOf(j)
      /\ currentNonce' = currentNonce
    BY <1>1, MovesTyped DEF SenderInv, Stages
<1>3. SenderTypeOK'
    BY <1>1, <1>2 DEF SenderInv, SenderTypeOK
<1>4. Counted' = Counted \cup {i} /\ i \notin Counted
    BY <1>2 DEF Counted
<1>5. poolSize' = Cardinality(Counted')
    <2>1. IsFiniteSet(Counted) /\ Cardinality(Counted) \in Nat
        BY CallsFinite DEF Counted, SenderInv
    <2>2. Cardinality(Counted \cup {i}) = Cardinality(Counted) + 1
        BY <1>4, <2>1, FS_AddElement
    <2> QED BY <1>1, <1>4, <2>2 DEF SenderInv
<1>6. Sent' = Sent
    BY <1>2 DEF Sent
<1>7. PoolIsSent'
    <2>1. \A j \in DOMAIN sends' : sends'[j].at = "done" => j \in DOMAIN sends /\ TxOf(j) \in Mined
        BY <1>1, <1>2 DEF SenderInv, PoolIsSent
    <2> QED BY <1>1, <1>2, <1>6, <2>1, KeepsPoolIsSent DEF SenderInv
<1> QED BY <1>3, <1>5, <1>7 DEF SenderInv

(* The node takes the transaction of the call; it was in no block, since   *)
(* what is there belongs to calls that went further.                       *)
LEMMA PooledSenderInv ==
    ASSUME SenderInv, NEW i \in DOMAIN sends, Pooled(i)
    PROVE  SenderInv'
<1>1. /\ Moves(i, "posted", "pooled") /\ UNCHANGED <<poolSize, blocks>>
      /\ pool' = pool \cup {TxOf(i)}
    BY DEF Pooled, Import
<1>2. /\ sends' \in Seq(Call) /\ DOMAIN sends' = DOMAIN sends
      /\ sends[i].at = "posted" /\ sends'[i].at = "pooled"
      /\ \A j \in DOMAIN sends : j # i => sends'[j] = sends[j]
      /\ \A j \in DOMAIN sends : TxOf(j)' = TxOf(j)
      /\ currentNonce' = currentNonce
    BY <1>1, MovesTyped DEF SenderInv, Stages
<1>3. TxOf(i) \in Tx
    <2>1. sends \in Seq(Call)
        BY DEF SenderInv, SenderTypeOK
    <2>2. i \in Nat /\ sends[i] \in Call
        BY <2>1
    <2> QED BY <2>2 DEF TxOf, Tx, Call
<1>4. SenderTypeOK'
    BY <1>1, <1>2, <1>3 DEF SenderInv, SenderTypeOK
<1>5. Counted' = Counted
    BY <1>2 DEF Counted
<1>6. Sent' = Sent \cup {i} /\ i \notin Sent
    BY <1>2 DEF Sent
<1>7. TxOf(i) \notin Mined
    <2> SUFFICES ASSUME TxOf(i) \in Mined PROVE FALSE
        OBVIOUS
    <2>1. PICK j \in Sent : TxOf(i) = TxOf(j)
        BY DEF SenderInv, PoolIsSent
    <2> QED BY <1>6, <2>1, TxOfCall DEF Sent
<1>8. Mined' = Mined
    BY <1>1 DEF Mined
<1>9. PoolIsSent'
    <2>1. pool' \cap Mined' = {}
        BY <1>1, <1>7, <1>8 DEF SenderInv, PoolIsSent
    <2>2. \A t \in pool' \cup Mined' : \E j \in Sent' : t = TxOf(j)'
        <3>1. \A j \in Sent' : TxOf(j)' = TxOf(j)
            BY <1>2, <1>6 DEF Sent
        <3>2. \A t \in pool \cup Mined : \E j \in Sent : t = TxOf(j)
            BY DEF SenderInv, PoolIsSent
        <3> QED BY <1>1, <1>6, <1>8, <3>1, <3>2
    <2>3. \A j \in DOMAIN sends' : sends'[j].at = "done" => TxOf(j)' \in Mined'
        BY <1>2, <1>8 DEF SenderInv, PoolIsSent
    <2> QED BY <2>1, <2>2, <2>3 DEF PoolIsSent
<1> QED BY <1>1, <1>4, <1>5, <1>9 DEF SenderInv

(* An error leaves the call counted and its transaction where it is.       *)
LEMMA SendFailsSenderInv ==
    ASSUME SenderInv, NEW i \in DOMAIN sends, SendFails(i)
    PROVE  SenderInv'
<1>1. PICK from \in {"posted", "pooled"} : Moves(i, from, "error")
    BY DEF SendFails
<1>2. UNCHANGED <<poolSize, pool, blocks>>
    BY DEF SendFails, nodeVars
<1>3. /\ sends' \in Seq(Call) /\ DOMAIN sends' = DOMAIN sends
      /\ sends[i].at = from /\ sends'[i].at = "error"
      /\ \A j \in DOMAIN sends : j # i => sends'[j] = sends[j]
      /\ \A j \in DOMAIN sends : TxOf(j)' = TxOf(j)
      /\ currentNonce' = currentNonce
    BY <1>1, MovesTyped DEF SenderInv, Stages
<1>4. SenderTypeOK'
    BY <1>2, <1>3 DEF SenderInv, SenderTypeOK
<1>5. Counted' = Counted
    BY <1>3 DEF Counted
<1>6. Sent \subseteq Sent' /\ Sent \subseteq DOMAIN sends
    BY <1>3 DEF Sent
<1>7. PoolIsSent'
    <2>1. \A j \in DOMAIN sends' : sends'[j].at = "done" => j \in DOMAIN sends /\ TxOf(j) \in Mined
        BY <1>3 DEF SenderInv, PoolIsSent
    <2> QED BY <1>2, <1>3, <1>6, <2>1, KeepsPoolIsSent DEF SenderInv
<1> QED BY <1>2, <1>4, <1>5, <1>7 DEF SenderInv

(* A receipt is seen for what is mined; only then the count goes down.     *)
LEMMA ReceiptSenderInv ==
    ASSUME SenderInv, NEW i \in DOMAIN sends, Receipt(i)
    PROVE  SenderInv'
<1>1. /\ Moves(i, "pooled", "done") /\ TxOf(i) \in Mined
      /\ poolSize' = poolSize - 1 /\ UNCHANGED <<pool, blocks>>
    BY DEF Receipt, ReceiptSeen, AfterReceipt, nodeVars
<1>2. /\ sends' \in Seq(Call) /\ DOMAIN sends' = DOMAIN sends
      /\ sends[i].at = "pooled" /\ sends'[i].at = "done"
      /\ \A j \in DOMAIN sends : j # i => sends'[j] = sends[j]
      /\ \A j \in DOMAIN sends : TxOf(j)' = TxOf(j)
      /\ currentNonce' = currentNonce
    BY <1>1, MovesTyped DEF SenderInv, Stages
<1>3. SenderTypeOK'
    BY <1>1, <1>2 DEF SenderInv, SenderTypeOK
<1>4. Counted' = Counted \ {i} /\ i \in Counted
    BY <1>2 DEF Counted
<1>5. poolSize' = Cardinality(Counted')
    <2>1. IsFiniteSet(Counted) /\ Cardinality(Counted) \in Nat
        BY CallsFinite DEF Counted, SenderInv
    <2>2. Cardinality(Counted \ {i}) = Cardinality(Counted) - 1
        BY <1>4, <2>1, FS_RemoveElement
    <2> QED BY <1>1, <1>4, <2>2 DEF SenderInv
<1>6. Sent' = Sent
    BY <1>2 DEF Sent
<1>7. PoolIsSent'
    <2>1. \A j \in DOMAIN sends' : sends'[j].at = "done" => j \in DOMAIN sends /\ TxOf(j) \in Mined
        BY <1>1, <1>2 DEF SenderInv, PoolIsSent
    <2> QED BY <1>1, <1>2, <1>6, <2>1, KeepsPoolIsSent DEF SenderInv
<1> QED BY <1>3, <1>5, <1>7 DEF SenderInv

(* A block takes transactions out of the pool.                             *)
LEMMA MineSenderInv ==
    ASSUME SenderInv, Mine, UNCHANGED senderVars
    PROVE  SenderInv'
<1>1. PICK taken \in SUBSET pool : blocks' = Append(blocks, taken) /\ pool' = pool \ taken
    BY DEF Mine
<1>2. UNCHANGED <<currentNonce, sends, poolSize>>
    BY DEF senderVars
<1>3. blocks \in Seq(SUBSET Tx) /\ taken \in SUBSET Tx
    BY DEF SenderInv, SenderTypeOK
<1>4. SenderTypeOK'
    BY <1>1, <1>2, <1>3 DEF SenderInv, SenderTypeOK
<1>5. Mined' = Mined \cup taken
    <2>1. /\ DOMAIN blocks' = DOMAIN blocks \cup {Len(blocks) + 1}
          /\ \A k \in DOMAIN blocks : blocks'[k] = blocks[k]
          /\ blocks'[Len(blocks) + 1] = taken
        BY <1>1, <1>3
    <2>2. \A t : t \in Mined <=> \E k \in DOMAIN blocks : t \in blocks[k]
        BY DEF Mined, Range
    <2>3. \A t : t \in Mined' <=> \E k \in DOMAIN blocks' : t \in blocks'[k]
        BY DEF Mined, Range
    <2>4. \A t : t \in Mined' <=> t \in Mined \/ t \in taken
        BY <2>1, <2>2, <2>3
    <2> QED BY <2>4
<1>6. PoolIsSent'
    BY <1>1, <1>2, <1>5 DEF SenderInv, PoolIsSent, Sent, TxOf
<1> QED BY <1>2, <1>4, <1>6 DEF SenderInv, Counted

LEMMA NextSenderInv ==
    ASSUME SenderInv, [SenderNext]_<<nodeVars, senderVars>>
    PROVE  SenderInv'
<1>1. CASE StartSending
    BY <1>1, NonceIsNumber
       DEF StartSending, nodeVars, SenderInv, SenderTypeOK, Counted, PoolIsSent, Sent, TxOf, Mined
<1>2. CASE Turn
    BY <1>2, TurnSenderInv
<1>3. CASE \E i \in DOMAIN sends : Signed(i) \/ Pooled(i) \/ Receipt(i)
    BY <1>3, SignedSenderInv, PooledSenderInv, ReceiptSenderInv
<1>4. CASE \E i \in DOMAIN sends : SendFails(i)
    BY <1>4, SendFailsSenderInv
<1>5. CASE Mine /\ UNCHANGED senderVars
    BY <1>5, MineSenderInv
<1>6. CASE Stop \/ UNCHANGED <<nodeVars, senderVars>>
    BY <1>6 DEF Stop, nodeVars, senderVars, SenderInv, SenderTypeOK, Counted, PoolIsSent, Sent, TxOf, Mined
<1> QED BY <1>1, <1>2, <1>3, <1>4, <1>5, <1>6 DEF SenderNext, Sends, SenderFaults

-----------------------------------------------------------------------------
(* FastTxSender.  Nonces are fresh, for any batches, any order of requests *)
(* and any losses.  Within a batch they count up; a new batch starts with  *)
(* the count of the node, and that is above every earlier nonce because    *)
(* all earlier transactions are mined and the mined nonces of an account   *)
(* are the first ones without a gap.                                       *)

FastTx == [from : Accounts, nonce : Nat, id : Nat \X Nat]
RequestState == {"unsent", "posted", "repeated", "taken", "sent", "resting", "dropped"}

FastTypeOK ==
    /\ batch \in DOMAIN Batches
    /\ txs \in [DOMAIN Batches -> Seq(FastTx)]
    /\ request \in [DOMAIN Batches -> Seq(RequestState)]
    /\ \A b \in DOMAIN Batches : Len(request[b]) = Len(txs[b])
    /\ pool \subseteq FastTx /\ IsFiniteSet(pool)
    /\ blocks \in Seq(SUBSET FastTx)
    /\ stage \in {"send", "pause", "scan"} => scanned \in Nat

(* Created before: in an earlier batch, or earlier in the same one.        *)
Earlier(b, i, c, j) == b < c \/ (b = c /\ i < j)

NoncesCountUp ==
    \A b, c \in DOMAIN Batches : \A i \in DOMAIN txs[b], j \in DOMAIN txs[c] :
        Earlier(b, i, c, j) /\ txs[b][i].from = txs[c][j].from
            => txs[b][i].nonce < txs[c][j].nonce

EarlierMined ==
    /\ \A b \in DOMAIN Batches : b < batch => \A i \in DOMAIN txs[b] : txs[b][i] \in Mined
    /\ \A b \in DOMAIN Batches : b > batch => txs[b] = <<>>

(* A wrong or missing hash is that of no transaction, so it is never taken *)
(* off the list: whatever is not mined keeps the list from getting empty.  *)
HashesOf(i) == {<<batch, i>>, OtherHash(<<batch, i>>), NoHash}

HashesTold ==
    /\ \A b \in DOMAIN Batches : \A i \in DOMAIN txs[b] : txs[b][i].id = <<b, i>>
    /\ hashes \in Seq(Int \X Int)
    /\ stage # "ended" => Len(hashes) = Len(txs[batch])
    /\ \A i \in DOMAIN hashes : hashes[i] \in HashesOf(i)
    /\ copied => stage \in {"scan", "failed"}
    /\ stage = "scan" => \A i \in DOMAIN txs[batch] :
          txs[batch][i] \in Mined \/ \E h \in LookedFor : h \in HashesOf(i)

MinedNonces(a) == {t.nonce : t \in {u \in Mined : u.from = a}}

NodeTakesInOrder ==
    /\ pool \cup Mined \subseteq Created
    /\ \A a \in Accounts : \E k \in Nat :
          MinedNonces(a) = 0 .. (k - 1) /\ \A t \in pool : t.from = a => t.nonce >= k

FastInv == FastTypeOK /\ NoncesCountUp /\ EarlierMined /\ NodeTakesInOrder /\ HashesTold

(* The first number from k on that a finite set leaves out.                *)
LEMMA FirstGap ==
    ASSUME NEW M \in SUBSET Nat, IsFiniteSet(M), NEW k \in Nat
    PROVE  \E m \in Nat : m >= k /\ m \notin M /\ \A n \in k .. (m - 1) : n \in M
<1> DEFINE R == {ss \in Nat \X Nat : ss[1] < ss[2]}
           B == {n \in Nat : n >= k /\ n \notin M}
<1>1. IsWellFoundedOn(R, Nat)
    BY NatLessThanWellFounded DEF OpToRel
<1>2. B # {}
    <2>1. SUFFICES ASSUME B = {} PROVE FALSE
        OBVIOUS
    <2>2. Cardinality(M) \in Nat
        BY FS_CardinalityType
    <2>3. ASSUME NEW n \in k .. (k + Cardinality(M)) PROVE n \in M
        BY <2>1, <2>2
    <2>4. k .. (k + Cardinality(M)) \in SUBSET M
        BY <2>3
    <2>5. Cardinality(k .. (k + Cardinality(M))) <= Cardinality(M)
        BY <2>4, FS_Subset
    <2>6. Cardinality(k .. (k + Cardinality(M))) = Cardinality(M) + 1
        BY <2>2, FS_Interval
    <2> QED BY <2>2, <2>5, <2>6
<1>3. PICK m \in B : \A n \in B : <<n, m>> \notin R
    <2> HIDE DEF R
    <2> QED BY <1>1, <1>2, WFMin
<1>4. ASSUME NEW n \in k .. (m - 1), n \notin M PROVE FALSE
    <2>1. n \in Nat /\ n \in B /\ m \in Nat /\ n < m
        BY <1>4
    <2>2. <<n, m>> \in R
        BY <2>1
    <2> QED BY <1>3, <2>1, <2>2
<1> QED BY <1>3, <1>4

(* The last of some positions.                                             *)
LEMMA LastPosition ==
    ASSUME NEW n \in Nat, NEW P \in SUBSET (1 .. n), P # {}
    PROVE  \E j \in P : \A i \in P : i <= j
<1> DEFINE R == {ss \in Nat \X Nat : ss[1] < ss[2]}
           B == {d \in Nat : \E i \in P : d = n - i}
<1>1. IsWellFoundedOn(R, Nat)
    BY NatLessThanWellFounded DEF OpToRel
<1>2. ASSUME NEW i \in P PROVE i \in 1 .. n /\ n - i \in B
    OBVIOUS
<1>3. PICK d \in B : \A e \in B : <<e, d>> \notin R
    <2> HIDE DEF R, B
    <2>1. B # {}
        BY <1>2
    <2>2. B \subseteq Nat
        BY DEF B
    <2> QED BY <1>1, <2>1, <2>2, WFMin
<1>4. PICK j \in P : d = n - j
    BY <1>3
<1>5. ASSUME NEW i \in P PROVE i <= j
    <2>1. <<n - i, d>> \notin R /\ n - i \in Nat /\ d \in Nat
        BY <1>2, <1>3
    <2> QED BY <1>2, <1>4, <2>1
<1> QED BY <1>5

LEMMA CreatedAt ==
    ASSUME FastTypeOK, NEW t
    PROVE  t \in Created <=> \E b \in DOMAIN Batches : \E i \in DOMAIN txs[b] : t = txs[b][i]
BY DEF FastTypeOK, Created, Range

LEMMA CountUpFresh ==
    ASSUME FastTypeOK, NoncesCountUp
    PROVE  NoncesFresh
<1> SUFFICES ASSUME NEW t \in Created, NEW u \in Created, t # u, t.from = u.from
             PROVE  t.nonce # u.nonce
    BY DEF NoncesFresh
<1>0. PICK b \in DOMAIN Batches, c \in DOMAIN Batches :
         (\E i \in DOMAIN txs[b] : t = txs[b][i]) /\ (\E j \in DOMAIN txs[c] : u = txs[c][j])
    BY CreatedAt
<1>1. PICK i \in DOMAIN txs[b] : t = txs[b][i]
    BY <1>0
<1>2. PICK j \in DOMAIN txs[c] : u = txs[c][j]
    BY <1>0
<1>3. /\ b \in Nat /\ c \in Nat /\ i \in Nat /\ j \in Nat
      /\ t.nonce \in Nat /\ u.nonce \in Nat
    <2>1. txs[b] \in Seq(FastTx) /\ txs[c] \in Seq(FastTx)
        BY DEF FastTypeOK
    <2>2. b \in Nat /\ c \in Nat
        BY BatchesShape
    <2>3. i \in Nat /\ j \in Nat /\ t \in FastTx /\ u \in FastTx
        BY <1>1, <1>2, <2>1
    <2> QED BY <2>2, <2>3 DEF FastTx
<1>4. Earlier(b, i, c, j) \/ Earlier(c, j, b, i)
    BY <1>1, <1>2, <1>3 DEF Earlier
<1> QED BY <1>1, <1>2, <1>3, <1>4 DEF NoncesCountUp

(* The node's count is the length of the gapless run.                      *)
LEMMA CountOfNode ==
    ASSUME FastInv, NEW a \in Accounts, NEW k \in Nat, MinedNonces(a) = 0 .. (k - 1)
    PROVE  TransactionCount(a) = k
<1> DEFINE S == {t \in Mined : t.from = a}
           T == 0 .. (k - 1)
           f == [t \in S |-> t.nonce]
<1>1. f \in [S -> T] /\ \A n \in T : \E t \in S : f[t] = n
    BY DEF MinedNonces
<1>2. \A t, u \in S : f[t] = f[u] => t = u
    BY CountUpFresh DEF FastInv, NoncesFresh, NodeTakesInOrder
<1> HIDE DEF S, T, f
<1>3. f \in Injection(S, T) /\ f \in Surjection(S, T)
    BY <1>1, <1>2 DEF Injection, IsInjective, Surjection
<1>4. IsFiniteSet(T) /\ Cardinality(T) = k
    BY FS_Interval DEF T
<1>5. Cardinality(S) = k
    BY <1>3, <1>4, FS_Injection
<1> QED BY <1>5 DEF S, TransactionCount

LEMMA BatchNumber ==
    ASSUME NEW b \in DOMAIN Batches
    PROVE  b \in Nat \ {0} /\ b <= Len(Batches) /\ Batches[b] \in Seq(Accounts)
BY BatchesShape

(* The local count goes on where the node or the last transaction of the   *)
(* account in this batch left it: above every nonce so far.                *)
LEMMA NextNonceFresh ==
    ASSUME FastInv, NEW a \in Accounts
    PROVE  /\ NextNonce(a) \in Nat
           /\ \A b \in DOMAIN Batches : \A i \in DOMAIN txs[b] :
                 txs[b][i].from = a => txs[b][i].nonce < NextNonce(a)
<1>1. FastTypeOK /\ NoncesCountUp /\ EarlierMined /\ NodeTakesInOrder
    BY DEF FastInv
<1>2. ASSUME NEW b \in DOMAIN Batches, NEW i \in DOMAIN txs[b]
      PROVE  txs[b][i] \in FastTx /\ txs[b][i].nonce \in Nat /\ i \in Nat
    <2>1. txs[b] \in Seq(FastTx)
        BY <1>1 DEF FastTypeOK
    <2>2. txs[b][i] \in FastTx /\ i \in Nat
        BY <2>1
    <2> QED BY <2>2 DEF FastTx
<1> DEFINE P == {j \in DOMAIN txs[batch] : txs[batch][j].from = a}
<1>3. KnownNonces(a) = {txs[batch][i].nonce : i \in P} /\ batch \in DOMAIN Batches
    BY <1>1 DEF KnownNonces, FastTypeOK
<1>4. CASE P = {}
    <2>1. NextNonce(a) = TransactionCount(a)
        BY <1>3, <1>4 DEF NextNonce
    <2>2. PICK k \in Nat : MinedNonces(a) = 0 .. (k - 1)
        BY <1>1 DEF NodeTakesInOrder
    <2>3. NextNonce(a) = k
        BY <2>1, <2>2, CountOfNode
    <2>4. ASSUME NEW b \in DOMAIN Batches, NEW i \in DOMAIN txs[b], txs[b][i].from = a
          PROVE  txs[b][i].nonce < k
        <3>1. b # batch
            BY <1>4, <2>4
        <3>2. b < batch
            <4>1. txs[b] # <<>>
                BY <2>4
            <4> QED BY <1>1, <1>3, <3>1, <4>1, BatchNumber DEF EarlierMined
        <3>3. txs[b][i] \in Mined
            BY <1>1, <3>2 DEF EarlierMined
        <3>4. txs[b][i].nonce \in MinedNonces(a)
            BY <2>4, <3>3 DEF MinedNonces
        <3> QED BY <2>2, <3>4
    <2> QED BY <2>3, <2>4
<1>5. CASE P # {}
    <2>1. DOMAIN txs[batch] = 1 .. Len(txs[batch]) /\ Len(txs[batch]) \in Nat
        BY <1>1, <1>3 DEF FastTypeOK
    <2>2. PICK j \in P : \A i \in P : i <= j
        BY <1>5, <2>1, LastPosition
    <2> DEFINE n == txs[batch][j].nonce
    <2>3. n \in Nat /\ n \in KnownNonces(a)
        BY <1>2, <1>3
    <2>4. ASSUME NEW i \in P PROVE txs[batch][i].nonce <= n
        <3>1. i = j \/ Earlier(batch, i, batch, j)
            BY <1>2, <1>3, <2>2 DEF Earlier
        <3>2. txs[batch][i].nonce \in Nat /\ txs[batch][i].from = txs[batch][j].from
            BY <1>2, <1>3
        <3> QED BY <1>1, <1>3, <2>3, <3>1, <3>2 DEF NoncesCountUp
    <2>5. \A m \in KnownNonces(a) : m <= n /\ m \in Nat
        BY <1>2, <1>3, <2>4
    <2>6. NextNonce(a) = 1 + n
        <3> HIDE DEF n
        <3> DEFINE K == KnownNonces(a)
                   max == CHOOSE m \in K : \A k \in K : k <= m
        <3>1. \E m \in K : \A k \in K : k <= m
            BY <2>3, <2>5
        <3>2. max \in K /\ \A k \in K : k <= max
            BY <3>1, Zenon
        <3>3. NextNonce(a) = 1 + max
            BY <2>3 DEF NextNonce
        <3> HIDE DEF max, K
        <3>4. max \in Nat /\ max <= n /\ n <= max
            BY <2>3, <2>5, <3>2 DEF K
        <3> QED BY <2>3, <3>3, <3>4
    <2>7. ASSUME NEW b \in DOMAIN Batches, NEW i \in DOMAIN txs[b], txs[b][i].from = a
          PROVE  txs[b][i].nonce <= n
        <3>1. CASE b = batch
            BY <2>4, <2>7, <3>1
        <3>2. CASE b # batch
            <4>1. b < batch
                <5>1. txs[b] # <<>>
                    BY <2>7
                <5> QED BY <1>1, <1>3, <3>2, <5>1, BatchNumber DEF EarlierMined
            <4>2. Earlier(b, i, batch, j)
                BY <4>1 DEF Earlier
            <4>3. txs[b][i].nonce < n
                BY <1>1, <1>3, <2>7, <4>2 DEF NoncesCountUp
            <4> QED BY <1>2, <2>3, <4>3
        <3> QED BY <3>1, <3>2
    <2> HIDE DEF n
    <2>8. ASSUME NEW b \in DOMAIN Batches, NEW i \in DOMAIN txs[b], txs[b][i].from = a
          PROVE  txs[b][i].nonce < NextNonce(a)
        BY <1>2, <2>3, <2>6, <2>7, <2>8
    <2> QED BY <2>3, <2>6, <2>8
<1> QED BY <1>4, <1>5

(* What only the node's state is about survives steps of the sender.       *)
LEMMA NodeUnchanged ==
    ASSUME UNCHANGED <<txs, pool, blocks>>
    PROVE  /\ NoncesCountUp => NoncesCountUp'
           /\ NodeTakesInOrder => NodeTakesInOrder'
           /\ Mined' = Mined
BY DEF NoncesCountUp, NodeTakesInOrder, Created, MinedNonces, Mined

LEMMA AddTransactionFastInv ==
    ASSUME FastInv, AddTransaction
    PROVE  FastInv'
<1>1. FastTypeOK /\ NoncesCountUp /\ EarlierMined /\ NodeTakesInOrder /\ HashesTold
    BY DEF FastInv
<1> DEFINE nr == Len(txs[batch]) + 1
           a == Batches[batch][nr]
           new == [from |-> a, nonce |-> NextNonce(a), id |-> <<batch, nr>>]
<1>2. /\ stage = "add" /\ stage' = stage /\ Len(txs[batch]) < Len(Batches[batch])
      /\ txs' = [txs EXCEPT ![batch] = Append(@, new)]
      /\ request' = [request EXCEPT ![batch] = Append(@, "unsent")]
      /\ \/ hashes' = Append(hashes, <<batch, nr>>)
         \/ hashes' = Append(hashes, OtherHash(<<batch, nr>>))
      /\ UNCHANGED <<batch, scanned, copied, left, pool, blocks>>
    BY DEF AddTransaction, nodeVars, awaited
<1>3. /\ batch \in DOMAIN Batches /\ batch \in Nat /\ txs[batch] \in Seq(FastTx)
      /\ Len(txs[batch]) \in Nat /\ nr \in Nat /\ request[batch] \in Seq(RequestState)
    BY <1>1, BatchNumber DEF FastTypeOK
<1>4. a \in Accounts
    <2>1. nr \in DOMAIN Batches[batch] /\ Batches[batch] \in Seq(Accounts)
        BY <1>2, <1>3, BatchNumber
    <2> QED BY <2>1
<1>5. /\ NextNonce(a) \in Nat
      /\ \A b \in DOMAIN Batches : \A i \in DOMAIN txs[b] :
            txs[b][i].from = a => txs[b][i].nonce < NextNonce(a)
    BY <1>4, NextNonceFresh
<1>6. new \in FastTx /\ new.from = a /\ new.nonce = NextNonce(a) /\ new.id = <<batch, nr>>
    <2> HIDE DEF a, nr
    <2> QED BY <1>3, <1>4, <1>5 DEF FastTx
<1> HIDE DEF a, new
<1>7. /\ txs' \in [DOMAIN Batches -> Seq(FastTx)]
      /\ \A b \in DOMAIN Batches : b # batch => txs'[b] = txs[b]
      /\ Len(txs'[batch]) = nr /\ txs'[batch][nr] = new
      /\ \A i \in DOMAIN txs[batch] : txs'[batch][i] = txs[batch][i]
      /\ DOMAIN txs'[batch] = DOMAIN txs[batch] \cup {nr}
      /\ nr \notin DOMAIN txs[batch] /\ \A i \in DOMAIN txs[batch] : i < nr
    <2>1. txs'[batch] = Append(txs[batch], new) /\ txs \in [DOMAIN Batches -> Seq(FastTx)]
        BY <1>1, <1>2, <1>3 DEF FastTypeOK
    <2>2. Append(txs[batch], new) \in Seq(FastTx)
        BY <1>3, <1>6
    <2> QED BY <1>2, <1>3, <2>1, <2>2
<1>8. FastTypeOK'
    <2>1. /\ request' \in [DOMAIN Batches -> Seq(RequestState)]
          /\ Len(request'[batch]) = Len(request[batch]) + 1
          /\ \A b \in DOMAIN Batches : b # batch => request'[b] = request[b]
        <3>1. Append(request[batch], "unsent") \in Seq(RequestState)
            BY <1>3 DEF RequestState
        <3> QED BY <1>1, <1>2, <1>3, <3>1 DEF FastTypeOK
    <2>2. \A b \in DOMAIN Batches : Len(request'[b]) = Len(txs'[b])
        BY <1>1, <1>3, <1>7, <2>1 DEF FastTypeOK
    <2> QED BY <1>1, <1>2, <1>7, <2>1, <2>2 DEF FastTypeOK
<1>9. NoncesCountUp'
    <2>1. ASSUME NEW b \in DOMAIN Batches, NEW c \in DOMAIN Batches,
                 NEW i \in DOMAIN txs'[b], NEW j \in DOMAIN txs'[c],
                 Earlier(b, i, c, j), txs'[b][i].from = txs'[c][j].from
          PROVE  txs'[b][i].nonce < txs'[c][j].nonce
        <3>0. b \in Nat /\ c \in Nat /\ i \in Nat /\ j \in Nat
            <4>1. txs'[b] \in Seq(FastTx) /\ txs'[c] \in Seq(FastTx)
                BY <1>7
            <4> QED BY <4>1, BatchNumber
        <3>1. CASE c = batch /\ j = nr
            <4>1. i \in DOMAIN txs[b] /\ txs'[b][i] = txs[b][i]
                BY <1>3, <1>7, <2>1, <3>0, <3>1 DEF Earlier
            <4> QED BY <1>5, <1>6, <1>7, <2>1, <3>1, <4>1
        <3>2. CASE b = batch /\ i = nr /\ ~(c = batch /\ j = nr)
            <4>1. c > batch
                <5>1. j \in DOMAIN txs'[batch] => j <= nr
                    BY <1>3, <1>7
                <5> QED BY <1>3, <2>1, <3>0, <3>2, <5>1 DEF Earlier
            <4>2. txs'[c] = txs[c] /\ txs[c] = <<>>
                BY <1>1, <1>3, <1>7, <4>1 DEF EarlierMined
            <4> QED BY <4>2
        <3>3. CASE ~(b = batch /\ i = nr) /\ ~(c = batch /\ j = nr)
            <4>1. /\ i \in DOMAIN txs[b] /\ txs'[b][i] = txs[b][i]
                  /\ j \in DOMAIN txs[c] /\ txs'[c][j] = txs[c][j]
                BY <1>7, <3>3
            <4> QED BY <1>1, <2>1, <4>1 DEF NoncesCountUp
        <3> QED BY <3>1, <3>2, <3>3
    <2> QED BY <2>1 DEF NoncesCountUp
<1>10. Mined' = Mined
    BY <1>2 DEF Mined
<1>11. EarlierMined'
    BY <1>1, <1>2, <1>3, <1>7, <1>10, BatchNumber DEF EarlierMined
<1>12. NodeTakesInOrder'
    <2>1. \A t \in Created : t \in Created'
        <3>1. ASSUME NEW t \in Created PROVE t \in Created'
            <4>1. PICK b \in DOMAIN Batches : \E i \in DOMAIN txs[b] : t = txs[b][i]
                BY <1>1, CreatedAt
            <4>2. \E i \in DOMAIN txs'[b] : t = txs'[b][i]
                BY <1>7, <4>1
            <4>3. DOMAIN txs' = DOMAIN Batches
                BY <1>7
            <4> QED BY <4>2, <4>3 DEF Created, Range
        <3> QED BY <3>1
    <2> QED BY <1>1, <1>2, <1>10, <2>1 DEF NodeTakesInOrder, MinedNonces
<1>13. HashesTold'
    <2>1. ASSUME NEW b \in DOMAIN Batches, NEW i \in DOMAIN txs'[b]
          PROVE  txs'[b][i].id = <<b, i>>
        <3>1. CASE b = batch /\ i = nr
            BY <1>6, <1>7, <3>1
        <3>2. CASE ~(b = batch /\ i = nr)
            <4>1. i \in DOMAIN txs[b] /\ txs'[b][i] = txs[b][i]
                BY <1>7, <3>2
            <4> QED BY <1>1, <4>1 DEF HashesTold
        <3> QED BY <3>1, <3>2
    <2>2. PICK h \in HashesOf(nr) : hashes' = Append(hashes, h)
        BY <1>2 DEF HashesOf
    <2>3. hashes \in Seq(Int \X Int) /\ Len(hashes) = Len(txs[batch]) /\ h \in Int \X Int
        BY <1>1, <1>2, <1>3 DEF HashesTold, HashesOf, OtherHash, NoHash
    <2>4. /\ hashes' \in Seq(Int \X Int) /\ Len(hashes') = nr
          /\ \A i \in DOMAIN hashes' : hashes'[i] = IF i = nr THEN h ELSE hashes[i]
          /\ \A i \in DOMAIN hashes' : i = nr \/ i \in DOMAIN hashes
        <3> HIDE DEF nr
        <3>1. nr = Len(hashes) + 1
            BY <2>3 DEF nr
        <3> QED BY <2>2, <2>3, <3>1
    <2>5. \A i \in DOMAIN hashes' : hashes'[i] \in HashesOf(i)
        BY <1>1, <2>2, <2>4 DEF HashesTold
    <2>6. \A i : HashesOf(i)' = HashesOf(i)
        BY <1>2 DEF HashesOf
    <2>7. ~copied' /\ stage' = "add"
        BY <1>1, <1>2 DEF HashesTold
    <2>8. Len(txs'[batch']) = nr
        BY <1>2, <1>7
    <2> HIDE DEF nr
    <2> QED BY <2>1, <2>4, <2>5, <2>6, <2>7, <2>8 DEF HashesTold
<1> QED BY <1>8, <1>9, <1>11, <1>12, <1>13 DEF FastInv

(* One element of a sequence is replaced.                                  *)
LEMMA ReplacedElement ==
    ASSUME NEW T, NEW q \in Seq(T), NEW k, NEW x \in T
    PROVE  [q EXCEPT ![k] = x] \in Seq(T) /\ Len([q EXCEPT ![k] = x]) = Len(q)
<1> DEFINE D == 1 .. Len(q)
           w == [q EXCEPT ![k] = x]
<1>1. Len(q) \in Nat /\ q \in [D -> T]
    OBVIOUS
<1>2. w \in [D -> T]
    <2> HIDE DEF D
    <2> QED BY <1>1
<1> HIDE DEF w
<1>3. w \in Seq(T) /\ Len(w) = Len(q)
    BY <1>1, <1>2
<1> QED BY <1>3 DEF w

(* Sending and awaiting leave transactions and node alone.                 *)
LEMMA SendingFastInv ==
    ASSUME FastInv, SendTxs \/ SendSingleTxRaw \/ Paused \/ PromiseAll
    PROVE  FastInv'
<1>1. FastTypeOK /\ NoncesCountUp /\ EarlierMined /\ NodeTakesInOrder /\ HashesTold
    BY DEF FastInv
<1>2. UNCHANGED <<batch, txs, hashes, copied, left, pool, blocks>>
    BY DEF SendTxs, SendSingleTxRaw, Paused, PromiseAll, nodeVars, awaited
<1>3. NoncesCountUp' /\ NodeTakesInOrder' /\ Mined' = Mined
    BY <1>1, <1>2, NodeUnchanged
<1>4. batch \in DOMAIN Batches /\ txs[batch] \in Seq(FastTx) /\ blocks \in Seq(SUBSET FastTx)
      /\ request[batch] \in Seq(RequestState)
    BY <1>1 DEF FastTypeOK
<1>5. /\ request' \in [DOMAIN Batches -> Seq(RequestState)]
      /\ \A b \in DOMAIN Batches : Len(request'[b]) = Len(request[b])
    <2>1. CASE request' = request
        BY <1>1, <2>1 DEF FastTypeOK
    <2>2. CASE SendSingleTxRaw
        <3> DEFINE sent == [request[batch] EXCEPT ![next] = "posted"]
        <3>1. request' = [request EXCEPT ![batch] = sent]
            BY <1>1, <1>4, <2>2 DEF SendSingleTxRaw, FastTypeOK
        <3>2. sent \in Seq(RequestState) /\ Len(sent) = Len(request[batch])
            <4>1. "posted" \in RequestState
                BY DEF RequestState
            <4>2. request[batch] \in Seq(RequestState)
                BY <1>4
            <4>3. \A T : \A q \in Seq(T) : \A k : \A x \in T :
                     [q EXCEPT ![k] = x] \in Seq(T) /\ Len([q EXCEPT ![k] = x]) = Len(q)
                BY ReplacedElement
            <4> QED BY <4>1, <4>2, <4>3
        <3> HIDE DEF sent
        <3> QED BY <1>1, <1>4, <3>1, <3>2 DEF FastTypeOK
    <2> QED BY <2>1, <2>2 DEF SendTxs, Paused, PromiseAll
<1>6. stage' \in {"send", "pause", "scan"} => scanned' \in Nat
    BY <1>1, <1>4 DEF SendTxs, SendSingleTxRaw, Paused, PromiseAll, FastTypeOK
<1>7. FastTypeOK'
    BY <1>1, <1>2, <1>5, <1>6 DEF FastTypeOK
<1>8. EarlierMined'
    BY <1>1, <1>2, <1>3 DEF EarlierMined
<1>9. HashesTold'
    <2>1. stage \in {"add", "send", "pause"} /\ stage' # "ended"
        BY DEF SendTxs, SendSingleTxRaw, Paused, PromiseAll
    <2>2. ~copied /\ ~copied'
        BY <1>1, <1>2, <2>1 DEF HashesTold
    <2>3. LookedFor' = Range(hashes)
        BY <1>2, <2>2 DEF LookedFor
    <2>4. hashes \in Seq(Int \X Int) /\ Len(hashes) = Len(txs[batch])
        BY <1>1, <2>1 DEF HashesTold
    <2>5. ASSUME NEW i \in DOMAIN txs[batch]
          PROVE  \E h \in Range(hashes) : h \in HashesOf(i)
        <3>1. i \in DOMAIN hashes
            BY <1>4, <2>4
        <3> QED BY <1>1, <3>1 DEF HashesTold, Range
    <2>6. \A i : HashesOf(i)' = HashesOf(i)
        BY <1>2 DEF HashesOf
    <2> QED BY <1>1, <1>2, <2>1, <2>2, <2>3, <2>4, <2>5, <2>6 DEF HashesTold
<1> QED BY <1>3, <1>7, <1>8, <1>9 DEF FastInv

(* What awaitTransactions takes off its list was in a block.               *)
LEMMA AwaitFastInv ==
    ASSUME FastInv, AwaitTransactions
    PROVE  FastInv'
<1>1. FastTypeOK /\ NoncesCountUp /\ EarlierMined /\ NodeTakesInOrder /\ HashesTold
    BY DEF FastInv
<1>2. /\ stage = "scan" /\ copied'
      /\ left' = LookedFor \ {t.id : t \in UNION {blocks[b] : b \in Unseen}}
      /\ scanned' = Len(blocks) /\ UNCHANGED <<stage, batch, txs, request, hashes, pool, blocks>>
    BY DEF AwaitTransactions, nodeVars
<1>3. NoncesCountUp' /\ NodeTakesInOrder' /\ Mined' = Mined
    BY <1>1, <1>2, NodeUnchanged
<1>4. scanned \in Nat /\ blocks \in Seq(SUBSET FastTx) /\ batch \in DOMAIN Batches
    BY <1>1, <1>2 DEF FastTypeOK
<1>5. FastTypeOK'
    BY <1>1, <1>2, <1>4 DEF FastTypeOK
<1>6. ASSUME NEW i \in DOMAIN txs[batch], txs[batch][i] \notin Mined
      PROVE  \E h \in left' : h \in HashesOf(i)
    <2>1. PICK h \in LookedFor : h \in HashesOf(i)
        BY <1>1, <1>2, <1>6 DEF HashesTold
    <2>2. ASSUME NEW b \in Unseen, NEW t \in blocks[b] PROVE t.id # h
        <3>1. b \in DOMAIN blocks
            BY <1>4 DEF Unseen
        <3>2. t \in Mined /\ t \in Created
            BY <1>1, <3>1 DEF Mined, Range, NodeTakesInOrder
        <3>3. PICK c \in DOMAIN Batches : \E j \in DOMAIN txs[c] : t = txs[c][j]
            BY <1>1, <3>2, CreatedAt
        <3>4. PICK j \in DOMAIN txs[c] : t = txs[c][j]
            BY <3>3
        <3>5. t.id = <<c, j>>
            BY <1>1, <3>4 DEF HashesTold
        <3>6. c \in Nat \ {0} /\ batch \in Nat \ {0}
            BY <1>4, BatchNumber
        <3>7. h # <<c, j>>
            <4>1. <<c, j>> # <<batch, i>>
                BY <1>6, <3>2, <3>4
            <4> QED BY <2>1, <3>6, <4>1 DEF HashesOf, OtherHash, NoHash
        <3> QED BY <3>5, <3>7
    <2>3. h \in left'
        BY <1>2, <2>1, <2>2
    <2> QED BY <2>1, <2>3
<1>7. EarlierMined'
    BY <1>1, <1>2, <1>3 DEF EarlierMined
<1>8. HashesTold'
    <2>1. LookedFor' = left'
        BY <1>2 DEF LookedFor
    <2>2. \A i : HashesOf(i)' = HashesOf(i)
        BY <1>2 DEF HashesOf
    <2> QED BY <1>1, <1>2, <1>3, <1>6, <2>1, <2>2 DEF HashesTold
<1> QED BY <1>3, <1>5, <1>7, <1>8 DEF FastInv

(* A batch is left behind when all of it is mined.                         *)
LEMMA ConfirmedFastInv ==
    ASSUME FastInv, BatchConfirmed
    PROVE  FastInv'
<1>1. FastTypeOK /\ NoncesCountUp /\ EarlierMined /\ NodeTakesInOrder /\ HashesTold
    BY DEF FastInv
<1>2. /\ stage = "scan" /\ LookedFor = {} /\ ~copied' /\ hashes' = <<>>
      /\ \/ batch < Len(Batches) /\ batch' = batch + 1 /\ stage' = "add"
         \/ batch' = batch /\ stage' = "ended"
      /\ UNCHANGED <<txs, request, pool, blocks>>
    BY DEF BatchConfirmed, AllConfirmed, nodeVars
<1>3. NoncesCountUp' /\ NodeTakesInOrder' /\ Mined' = Mined
    BY <1>1, <1>2, NodeUnchanged
<1>4. batch \in DOMAIN Batches /\ batch' \in DOMAIN Batches /\ batch \in Nat
    BY <1>1, <1>2, BatchesShape DEF FastTypeOK
<1>5. FastTypeOK'
    BY <1>1, <1>2, <1>4 DEF FastTypeOK
<1>6. EarlierMined'
    <2>0. \A k \in DOMAIN txs[batch] : txs[batch][k] \in Mined
        BY <1>1, <1>2 DEF HashesTold
    <2>1. \A b \in DOMAIN Batches : b <= batch => \A k \in DOMAIN txs[b] : txs[b][k] \in Mined
        BY <1>1, <1>4, <2>0, BatchNumber DEF EarlierMined
    <2>2. ASSUME NEW b \in DOMAIN Batches
          PROVE  (b < batch' => b <= batch) /\ (b > batch' => b > batch)
        BY <1>2, <1>4, BatchNumber
    <2> QED BY <1>1, <1>2, <1>3, <2>1, <2>2 DEF EarlierMined
<1>7. HashesTold'
    <2>1. stage' # "ended" => txs[batch'] = <<>>
        BY <1>1, <1>2, <1>4, BatchNumber DEF EarlierMined
    <2> QED BY <1>1, <1>2, <2>1 DEF HashesTold
<1> QED BY <1>3, <1>5, <1>6, <1>7 DEF FastInv

HashReplaced(r) ==
    /\ r[1] = batch /\ r[2] \in DOMAIN hashes
    /\ \/ hashes' = [hashes EXCEPT ![r[2]] = txs[r[1]][r[2]].id]
       \/ hashes' = [hashes EXCEPT ![r[2]] = NoHash]

(* One request changes; the node may take its transaction, and its answer  *)
(* replace the hash.                                                       *)
LEMMA RequestFastInv ==
    ASSUME FastInv, NEW r \in Requests, NEW to \in RequestState,
           request' = [request EXCEPT ![r[1]][r[2]] = to],
           UNCHANGED <<stage, batch, txs, scanned, copied, left, blocks>>,
           hashes' = hashes \/ HashReplaced(r),
           pool' = pool \/ Import(txs[r[1]][r[2]])
    PROVE  FastInv'
<1>1. FastTypeOK /\ NoncesCountUp /\ EarlierMined /\ NodeTakesInOrder /\ HashesTold
    BY DEF FastInv
<1> DEFINE b == r[1]
           k == r[2]
           t == txs[b][k]
<1>2. b \in DOMAIN Batches /\ k \in DOMAIN request[b]
    BY <1>1 DEF Requests, FastTypeOK
<1>3. /\ request[b] \in Seq(RequestState) /\ txs[b] \in Seq(FastTx)
      /\ Len(request[b]) = Len(txs[b])
    BY <1>1, <1>2 DEF FastTypeOK
<1>4. t \in FastTx /\ t \in Created /\ k \in DOMAIN txs[b]
    <2>1. k \in DOMAIN txs[b]
        BY <1>2, <1>3
    <2>2. t \in FastTx
        BY <1>3, <2>1
    <2> QED BY <1>1, <1>2, <2>1, <2>2, CreatedAt
<1>5. /\ request' \in [DOMAIN Batches -> Seq(RequestState)]
      /\ \A c \in DOMAIN Batches : Len(request'[c]) = Len(request[c])
    <2> DEFINE changed == [request[b] EXCEPT ![k] = to]
    <2>1. request' = [request EXCEPT ![b] = changed]
        BY <1>1, <1>2 DEF FastTypeOK
    <2>2. changed \in Seq(RequestState) /\ Len(changed) = Len(request[b])
        <3> HIDE DEF b, k
        <3>1. \A T : \A q \in Seq(T) : \A i : \A x \in T :
                 [q EXCEPT ![i] = x] \in Seq(T) /\ Len([q EXCEPT ![i] = x]) = Len(q)
            BY ReplacedElement
        <3>2. PICK c, n : c = b /\ n = k
            OBVIOUS
        <3>3. [request[c] EXCEPT ![n] = to] \in Seq(RequestState)
              /\ Len([request[c] EXCEPT ![n] = to]) = Len(request[c])
            BY <1>3, <3>1, <3>2
        <3> QED BY <3>2, <3>3
    <2> HIDE DEF changed, b, k
    <2> QED BY <1>1, <1>2, <2>1, <2>2 DEF FastTypeOK
<1>6. pool' = pool \/ (pool' = pool \cup {t} /\ t.nonce >= TransactionCount(t.from))
    BY DEF Import, Usable
<1> HIDE DEF b, k, t
<1>7. pool' \subseteq FastTx /\ IsFiniteSet(pool')
    <2>1. pool \subseteq FastTx /\ IsFiniteSet(pool)
        BY <1>1 DEF FastTypeOK
    <2>2. IsFiniteSet(pool \cup {t})
        BY <2>1, FS_AddElement
    <2> QED BY <1>4, <1>6, <2>1, <2>2
<1>8. FastTypeOK'
    BY <1>1, <1>5, <1>7 DEF FastTypeOK
<1>9. NoncesCountUp'
    BY <1>1 DEF NoncesCountUp
<1>10. Mined' = Mined /\ Created' = Created
    BY DEF Mined, Created
<1>11. EarlierMined'
    BY <1>1, <1>10 DEF EarlierMined
<1>12. NodeTakesInOrder'
    <2>1. ASSUME NEW a \in Accounts
          PROVE  \E n \in Nat : MinedNonces(a) = 0 .. (n - 1)
                                /\ \A u \in pool' : u.from = a => u.nonce >= n
        <3>1. PICK n \in Nat : MinedNonces(a) = 0 .. (n - 1)
                               /\ \A u \in pool : u.from = a => u.nonce >= n
            BY <1>1 DEF NodeTakesInOrder
        <3>2. TransactionCount(a) = n
            BY <3>1, CountOfNode
        <3> QED BY <1>6, <3>1, <3>2
    <2>2. \A a \in Accounts : MinedNonces(a)' = MinedNonces(a)
        BY <1>10 DEF MinedNonces
    <2> QED BY <1>1, <1>4, <1>6, <1>10, <2>1, <2>2 DEF NodeTakesInOrder
<1>13. HashesTold'
    <2>1. \A i : HashesOf(i)' = HashesOf(i)
        BY DEF HashesOf
    <2>2. /\ hashes' \in Seq(Int \X Int) /\ Len(hashes') = Len(hashes)
          /\ DOMAIN hashes' = DOMAIN hashes
          /\ \A i \in DOMAIN hashes : hashes'[i] \in HashesOf(i)
        <3>1. CASE hashes' = hashes
            BY <1>1, <3>1 DEF HashesTold
        <3>2. CASE HashReplaced(r)
            <4>1. txs[r[1]][r[2]].id = <<batch, r[2]>> /\ r[2] \in DOMAIN hashes
                BY <1>1, <1>2, <1>4, <3>2 DEF HashReplaced, HashesTold, b, k
            <4>2. PICK h \in HashesOf(r[2]) : hashes' = [hashes EXCEPT ![r[2]] = h]
                BY <3>2, <4>1 DEF HashReplaced, HashesOf
            <4>3. h \in Int \X Int /\ hashes \in Seq(Int \X Int)
                <5>1. batch \in Nat /\ r[2] \in Nat
                    <6>1. batch \in DOMAIN Batches /\ hashes \in Seq(Int \X Int)
                        BY <1>1 DEF FastTypeOK, HashesTold
                    <6>2. batch \in Nat
                        BY <6>1, BatchNumber
                    <6>3. r[2] \in Nat
                        BY <4>1, <6>1
                    <6> QED BY <6>2, <6>3
                <5> QED BY <1>1, <4>2, <5>1 DEF HashesTold, HashesOf, OtherHash, NoHash
            <4>4. hashes' \in Seq(Int \X Int) /\ Len(hashes') = Len(hashes)
                <5>1. \A T : \A q \in Seq(T) : \A i : \A x \in T :
                         [q EXCEPT ![i] = x] \in Seq(T) /\ Len([q EXCEPT ![i] = x]) = Len(q)
                    BY ReplacedElement
                <5>2. /\ [hashes EXCEPT ![r[2]] = h] \in Seq(Int \X Int)
                      /\ Len([hashes EXCEPT ![r[2]] = h]) = Len(hashes)
                    <6>1. PICK n, T, q : n = r[2] /\ T = Int \X Int /\ q = hashes
                        OBVIOUS
                    <6>2. h \in T /\ q \in Seq(T)
                        BY <4>3, <6>1
                    <6>3. [q EXCEPT ![n] = h] \in Seq(T) /\ Len([q EXCEPT ![n] = h]) = Len(q)
                        BY <5>1, <6>2
                    <6> QED BY <6>1, <6>3
                <5> QED BY <4>2, <5>2
            <4> QED BY <1>1, <4>1, <4>2, <4>3, <4>4 DEF HashesTold
        <3> QED BY <3>1, <3>2
    <2>3. ASSUME stage = "scan", NEW i \in DOMAIN txs[batch], txs[batch][i] \notin Mined
          PROVE  \E h \in LookedFor' : h \in HashesOf(i)
        <3>1. CASE copied
            <4>1. LookedFor' = LookedFor
                BY <3>1 DEF LookedFor
            <4> QED BY <1>1, <2>3, <4>1 DEF HashesTold
        <3>2. CASE ~copied
            <4>1. LookedFor' = Range(hashes')
                BY <3>2 DEF LookedFor
            <4>2. i \in DOMAIN hashes'
                <5>1. txs[batch] \in Seq(FastTx) /\ Len(hashes) = Len(txs[batch])
                      /\ hashes \in Seq(Int \X Int)
                    BY <1>1, <2>3 DEF FastTypeOK, HashesTold
                <5> QED BY <2>2, <2>3, <5>1
            <4> QED BY <2>2, <4>1, <4>2 DEF Range
        <3> QED BY <3>1, <3>2
    <2> QED BY <1>1, <1>10, <2>1, <2>2, <2>3 DEF HashesTold
<1> QED BY <1>8, <1>9, <1>11, <1>12, <1>13 DEF FastInv

(* A block takes the lowest nonces of an account: the mined ones stay      *)
(* without a gap, and what is left in the pool is above them.              *)
LEMMA MineFastInv ==
    ASSUME FastInv, Mine, UNCHANGED fastVars
    PROVE  FastInv'
<1>1. FastTypeOK /\ NoncesCountUp /\ EarlierMined /\ NodeTakesInOrder /\ HashesTold
    BY DEF FastInv
<1>2. PICK taken \in SUBSET pool :
         Contiguous(taken) /\ blocks' = Append(blocks, taken) /\ pool' = pool \ taken
    BY DEF Mine
<1>3. UNCHANGED <<stage, batch, txs, request, scanned, hashes, copied, left>>
    BY DEF fastVars, awaited
<1>4. /\ blocks \in Seq(SUBSET FastTx) /\ taken \in SUBSET FastTx /\ pool \subseteq FastTx
      /\ IsFiniteSet(pool)
    BY <1>1 DEF FastTypeOK
<1>5. FastTypeOK'
    <2>1. IsFiniteSet(pool')
        BY <1>2, <1>4, FS_Subset
    <2>2. blocks' \in Seq(SUBSET FastTx)
        BY <1>2, <1>4
    <2> QED BY <1>1, <1>2, <1>3, <2>1, <2>2 DEF FastTypeOK
<1>6. Mined' = Mined \cup taken
    <2>1. /\ DOMAIN blocks' = DOMAIN blocks \cup {Len(blocks) + 1}
          /\ \A k \in DOMAIN blocks : blocks'[k] = blocks[k]
          /\ blocks'[Len(blocks) + 1] = taken
        BY <1>2, <1>4
    <2>2. \A t : t \in Mined <=> \E k \in DOMAIN blocks : t \in blocks[k]
        BY DEF Mined, Range
    <2>3. \A t : t \in Mined' <=> \E k \in DOMAIN blocks' : t \in blocks'[k]
        BY DEF Mined, Range
    <2>4. \A t : t \in Mined' <=> t \in Mined \/ t \in taken
        BY <2>1, <2>2, <2>3
    <2> QED BY <2>4
<1>7. NoncesCountUp' /\ Created' = Created
    BY <1>1, <1>3 DEF NoncesCountUp, Created
<1>8. EarlierMined'
    BY <1>1, <1>3, <1>6 DEF EarlierMined
<1>9. ASSUME NEW a \in Accounts
      PROVE  \E n \in Nat : MinedNonces(a)' = 0 .. (n - 1)
                            /\ \A u \in pool' : u.from = a => u.nonce >= n
    <2>1. PICK k \in Nat : MinedNonces(a) = 0 .. (k - 1) /\ \A u \in pool : u.from = a => u.nonce >= k
        BY <1>1 DEF NodeTakesInOrder
    <2>2. TransactionCount(a) = k
        BY <2>1, CountOfNode
    <2> DEFINE T == {t \in taken : t.from = a}
               M == {t.nonce : t \in T}
    <2>3. M \in SUBSET Nat
        BY <1>4 DEF FastTx
    <2>4. IsFiniteSet(M)
        <3> DEFINE f == [t \in T |-> t.nonce]
        <3>1. IsFiniteSet(T)
            BY <1>2, <1>4, FS_Subset
        <3>2. f \in Surjection(T, M)
            BY DEF Surjection
        <3> HIDE DEF T, M, f
        <3> QED BY <3>1, <3>2, FS_Surjection
    <2>5. ASSUME NEW m \in M, NEW n \in k .. m PROVE n \in M
        <3>1. PICK t \in T : m = t.nonce
            BY <2>5
        <3>2. PICK u \in taken : u.from = a /\ u.nonce = n
            BY <1>2, <2>2, <2>5, <3>1 DEF Contiguous
        <3> QED BY <3>2
    <2>6. PICK n \in Nat : n >= k /\ n \notin M /\ \A i \in k .. (n - 1) : i \in M
        <3> HIDE DEF M
        <3> QED BY <2>3, <2>4, FirstGap
    <2>7. \A m \in M : m \in k .. (n - 1)
        <3>1. ASSUME NEW m \in M PROVE m \in k .. (n - 1)
            <4>1. m >= k /\ m \in Nat
                BY <1>2, <2>1, <2>3
            <4>2. ~(n <= m)
                <5> HIDE DEF M
                <5> QED BY <2>5, <2>6, <4>1
            <4> QED BY <2>6, <4>1, <4>2
        <3> QED BY <3>1
    <2>8. MinedNonces(a)' = MinedNonces(a) \cup M
        BY <1>6 DEF MinedNonces
    <2>9. MinedNonces(a)' = 0 .. (n - 1)
        <3> HIDE DEF M
        <3> QED BY <2>1, <2>6, <2>7, <2>8
    <2>10. ASSUME NEW u \in pool', u.from = a PROVE u.nonce >= n
        <3>1. u \in pool /\ u \notin taken /\ u.nonce >= k /\ u.nonce \in Nat
            BY <1>2, <1>4, <2>1, <2>10 DEF FastTx
        <3>2. u.nonce \notin M
            <4>1. ASSUME NEW t \in T, t.nonce = u.nonce PROVE FALSE
                <5>1. t \in Created /\ u \in Created /\ t # u
                    BY <1>1, <1>2, <3>1 DEF NodeTakesInOrder
                <5> QED BY <1>1, <2>10, <4>1, <5>1, CountUpFresh DEF NoncesFresh
            <4> QED BY <4>1
        <3> HIDE DEF M
        <3> QED BY <2>6, <3>1, <3>2
    <2> QED BY <2>9, <2>10
<1>10. NodeTakesInOrder'
    BY <1>1, <1>2, <1>6, <1>7, <1>9 DEF NodeTakesInOrder
<1>11. HashesTold'
    BY <1>1, <1>3, <1>6 DEF HashesTold, HashesOf, LookedFor
<1> QED BY <1>5, <1>7, <1>8, <1>10, <1>11 DEF FastInv

LEMMA FastStepsFastInv ==
    ASSUME FastInv, FastSteps \/ FastAnswers \/ FastFaults \/ (Mine /\ UNCHANGED fastVars)
    PROVE  FastInv'
<1>1. CASE FastSteps
    BY <1>1, AddTransactionFastInv, SendingFastInv, AwaitFastInv, ConfirmedFastInv DEF FastSteps
<1>2. ASSUME NEW r \in Requests,
             \/ Taken(r) \/ Accepted(r) \/ AcceptedWithoutHash(r) \/ Repeat(r)
             \/ TooMany(r) \/ Refused(r) \/ ConnectionLost(r)
      PROVE  FastInv'
    <2> USE DEF Taken, Accepted, AcceptedWithoutHash, Reported, Repeat,
                TooMany, Refused, ConnectionLost, Answer
    <2>1. /\ UNCHANGED <<stage, batch, txs, scanned, copied, left, blocks>>
          /\ pool' = pool \/ Import(txs[r[1]][r[2]])
        BY <1>2 DEF Import, nodeVars, awaited
    <2>2. \E to \in RequestState : request' = [request EXCEPT ![r[1]][r[2]] = to]
        BY <1>2 DEF RequestState
    <2>3. hashes' = hashes \/ HashReplaced(r)
        BY <1>2 DEF HashReplaced
    <2> QED BY <2>1, <2>2, <2>3, RequestFastInv
<1>3. CASE Mine /\ UNCHANGED fastVars
    BY <1>3, MineFastInv
<1>4. CASE ReadFails
    BY <1>4, NodeUnchanged
       DEF ReadFails, nodeVars, awaited, FastInv, FastTypeOK, EarlierMined, HashesTold, HashesOf
<1> QED BY <1>1, <1>2, <1>3, <1>4 DEF FastAnswers, FastFaults

LEMMA InitFastInv ==
    ASSUME NodeInit, FastInit
    PROVE  FastInv
<1>1. /\ stage = "add" /\ batch = 1 /\ pool = {} /\ blocks = <<>>
      /\ txs = [b \in DOMAIN Batches |-> <<>>] /\ request = [b \in DOMAIN Batches |-> <<>>]
      /\ hashes = <<>> /\ ~copied
    BY DEF NodeInit, FastInit
<1>2. batch \in DOMAIN Batches
    BY <1>1, BatchesShape
<1>3. FastTypeOK
    BY <1>1, <1>2, FS_EmptySet DEF FastTypeOK
<1>4. NoncesCountUp
    BY <1>1 DEF NoncesCountUp
<1>5. EarlierMined
    BY <1>1, BatchNumber DEF EarlierMined
<1>6. Mined = {}
    BY <1>1 DEF Mined, Range
<1>7. NodeTakesInOrder
    <2>1. \A a \in Accounts : MinedNonces(a) = 0 .. (0 - 1)
        BY <1>6 DEF MinedNonces
    <2> QED BY <1>1, <1>6, <2>1 DEF NodeTakesInOrder
<1>8. HashesTold
    BY <1>1, <1>2 DEF HashesTold
<1> QED BY <1>3, <1>4, <1>5, <1>7, <1>8 DEF FastInv

-----------------------------------------------------------------------------
(* The scripts together.  Only the script that runs takes steps; of the    *)
(* two that share the node the other one has not begun.                    *)

NodeInv ==
    IF tool = "fast" THEN FastInv /\ sends = <<>> /\ poolSize = 0
    ELSE SenderInv /\ txs = [b \in DOMAIN Batches |-> <<>>]

ToolsInv == AddInv /\ UpgradeInv /\ NodeInv

LEMMA InitToolsInv == Init => ToolsInv
<1>1. Init => AddInv /\ UpgradeInv
    BY InitAddInv, InitUpgradeInv DEF Init
<1>2. Init => NodeInv
    BY InitFastInv, InitSenderInv DEF Init, NodeInv, FastInit, SenderInit
<1> QED BY <1>1, <1>2 DEF ToolsInv

LEMMA NextToolsInv ==
    ASSUME ToolsInv, [Next]_vars
    PROVE  ToolsInv'
<1>1. [AddNext]_addVars /\ [UpgradeNext]_upgradeVars
    BY DEF Next, Fast, FastHears, FastFails, FastMined, Continuous, ContinuousFails,
           ContinuousMined, Add, Upgrade, OthersThanFast, OthersThanSender, vars
<1>2. AddInv' /\ UpgradeInv'
    BY <1>1, NextAddInv, NextUpgradeInv DEF ToolsInv
<1>3. tool' = tool
    BY DEF Next, Fast, FastHears, FastFails, FastMined, Continuous, ContinuousFails,
           ContinuousMined, Add, Upgrade, OthersThanFast, OthersThanSender, vars
<1>4. CASE tool = "fast"
    <2>1. /\ \/ FastSteps \/ FastAnswers \/ FastFaults \/ (Mine /\ UNCHANGED fastVars)
             \/ UNCHANGED <<nodeVars, fastVars>>
          /\ UNCHANGED senderVars
        BY <1>4 DEF Next, Fast, FastHears, FastFails, FastMined, Continuous, ContinuousFails,
                    ContinuousMined, Add, Upgrade, OthersThanFast, vars
    <2>2. FastInv'
        <3>1. CASE UNCHANGED <<nodeVars, fastVars>>
            <4>1. FastInv
                BY <1>4 DEF ToolsInv, NodeInv
            <4> QED BY <3>1, <4>1, NodeUnchanged
                    DEF FastInv, FastTypeOK, EarlierMined, HashesTold, HashesOf, LookedFor,
                        nodeVars, fastVars, awaited
        <3> QED BY <1>4, <2>1, <3>1, FastStepsFastInv DEF ToolsInv, NodeInv
    <2> QED BY <1>2, <1>3, <1>4, <2>1, <2>2 DEF ToolsInv, NodeInv, senderVars
<1>5. CASE tool # "fast"
    <2>1. [SenderNext]_<<nodeVars, senderVars>> /\ UNCHANGED fastVars
        BY <1>5 DEF Next, Fast, FastHears, FastFails, FastMined, Continuous, ContinuousFails,
                    ContinuousMined, Add, Upgrade, OthersThanSender, vars, SenderNext
    <2>2. SenderInv'
        BY <1>5, <2>1, NextSenderInv DEF ToolsInv, NodeInv
    <2> QED BY <1>2, <1>3, <1>5, <2>1, <2>2 DEF ToolsInv, NodeInv, fastVars
<1> QED BY <1>4, <1>5

(* The invariants of all scripts, for the specification of the run.        *)
THEOREM ToolsAlways == Spec => []ToolsInv
BY InitToolsInv, NextToolsInv, PTL DEF Spec

(* No two transactions of FastTxSender share account and nonce, although   *)
(* every batch counts for itself and requests are repeated, refused and    *)
(* lost (FastTxSender.ts 113-124, 313-333).                                *)
THEOREM NoncesAlwaysFresh == Spec => []NoncesFresh
<1>1. ToolsInv => NoncesFresh
    <2>1. CASE tool = "fast"
        BY <2>1, CountUpFresh DEF ToolsInv, NodeInv, FastInv
    <2>2. CASE tool # "fast"
        BY <2>2 DEF ToolsInv, NodeInv, NoncesFresh, Created, Range
    <2> QED BY <2>1, <2>2
<1> QED BY <1>1, ToolsAlways, PTL

(* No epoch sees two pools of runAddOneValidatorEachEpoch, whenever epochs *)
(* switch between its reads and transactions.                              *)
THEOREM OnePoolAlways == Spec => []OnePoolPerEpoch
<1>1. ToolsInv => OnePoolPerEpoch
    BY DEF ToolsInv, AddInv
<1> QED BY <1>1, ToolsAlways, PTL

(* A proxy is switched once, however often the script dies and is run      *)
(* again, unless another admin changed it in between                       *)
(* (runUpgradeContracts.ts 113-161, 322-332).                              *)
THEOREM SwitchedOnceAlways == Spec => []SwitchedOnce
<1>1. ToolsInv => SwitchedOnce
    <2> SUFFICES ASSUME ToolsInv, NEW p \in ProxyNames
                 PROVE  ours[p] <= IF p \in abandoned THEN 2 ELSE 1
        BY DEF SwitchedOnce
    <2>1. /\ ours[p] \in Nat /\ Claims(p) \in Nat
          /\ ours[p] + Claims(p) <= IF p \in abandoned THEN 2 ELSE 1
        BY DEF ToolsInv, UpgradeInv, UpgradeTypeOK, SwitchesCounted, Claims
    <2> QED BY <2>1
<1> QED BY <1>1, ToolsAlways, PTL

(* currentPoolSize never lags behind the pool of the node                  *)
(* (continuousTransactionsSender.ts 98-113).                               *)
THEOREM PoolSizeCovers == Spec => []PoolSizeCoversPending
<1>1. SenderInv => PoolSizeCoversPending
    <2> SUFFICES ASSUME SenderInv PROVE PoolSizeCoversPending
        OBVIOUS
    <2> DEFINE Pending == {i \in DOMAIN sends : TxOf(i) \in pool}
    <2>1. ASSUME NEW i \in Pending PROVE i \in Counted
        <3>1. PICK j \in Sent : TxOf(i) = TxOf(j)
            BY DEF SenderInv, PoolIsSent
        <3>2. i \in Sent
            BY <3>1, TxOfCall DEF Sent
        <3>3. sends[i].at # "done"
            BY DEF SenderInv, PoolIsSent
        <3> QED BY <3>2, <3>3 DEF Sent, Counted
    <2>2. IsFiniteSet(Counted)
        BY CallsFinite DEF Counted, SenderInv
    <2>3. Cardinality(Pending) <= Cardinality(Counted)
        BY <2>1, <2>2, FS_Subset
    <2> QED BY <2>3 DEF PoolSizeCoversPending, SenderInv
<1>2. ASSUME tool = "fast", ToolsInv PROVE PoolSizeCoversPending
    <2>1. {i \in DOMAIN sends : TxOf(i) \in pool} = {}
        BY <1>2 DEF ToolsInv, NodeInv
    <2> QED BY <1>2, <2>1, FS_EmptySet DEF ToolsInv, NodeInv, PoolSizeCoversPending
<1>3. ToolsInv => PoolSizeCoversPending
    BY <1>1, <1>2 DEF ToolsInv, NodeInv
<1> QED BY <1>3, ToolsAlways, PTL
=============================================================================
