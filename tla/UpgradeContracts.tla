-------------------------- MODULE UpgradeContracts --------------------------
(***************************************************************************)
(* src/src/contracts/runUpgradeContracts.ts: the proxies are compared with *)
(* the build one by one, the new contracts are deployed after a first      *)
(* question and the proxies switched after a second.  Each transaction is  *)
(* posted and its receipt awaited.  The script keeps no record: after a    *)
(* crash it is run again and compares again, while a transaction of the    *)
(* run that died may still be in the node's pool.  Another admin may       *)
(* switch a proxy or take it over meanwhile.                               *)
(*                                                                         *)
(* Code is a record: its body stands for all but the last 114 characters,  *)
(* the length among them, its tail for the rest, which differs in every    *)
(* deployment.                                                             *)
(***************************************************************************)
EXTENDS Integers, Sequences

CONSTANTS
    Proxies,          \* contractAddresses, a sequence
    Random,           \* RandomHbbft
    MaxContracts,     \* bound: contracts on the chain
    MaxForeign        \* bound: interventions of others

(* The keys of contractAddresses.                                          *)
ASSUME ProxiesShape ==
    /\ Proxies \in Seq({Proxies[i] : i \in DOMAIN Proxies})
    /\ \A i, j \in DOMAIN Proxies : i # j => Proxies[i] # Proxies[j]

Build == [body |-> "new", tail |-> 0]
OldCode == [body |-> "old", tail |-> 0]

VARIABLES
    phase,        \* "scan", "ask", "deploy", "confirm", "switch", "special" or "ended"
    index,           \* position in the loop
    pending,      \* contractsToUpdate
    newAddress,   \* of each contract that was deployed
    awaiting,     \* send() or sendTransaction() waits for the receipt
    inPool,       \* our transaction that the node has not mined yet
    contracts,    \* the code of the contract at each address
    implementation,
    admin,        \* of each proxy: "us" or "them"
    initialized,  \* RandomHbbft names the validator set
    ours,         \* history: our switches of a proxy since another admin's last
    abandoned,    \* history: proxies whose upgradeTo a run gave up while it was pending
    foreign       \* bound

scriptVars == <<phase, index, pending, newAddress, awaiting>>
proxyVars == <<contracts, implementation, admin, initialized, ours, foreign>>
upgradeVars == <<scriptVars, inPool, abandoned, proxyVars>>

ProxyNames == {Proxies[i] : i \in DOMAIN Proxies}

Transaction(kind, proxy, address) == [kind |-> kind, proxy |-> proxy, address |-> address]
NoTx == Transaction("none", "none", 0)

UpgradeInit ==
    /\ phase = "scan" /\ index = 1 /\ pending = <<>> /\ newAddress = <<>>
    /\ awaiting = FALSE /\ inPool = NoTx /\ abandoned = {}
    /\ contracts = <<OldCode, [Build EXCEPT !.tail = 2]>>
    /\ implementation \in [ProxyNames -> {1, 2}]
    /\ admin = [p \in ProxyNames |-> "us"]
    /\ initialized \in BOOLEAN
    /\ ours = [p \in ProxyNames |-> 0] /\ foreign = 0

-----------------------------------------------------------------------------
(* Mutant: compares to the last character.                                 *)
UpToDate_Whole(code) == code = Build

UpToDate(code) == code.body = Build.body

(* The run ends, by its last line or by an error that nobody catches.  A   *)
(* transaction it waited for stays where it is.                            *)
Ends ==
    /\ phase' = "ended" /\ awaiting' = FALSE
    /\ abandoned' = IF awaiting /\ inPool.kind = "upgrade"
                    THEN abandoned \cup {inPool.proxy} ELSE abandoned
    /\ UNCHANGED <<index, pending, newAddress, inPool, proxyVars>>

CompareProxy ==
    /\ phase = "scan" /\ index <= Len(Proxies)
    /\ LET p == Proxies[index]
       IN  \/ admin[p] # "us" /\ Ends
           \/ /\ admin[p] = "us"
              /\ pending' = IF UpToDate(contracts[implementation[p]]) THEN pending
                            ELSE Append(pending, p)
              /\ index' = index + 1
              /\ UNCHANGED <<phase, newAddress, awaiting, inPool, abandoned, proxyVars>>

Compared ==
    /\ phase = "scan" /\ index > Len(Proxies)
    /\ phase' = IF pending = <<>> THEN "ended" ELSE "ask"
    /\ UNCHANGED <<index, pending, newAddress, awaiting, inPool, abandoned, proxyVars>>

(* Both questions: any answer but "y" ends the script.                     *)
Answered ==
    /\ phase \in {"ask", "confirm"}
    /\ phase' \in {IF phase = "ask" THEN "deploy" ELSE "switch", "ended"}
    /\ index' = 1
    /\ UNCHANGED <<pending, newAddress, awaiting, inPool, abandoned, proxyVars>>

(* web3 takes the nonce of the newest block: while an earlier transaction  *)
(* of ours is pending, the node refuses the new one, or lets it replace    *)
(* the earlier one for a higher gas price.                                 *)
Post(tx) ==
    \/ /\ inPool' = tx /\ awaiting' = TRUE
       /\ UNCHANGED <<phase, index, pending, newAddress, abandoned, proxyVars>>
    \/ inPool # NoTx /\ Ends

(* deploy of contractTools.ts; it throws on a receipt without an address.  *)
Deploy ==
    /\ phase = "deploy" /\ ~awaiting /\ index <= Len(pending)
    /\ Post(Transaction("deploy", "none", 0))

Deployed ==
    /\ phase = "deploy" /\ index > Len(pending)
    /\ phase' = "confirm"
    /\ UNCHANGED <<index, pending, newAddress, awaiting, inPool, abandoned, proxyVars>>

UpgradeTo ==
    /\ phase = "switch" /\ ~awaiting /\ index <= Len(pending)
    /\ Post(Transaction("upgrade", pending[index], newAddress[index]))

(* RandomHbbft names the validator set, or the question about initialize   *)
(* is answered.                                                            *)
Initialize ==
    /\ phase = "special" /\ ~awaiting
    /\ \/ /\ phase' = "switch" /\ index' = index + 1
          /\ UNCHANGED <<pending, newAddress, awaiting, inPool, abandoned, proxyVars>>
       \/ ~initialized /\ Post(Transaction("initialize", "none", 0))

Upgraded ==
    /\ phase = "switch" /\ index > Len(pending)
    /\ Ends

(* A request fails, no receipt comes in web3's time, or the process is     *)
(* stopped.                                                                *)
UpgradeCrash == phase # "ended" /\ Ends

RunAgain ==
    /\ phase = "ended" /\ Len(contracts) < MaxContracts
    /\ phase' = "scan" /\ index' = 1 /\ pending' = <<>> /\ newAddress' = <<>>
    /\ UNCHANGED <<awaiting, inPool, abandoned, proxyVars>>

-----------------------------------------------------------------------------
(* The node mines our transaction or loses it.  A run that waits for it    *)
(* gets the receipt; an error ends it.                                     *)

DeployMined ==
    /\ inPool.kind = "deploy" /\ Len(contracts) < MaxContracts
    /\ inPool' = NoTx /\ awaiting' = FALSE
    /\ contracts' = Append(contracts, [Build EXCEPT !.tail = Len(contracts) + 1])
    /\ IF awaiting
       THEN newAddress' = Append(newAddress, Len(contracts) + 1) /\ index' = index + 1
       ELSE UNCHANGED <<newAddress, index>>
    /\ UNCHANGED <<phase, pending, implementation, admin, initialized, ours, abandoned, foreign>>

UpgradeMined ==
    /\ inPool.kind = "upgrade" /\ admin[inPool.proxy] = "us"
    /\ inPool' = NoTx /\ awaiting' = FALSE
    /\ implementation' = [implementation EXCEPT ![inPool.proxy] = inPool.address]
    /\ ours' = [ours EXCEPT ![inPool.proxy] = @ + 1]
    /\ \/ ~awaiting /\ UNCHANGED <<phase, index>>
       \/ awaiting /\ inPool.proxy = Random /\ phase' = "special" /\ UNCHANGED index
       \/ awaiting /\ inPool.proxy # Random /\ index' = index + 1 /\ UNCHANGED phase
    /\ UNCHANGED <<pending, newAddress, contracts, admin, initialized, abandoned, foreign>>

InitializeMined ==
    /\ inPool.kind = "initialize"
    /\ inPool' = NoTx /\ awaiting' = FALSE /\ initialized' = TRUE
    /\ IF awaiting THEN phase' = "switch" /\ index' = index + 1 ELSE UNCHANGED <<phase, index>>
    /\ UNCHANGED <<pending, newAddress, contracts, implementation, admin, ours, abandoned, foreign>>

(* upgradeTo reverts when the proxy has another admin by now; any          *)
(* transaction may be dropped from the pool.                               *)
NotMined ==
    /\ inPool # NoTx /\ inPool' = NoTx
    /\ phase' = (IF awaiting THEN "ended" ELSE phase) /\ awaiting' = FALSE
    /\ UNCHANGED <<index, pending, newAddress, abandoned, proxyVars>>

(* Another admin (external) puts other code behind a proxy, or keeps it.   *)
OtherAdmin ==
    /\ foreign < MaxForeign /\ foreign' = foreign + 1
    /\ \E p \in ProxyNames :
        /\ admin' \in {[admin EXCEPT ![p] = "us"], [admin EXCEPT ![p] = "them"]}
        /\ implementation' \in {[implementation EXCEPT ![p] = a] : a \in {1, 2}}
        /\ ours' = [ours EXCEPT ![p] = 0]
    /\ UNCHANGED <<scriptVars, inPool, abandoned, contracts, initialized>>

UpgradeNext ==
    \/ CompareProxy \/ Compared \/ Answered \/ Deploy \/ Deployed \/ UpgradeTo
    \/ Initialize \/ Upgraded \/ UpgradeCrash \/ RunAgain
    \/ DeployMined \/ UpgradeMined \/ InitializeMined \/ NotMined \/ OtherAdmin

-----------------------------------------------------------------------------
(* Properties.                                                             *)

(* However often the script dies and is run again, it switches a proxy     *)
(* once, unless another admin changed it in between: what an earlier run   *)
(* has switched, and nothing else, is up to date for the next.  A run that *)
(* gave up a pending upgradeTo is the one exception: the next run may      *)
(* compare before it is mined, and the proxy is switched twice, but not    *)
(* three times (runUpgradeContracts.ts 113-161, 322-332).                  *)
SwitchedOnce ==
    \A p \in ProxyNames : ours[p] <= IF p \in abandoned THEN 2 ELSE 1
=============================================================================
