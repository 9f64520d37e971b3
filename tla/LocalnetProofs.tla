--------------------------- MODULE LocalnetProofs ---------------------------
(***************************************************************************)
(* The node manager, and the scripts that use it, for every set of nodes,  *)
(* every number of deaths and every script of ScriptsShape.                *)
(*                                                                         *)
(* No node has two processes, whatever the order of calls.  The count of   *)
(* processes alone is not inductive: that a start is safe depends on what  *)
(* the object believes.  The scripts only make calls the node manager is   *)
(* made for, and no process runs while a script saves the network.         *)
(***************************************************************************)
EXTENDS Localnet, TLAPS

(* The inductive invariant: the objects and the processes agree.           *)
Agreement == NodeTypeOK /\ ChildrenCounted /\ NotStartedIsGone

LEMMA AgreementInit == Init => Agreement
  BY NodesShape DEF Init, Agreement, NodeTypeOK, NodeState, ChildrenCounted, NotStartedIsGone, Fresh, AllIds

(* A spawn happens only where the object says that nothing runs.           *)
LEMMA StartAgrees ==
  ASSUME Agreement, NEW S \in SUBSET AllIds, Start(S)
  PROVE  Agreement'
<1>1. \A n \in Reached(S) : n \in AllIds /\ ~node[n].started
  BY NodesShape DEF Reached, AllIds
<1>2. \A n \in Reached(S) : alive[n] = 0
  BY <1>1 DEF Agreement, ChildrenCounted, NotStartedIsGone
<1>3. NodeTypeOK'
  <2>1. \A n \in AllIds : Spawned(n) \in NodeState
    BY DEF Agreement, NodeTypeOK, NodeState, Spawned
  <2>2. node' \in [AllIds -> NodeState]
    BY <2>1 DEF Agreement, NodeTypeOK, Start
  <2>3. alive' \in [AllIds -> Int]
    BY DEF Agreement, NodeTypeOK, Start
  <2> QED
    BY <2>2, <2>3 DEF Agreement, NodeTypeOK, Start
<1>4. ChildrenCounted'
  <2>1. SUFFICES ASSUME NEW n \in AllIds
                 PROVE  alive'[n] = IF node'[n].child \in {"running", "term"} THEN 1 ELSE 0
    BY DEF ChildrenCounted
  <2>2. CASE n \in Reached(S)
    <3>1. alive'[n] = 1
      BY <2>2, <1>2 DEF Start
    <3>2. node'[n] = Spawned(n)
      BY <2>2 DEF Start
    <3>3. Spawned(n).child = "running"
      BY DEF Agreement, NodeTypeOK, NodeState, Spawned
    <3> QED
      BY <3>1, <3>2, <3>3
  <2>3. CASE n \notin Reached(S)
    BY <2>3 DEF Agreement, ChildrenCounted, Start
  <2> QED
    BY <2>2, <2>3
<1>5. NotStartedIsGone'
  BY <1>1 DEF Agreement, NodeTypeOK, NodeState, NotStartedIsGone, Start, Spawned
<1> QED
  BY <1>3, <1>4, <1>5 DEF Agreement

LEMMA StartRpcAgrees ==
  ASSUME Agreement, alive[0] = 0, stops[0] = "no", StartRpcNode
  PROVE  Agreement'
<1>1. 0 \in AllIds
  BY DEF AllIds
<1>2. NodeTypeOK'
  <2>1. [Fresh EXCEPT !.started = TRUE, !.child = "running"] \in NodeState
    BY DEF Fresh, NodeState
  <2>2. node' \in [AllIds -> NodeState]
    BY <1>1, <2>1 DEF Agreement, NodeTypeOK, StartRpcNode
  <2>3. alive' \in [AllIds -> Int]
    BY <1>1 DEF Agreement, NodeTypeOK, StartRpcNode
  <2> QED
    BY <2>2, <2>3 DEF Agreement, NodeTypeOK, StartRpcNode
<1>3. ChildrenCounted'
  BY <1>1 DEF Agreement, NodeTypeOK, NodeState, ChildrenCounted, StartRpcNode, Fresh
<1>4. NotStartedIsGone'
  BY <1>1 DEF Agreement, NodeTypeOK, NodeState, NotStartedIsGone, StartRpcNode, Fresh
<1> QED
  BY <1>2, <1>3, <1>4 DEF Agreement

LEMMA StopAgrees ==
  ASSUME Agreement, NEW S \in SUBSET AllIds, NEW force \in BOOLEAN, Stop(S, force)
  PROVE  Agreement'
<1>1. NodeTypeOK'
  BY DEF Agreement, NodeTypeOK, NodeState, Stop, Signalled, Refuses
<1>2. ChildrenCounted'
  BY DEF Agreement, NodeTypeOK, NodeState, ChildrenCounted, Stop, Signalled
<1>3. NotStartedIsGone'
  BY DEF Agreement, NodeTypeOK, NodeState, NotStartedIsGone, Stop, Signalled
<1> QED
  BY <1>1, <1>2, <1>3 DEF Agreement

(* A process ends, by itself or after SIGTERM.                             *)
LEMMA EndAgrees ==
  ASSUME Agreement, NEW n \in AllIds, Dies(n) \/ Terminates(n)
  PROVE  Agreement'
<1>1. node[n].child \in {"running", "term"} /\ Ends(n) /\ UNCHANGED stops
  BY DEF Dies, Terminates
<1>2. deaths' \in 0 .. MaxDeaths
  BY NodesShape DEF Agreement, NodeTypeOK, Dies, Terminates
<1>3. NodeTypeOK'
  BY <1>1, <1>2 DEF Agreement, NodeTypeOK, NodeState, Ends
<1>4. ChildrenCounted'
  BY <1>1 DEF Agreement, NodeTypeOK, NodeState, ChildrenCounted, Ends
<1>5. NotStartedIsGone'
  BY <1>1 DEF Agreement, NodeTypeOK, NodeState, NotStartedIsGone, Ends
<1> QED
  BY <1>3, <1>4, <1>5 DEF Agreement

(* A node that waits for its stop is shutting down, so that the restart    *)
(* and the end of the stop exclude each other.                             *)
Listening == \A n \in AllIds : stops[n] = "listening" => node[n].shutting

LEMMA CloseTyped ==
  ASSUME NodeTypeOK, NEW n \in AllIds, Close(n)
  PROVE  /\ node' \in [AllIds -> NodeState]
         /\ stops' \in [AllIds -> {"no", "listening", "stuck"}]
<1> DEFINE c == IF Restarts(n) THEN "running" ELSE "closed"
           b == node[n].started /\ stops[n] # "listening"
<1>1. node' = [node EXCEPT ![n].child = c, ![n].started = b]
  BY DEF Close
<1>2. c \in {"running", "closed"} /\ b \in BOOLEAN
  OBVIOUS
<1>3. node' = [node EXCEPT ![n] = [node[n] EXCEPT !.child = c, !.started = b]]
  BY <1>1 DEF NodeTypeOK
<1>4. [node[n] EXCEPT !.child = c, !.started = b] \in NodeState
  <2> HIDE DEF c, b
  <2> QED
    BY <1>2 DEF NodeTypeOK, NodeState
<1>5. node' \in [AllIds -> NodeState]
  BY <1>3, <1>4 DEF NodeTypeOK
<1>6. stops' \in [AllIds -> {"no", "listening", "stuck"}]
  BY DEF NodeTypeOK, Close
<1> QED
  BY <1>5, <1>6

LEMMA CloseAgrees ==
  ASSUME Agreement, Listening, NEW n \in AllIds, Close(n)
  PROVE  Agreement'
<1>1. CASE Restarts(n)
  <2>1. ~node[n].shutting /\ stops[n] # "listening"
    BY <1>1 DEF Restarts, Listening
  <2>2. /\ node' = [node EXCEPT ![n].child = "running", ![n].started = @ /\ stops[n] # "listening"]
        /\ alive' = [alive EXCEPT ![n] = @ + 1]
    BY <1>1 DEF Close
  <2>3. node[n].child = "exited" /\ node[n].started /\ alive[n] = 0
    BY DEF Agreement, ChildrenCounted, NotStartedIsGone, Close
  <2>4. NodeTypeOK'
    <3>1. alive' \in [AllIds -> Int]
      BY <2>2 DEF Agreement, NodeTypeOK
    <3>2. deaths' \in 0 .. MaxDeaths
      BY DEF Agreement, NodeTypeOK, Close
    <3>3. NodeTypeOK /\ Close(n)
      BY DEF Agreement
    <3> QED
      BY <3>1, <3>2, <3>3, CloseTyped DEF NodeTypeOK
  <2>5. ChildrenCounted'
    BY <2>2, <2>3 DEF Agreement, NodeTypeOK, NodeState, ChildrenCounted
  <2>6. NotStartedIsGone'
    BY <2>1, <2>2, <2>3 DEF Agreement, NodeTypeOK, NodeState, NotStartedIsGone
  <2> QED
    BY <2>4, <2>5, <2>6 DEF Agreement
<1>2. CASE ~Restarts(n)
  <2>1. /\ node' = [node EXCEPT ![n].child = "closed", ![n].started = @ /\ stops[n] # "listening"]
        /\ alive' = [alive EXCEPT ![n] = @]
    BY <1>2 DEF Close
  <2>2. node[n].child = "exited"
    BY DEF Close
  <2>3. NodeTypeOK'
    <3>1. NodeTypeOK
      BY DEF Agreement
    <3>2. node' \in [AllIds -> NodeState] /\ stops' \in [AllIds -> {"no", "listening", "stuck"}]
      BY <3>1, CloseTyped
    <3>3. alive' \in [AllIds -> Int]
      BY <2>1, <3>1 DEF NodeTypeOK
    <3> QED
      BY <3>1, <3>2, <3>3 DEF NodeTypeOK, Close
  <2>4. ChildrenCounted'
    BY <2>1, <2>2 DEF Agreement, NodeTypeOK, NodeState, ChildrenCounted
  <2>5. NotStartedIsGone'
    BY <2>1 DEF Agreement, NodeTypeOK, NodeState, NotStartedIsGone
  <2> QED
    BY <2>3, <2>4, <2>5 DEF Agreement
<1> QED
  BY <1>1, <1>2

LEMMA ListeningStep ==
  ASSUME NodeTypeOK, Listening, [Next]_nodeVars
  PROVE  Listening'
<1>1. ASSUME NEW S \in SUBSET AllIds, Start(S) PROVE Listening'
  BY <1>1 DEF NodeTypeOK, NodeState, Listening, Start, Spawned
<1>2. ASSUME NEW S \in SUBSET AllIds, NEW force \in BOOLEAN, Stop(S, force) PROVE Listening'
  BY <1>2 DEF NodeTypeOK, NodeState, Listening, Stop, Signalled
<1>3. ASSUME alive[0] = 0, stops[0] = "no", StartRpcNode PROVE Listening'
  BY <1>3 DEF NodeTypeOK, NodeState, Listening, StartRpcNode
<1>4. ASSUME NEW n \in AllIds, Dies(n) \/ Terminates(n) PROVE Listening'
  BY <1>4 DEF NodeTypeOK, NodeState, Listening, Dies, Terminates, Ends
<1>5. ASSUME NEW n \in AllIds, Close(n) PROVE Listening'
  <2>1. /\ stops' = [stops EXCEPT ![n] = IF @ = "listening" THEN "no" ELSE @]
        /\ \A m \in AllIds \ {n} : node'[m] = node[m]
    BY <1>5 DEF NodeTypeOK, Close
  <2>2. stops'[n] # "listening" /\ \A m \in AllIds \ {n} : stops'[m] = stops[m]
    BY <2>1 DEF NodeTypeOK
  <2> QED
    BY <2>1, <2>2 DEF Listening
<1>6. CASE UNCHANGED nodeVars
  BY <1>6 DEF Listening, nodeVars
<1> QED
  BY <1>1, <1>2, <1>3, <1>4, <1>5, <1>6 DEF Next

LEMMA AgreementStep ==
  ASSUME Agreement, Listening, [Next]_nodeVars
  PROVE  Agreement'
<1>1. CASE UNCHANGED nodeVars
  BY <1>1 DEF nodeVars, Agreement, NodeTypeOK, ChildrenCounted, NotStartedIsGone
<1> QED
  BY <1>1, StartAgrees, StartRpcAgrees, StopAgrees, EndAgrees, CloseAgrees DEF Next

(* Whatever the order of calls, deaths and close events, the objects are   *)
(* well formed, and each counts its processes rightly (nodeManager.ts      *)
(* 143-232).                                                               *)
THEOREM ObjectsAgree == Spec => [](NodeTypeOK /\ ChildrenCounted)
<1>1. Init => Agreement /\ Listening
  BY AgreementInit DEF Init, Listening
<1>2. Agreement /\ Listening /\ [Next]_nodeVars => (Agreement /\ Listening)'
  BY AgreementStep, ListeningStep DEF Agreement
<1>3. Agreement => NodeTypeOK /\ ChildrenCounted
  BY DEF Agreement
<1> QED
  BY <1>1, <1>2, <1>3, PTL DEF Spec

(* A restart by the close listener, a start and a stop never meet in a way *)
(* that leaves two processes in the directory of one node.                 *)
THEOREM OneProcess == Spec => []OneProcessEach
<1>1. ChildrenCounted => OneProcessEach
  BY DEF ChildrenCounted, OneProcessEach
<1> QED
  BY <1>1, ObjectsAgree, PTL

-----------------------------------------------------------------------------
(* The scripts.  From the stop of all nodes to the copy of the network the *)
(* nodes go from ending to gone, and what has gone does not come back: the *)
(* close listener restarts only what is not shutting down.  A node that    *)
(* died before the stop was handled never lets it return.                  *)

Gone(n) == node[n].child \in {"none", "closed"}

Ending(n) ==
    /\ node[n].child # "running"
    /\ node[n].child # "none" => node[n].shutting
    /\ stops[n] = "no" => Gone(n)

Is(i, op) == i \in DOMAIN script /\ script[i].op = op

NoRpcYet ==
    at \in DOMAIN script /\ \A j \in 1 .. at : 0 \notin script[j].nodes /\ (j < at => script[j].op # "newRpc")

ScriptInv ==
    /\ script \in Scripts /\ at \in Nat \ {0}
    /\ phase \in {"call", "await", "rejected", "exited"}
    /\ phase = "await" => at \in DOMAIN script

QuietInv ==
    /\ Is(at, "stopAllForced") /\ phase = "await" => \A n \in NodeIds : Ending(n)
    /\ Is(at - 1, "stopAllForced") /\ Is(at, "stopRpc") =>
        /\ \A n \in NodeIds : Gone(n) /\ stops[n] = "no"
        /\ phase = "call" => stops[0] = "no"
        /\ phase = "await" => Ending(0)
    /\ Is(at, "save") => \A n \in AllIds : Gone(n) /\ stops[n] = "no"
    /\ Is(at - 1, "save") /\ Is(at, "newRpc") => Gone(0) /\ stops[0] = "no"
    /\ NoRpcYet => node[0].child = "none" /\ stops[0] = "no"

LocalInv == Agreement /\ Listening /\ ScriptInv /\ QuietInv

LEMMA ScriptFacts ==
    ASSUME ScriptInv
    PROVE  /\ script \in Seq([op : STRING, nodes : SUBSET Nat])
           /\ DOMAIN script \subseteq Nat \ {0}
           /\ \A i \in DOMAIN script : \A j \in 1 .. i : j \in DOMAIN script
           /\ \A i \in DOMAIN script :
                /\ script[i].op = "start" => script[i].nodes \subseteq AllIds
                /\ script[i].op = "save" =>
                    i > 2 /\ script[i - 2].op = "stopAllForced" /\ script[i - 1].op = "stopRpc"
                /\ script[i].op = "newRpc" =>
                    \/ i > 1 /\ script[i - 1].op = "save"
                    \/ \A j \in 1 .. i : 0 \notin script[j].nodes /\ (j < i => script[j].op # "newRpc")
<1>1. script \in Seq([op : STRING, nodes : SUBSET Nat])
    BY ScriptsShape DEF ScriptInv
<1>2. DOMAIN script = 1 .. Len(script) /\ Len(script) \in Nat
    BY <1>1
<1> QED BY <1>1, <1>2, ScriptsShape DEF ScriptInv

(* What the nodes do beside the script: none that ends or is gone returns. *)
LEMMA EndingStays ==
    ASSUME Agreement, NEW m \in AllIds, Dies(m) \/ Terminates(m) \/ Close(m), NEW n \in AllIds
    PROVE  /\ Gone(n) => node'[n] = node[n] /\ stops'[n] = stops[n]
           /\ Ending(n) => Ending(n)'
           /\ stops[n] = "no" => stops'[n] = "no"
<1>1. CASE Dies(m) \/ Terminates(m)
    <2>1. /\ node' = [node EXCEPT ![m].child = "exited"] /\ stops' = stops
          /\ node[m].child \in {"running", "term"}
        BY <1>1 DEF Dies, Terminates, Ends
    <2>2. ~Gone(m)
        BY <2>1 DEF Gone
    <2>3. n # m => node'[n] = node[n]
        BY <2>1 DEF Agreement, NodeTypeOK
    <2>4. node'[m].child = "exited" /\ node'[m].shutting = node[m].shutting
        BY <2>1 DEF Agreement, NodeTypeOK, NodeState
    <2> QED BY <2>1, <2>2, <2>3, <2>4 DEF Ending, Gone
<1>2. CASE Close(m)
    <2>1. /\ node[m].child = "exited"
          /\ stops' = [stops EXCEPT ![m] = IF @ = "listening" THEN "no" ELSE @]
        BY <1>2 DEF Close
    <2>2. ~Gone(m)
        BY <2>1 DEF Gone
    <2>3. n # m => node'[n] = node[n] /\ stops'[n] = stops[n]
        BY <1>2, <2>1 DEF Close, Agreement, NodeTypeOK
    <2>4. /\ node'[m].child = IF Restarts(m) THEN "running" ELSE "closed"
          /\ node'[m].shutting = node[m].shutting
        BY <1>2 DEF Close, Agreement, NodeTypeOK, NodeState
    <2>5. node[m].shutting => node'[m].child = "closed"
        BY <2>4 DEF Restarts
    <2>6. stops[m] = "no" => stops'[m] = "no"
        BY <2>1 DEF Agreement, NodeTypeOK
    <2> QED BY <2>1, <2>2, <2>3, <2>4, <2>5, <2>6 DEF Ending, Gone
<1> QED BY <1>1, <1>2

LEMMA NodesMove ==
    ASSUME LocalInv, NEW m \in AllIds, Dies(m) \/ Terminates(m) \/ Close(m),
           script' = script, at' = at, phase' = phase
    PROVE  ScriptInv' /\ QuietInv'
<1>1. ScriptInv' /\ NoRpcYet' = NoRpcYet /\ \A i, op : Is(i, op)' = Is(i, op)
    BY DEF LocalInv, ScriptInv, NoRpcYet, Is
<1>2. \A n \in AllIds : /\ Gone(n) => node'[n] = node[n] /\ stops'[n] = stops[n]
                        /\ Ending(n) => Ending(n)'
                        /\ stops[n] = "no" => stops'[n] = "no"
    BY EndingStays DEF LocalInv
<1>3. NodeIds \subseteq AllIds /\ 0 \in AllIds
    BY DEF AllIds
<1>4. \A n \in AllIds : Gone(n) => Gone(n)'
    BY <1>2 DEF Gone
<1>5. node[0].child = "none" => node'[0].child = "none"
    BY <1>2, <1>3 DEF Gone
<1> QED BY <1>1, <1>2, <1>3, <1>4, <1>5 DEF LocalInv, QuietInv, Is

(* The script stays where it is, or goes on from a command that has no     *)
(* part in saving the network.                                             *)
LEMMA ScriptStays ==
    ASSUME LocalInv, UNCHANGED nodeVars, script' = script, at' = at,
           phase' \in {phase, "rejected", "exited"}
    PROVE  ScriptInv' /\ QuietInv'
<1>1. ScriptInv' /\ NoRpcYet' = NoRpcYet /\ \A i, op : Is(i, op)' = Is(i, op)
    BY DEF LocalInv, ScriptInv, NoRpcYet, Is
<1>2. node' = node /\ stops' = stops
    BY DEF nodeVars
<1>3. \A n : Gone(n)' = Gone(n) /\ Ending(n)' = Ending(n)
    BY <1>2 DEF Gone, Ending
<1> QED BY <1>1, <1>2, <1>3 DEF LocalInv, QuietInv, Is

GoesOn == at' = at + 1 /\ phase' = "call" /\ script' = script

LEMMA Proceeded ==
    ASSUME ScriptInv, at \in DOMAIN script, GoesOn
    PROVE  /\ ScriptInv' /\ phase' = "call" /\ script' = script /\ at' = at + 1 /\ at' - 1 = at
           /\ NoRpcYet' => NoRpcYet /\ 0 \notin script[at].nodes /\ script[at].op # "newRpc"
           /\ \A i, op : Is(i, op)' <=> Is(i, op)
<1>1. phase' = "call" /\ script' = script /\ at' = at + 1 /\ at \in Nat \ {0}
    BY DEF GoesOn, ScriptInv
<1>2. ScriptInv'
    BY <1>1 DEF ScriptInv
<1>3. ASSUME NoRpcYet'
      PROVE  NoRpcYet /\ 0 \notin script[at].nodes /\ script[at].op # "newRpc"
    <2>1. \A j \in 1 .. at + 1 : 0 \notin script[j].nodes /\ (j < at + 1 => script[j].op # "newRpc")
        BY <1>1, <1>3 DEF NoRpcYet
    <2>2. at \in 1 .. at + 1 /\ at < at + 1
        BY <1>1
    <2>3. \A j \in 1 .. at : j \in 1 .. at + 1 /\ (j < at => j < at + 1)
        BY <1>1
    <2>4. 0 \notin script[at].nodes /\ script[at].op # "newRpc"
        BY <2>1, <2>2
    <2> QED BY <2>1, <2>3, <2>4 DEF NoRpcYet
<1> QED BY <1>1, <1>2, <1>3 DEF Is

(* After any other command none of the steps of the save is at hand.       *)
LEMMA OtherCommand ==
    ASSUME ScriptInv, at \in DOMAIN script, GoesOn,
           script[at].op \notin {"stopAllForced", "stopRpc", "save"},
           NoRpcYet' => node'[0].child = "none" /\ stops'[0] = "no"
    PROVE  ScriptInv' /\ QuietInv'
<1>1. /\ ScriptInv' /\ phase' = "call" /\ script' = script /\ at' - 1 = at
      /\ \A i, op : Is(i, op)' <=> Is(i, op)
    BY Proceeded
<1>2. ~Is(at - 1, "stopAllForced")' /\ ~Is(at - 1, "save")'
    BY <1>1 DEF Is
<1>3. ~Is(at, "save")'
    <2> SUFFICES ASSUME at' \in DOMAIN script, script[at'].op = "save" PROVE FALSE
        BY <1>1 DEF Is
    <2>1. script[at' - 1].op = "stopRpc"
        BY ScriptFacts
    <2> QED BY <1>1, <2>1
<1> QED BY <1>1, <1>2, <1>3 DEF QuietInv

LEMMA Called ==
    ASSUME ScriptInv, NEW op, Calls(op)
    PROVE  at \in DOMAIN script /\ script[at].op = op /\ phase = "call"
<1>1. DOMAIN script = 1 .. Len(script)
    BY ScriptFacts
<1> QED BY <1>1 DEF Calls, ScriptInv

(* A stop that is asked for.                                               *)
LEMMA StopAsks ==
    ASSUME NodeTypeOK, NEW S \in SUBSET AllIds, NEW force \in BOOLEAN, Stop(S, force), NEW n \in AllIds
    PROVE  /\ n \notin S => node'[n] = node[n] /\ stops'[n] = stops[n]
           /\ node[n].child = "none" => node'[n] = node[n] /\ stops'[n] = stops[n]
           /\ n \in S /\ ~Refuses(n, force) =>
                /\ node'[n].child # "running" /\ node'[n].shutting
                /\ stops'[n] # "no"
<1>1. CASE n \in S /\ ~Refuses(n, force)
    <2>1. node'[n] = Signalled(n) /\ stops'[n] # "no"
        BY <1>1 DEF Stop
    <2>2. Signalled(n).shutting /\ Signalled(n).child # "running"
        BY DEF Signalled, NodeTypeOK, NodeState
    <2>3. node[n].child # "none"
        BY <1>1 DEF Refuses
    <2> QED BY <1>1, <2>1, <2>2, <2>3
<1>2. CASE ~(n \in S /\ ~Refuses(n, force))
    BY <1>2 DEF Stop
<1> QED BY <1>1, <1>2

(* A command that has no part in the save and leaves the script at it.     *)
LEMMA OtherWaits ==
    ASSUME ScriptInv, at \in DOMAIN script, script' = script, at' = at,
           phase' \in {"await", "rejected", "exited"},
           script[at].op \notin {"stopAllForced", "stopRpc", "save", "newRpc"},
           NoRpcYet => node'[0].child = "none" /\ stops'[0] = "no"
    PROVE  ScriptInv' /\ QuietInv'
<1>1. ScriptInv' /\ NoRpcYet' = NoRpcYet
    BY DEF ScriptInv, NoRpcYet
<1>2. ~Is(at, "stopAllForced")' /\ ~Is(at, "stopRpc")' /\ ~Is(at, "save")' /\ ~Is(at, "newRpc")'
    BY DEF Is
<1> QED BY <1>1, <1>2 DEF QuietInv

(* The commands that start nodes, at the place the script makes them.      *)
LEMMA StartsKeep ==
    ASSUME LocalInv, StartNodes \/ StartRpc
    PROVE  ScriptInv' /\ QuietInv' /\ Next
<1>1. ScriptInv /\ Agreement /\ 0 \in AllIds
    BY DEF LocalInv, AllIds
<1>2. CASE StartNodes
    <2>1. at \in DOMAIN script /\ script[at].op = "start" /\ Nodes \subseteq AllIds /\ Start(Nodes)
        BY <1>1, <1>2, Called, ScriptFacts DEF StartNodes, Nodes
    <2>2. NoRpcYet => node'[0].child = "none" /\ stops'[0] = "no"
        <3> SUFFICES ASSUME NoRpcYet PROVE node'[0].child = "none" /\ stops'[0] = "no"
            OBVIOUS
        <3>1. at \in 1 .. at
            BY <1>1 DEF ScriptInv
        <3>2. 0 \notin Nodes
            BY <3>1 DEF NoRpcYet, Nodes
        <3>3. node'[0] = node[0] /\ stops' = stops
            BY <1>1, <2>1, <3>2 DEF Start, Reached
        <3> QED BY <3>3 DEF LocalInv, QuietInv
    <2>3. CASE Throws(Nodes)
        <3>1. script' = script /\ at' = at /\ phase' \in {"rejected", "exited"}
            BY <1>2, <2>3 DEF StartNodes, Throw
        <3> QED BY <1>1, <2>1, <2>2, <3>1, OtherWaits DEF Next
    <2>4. CASE ~Throws(Nodes)
        <3>1. GoesOn
            BY <1>2, <2>4 DEF StartNodes, Proceed, GoesOn
        <3>2. NoRpcYet' => NoRpcYet
            BY <1>1, <2>1, <3>1, Proceeded
        <3> QED BY <1>1, <2>1, <2>2, <3>1, <3>2, OtherCommand DEF Next
    <2> QED BY <2>3, <2>4
<1>3. CASE StartRpc
    <2>1. at \in DOMAIN script /\ script[at].op = "newRpc" /\ StartRpcNode /\ GoesOn
        BY <1>1, <1>3, Called DEF StartRpc, Proceed, GoesOn
    <2>2. NoRpcYet \/ (Is(at - 1, "save") /\ Is(at, "newRpc"))
        <3>1. CASE at > 1 /\ script[at - 1].op = "save"
            <4>1. at - 1 \in 1 .. at
                BY <1>1, <3>1 DEF ScriptInv
            <4> QED BY <1>1, <2>1, <3>1, <4>1, ScriptFacts DEF Is
        <3>2. CASE \A j \in 1 .. at : 0 \notin script[j].nodes /\ (j < at => script[j].op # "newRpc")
            BY <2>1, <3>2 DEF NoRpcYet
        <3> QED BY <1>1, <2>1, <3>1, <3>2, ScriptFacts
    <2>3. Gone(0) /\ stops[0] = "no"
        BY <2>2 DEF LocalInv, QuietInv, Gone
    <2>4. alive[0] = 0
        BY <1>1, <2>3 DEF Agreement, ChildrenCounted, Gone
    <2>5. ~NoRpcYet'
        BY <1>1, <2>1, Proceeded
    <2> QED BY <1>1, <2>1, <2>3, <2>4, <2>5, OtherCommand DEF Next
<1> QED BY <1>2, <1>3

(* The commands that stop nodes.                                           *)
LEMMA StopsKeep ==
    ASSUME LocalInv, StopNodes \/ StopAllForced \/ SignalAll \/ StopAllNodes
    PROVE  ScriptInv' /\ QuietInv' /\ Next
<1>1. ScriptInv /\ NodeTypeOK /\ 0 \in AllIds
    BY DEF LocalInv, AllIds, Agreement
<1>2. NodeIds \in SUBSET AllIds /\ 0 \notin NodeIds /\ StopTargets \in SUBSET AllIds
    BY NodesShape DEF AllIds, StopTargets
<1>3. ASSUME NEW S \in SUBSET AllIds, NEW force \in BOOLEAN, Stop(S, force), NoRpcYet
      PROVE  node'[0].child = "none" /\ stops'[0] = "no"
    <2>1. node[0].child = "none" /\ stops[0] = "no"
        BY <1>3 DEF LocalInv, QuietInv
    <2> QED BY <1>1, <1>3, <2>1, StopAsks
<1>4. CASE StopNodes
    <2>1. at \in DOMAIN script /\ script[at].op = "stop"
        BY <1>1, <1>4, Called DEF StopNodes
    <2>2. /\ Stop(Nodes \cap AllIds, FALSE) /\ script' = script /\ at' = at
          /\ phase' \in {"await", "rejected", "exited"}
        BY <1>4 DEF StopNodes, Wait, Throw
    <2>3. Nodes \cap AllIds \in SUBSET AllIds
        OBVIOUS
    <2> QED BY <1>1, <1>3, <2>1, <2>2, <2>3, OtherWaits DEF Next
<1>5. CASE StopAllNodes
    <2>1. at \in DOMAIN script /\ script[at].op = "stopAll"
        BY <1>1, <1>5, Called DEF StopAllNodes
    <2>2. Stop(StopTargets, FALSE) /\ script' = script /\ at' = at /\ phase' = "await"
        BY <1>5 DEF StopAllNodes, Wait
    <2> QED BY <1>1, <1>2, <1>3, <2>1, <2>2, OtherWaits DEF Next
<1>6. CASE SignalAll
    <2>1. at \in DOMAIN script /\ script[at].op = "signalAll"
        BY <1>1, <1>6, Called DEF SignalAll
    <2>2. Stop(NodeIds, TRUE) /\ GoesOn
        BY <1>6 DEF SignalAll, Proceed, GoesOn
    <2>3. NoRpcYet' => NoRpcYet
        BY <1>1, <2>1, <2>2, Proceeded
    <2> QED BY <1>1, <1>2, <1>3, <2>1, <2>2, <2>3, OtherCommand DEF Next
<1>7. CASE StopAllForced
    <2>1. at \in DOMAIN script /\ script[at].op = "stopAllForced"
        BY <1>1, <1>7, Called DEF StopAllForced
    <2>2. /\ Stop(NodeIds, TRUE) /\ script' = script /\ at' = at
          /\ phase' \in {"await", "rejected", "exited"}
          /\ phase' = "await" => \A n \in NodeIds : ~Refuses(n, TRUE)
        BY <1>7 DEF StopAllForced, Wait, Throw
    <2>3. ScriptInv' /\ NoRpcYet' = NoRpcYet
        BY <1>1, <2>1, <2>2 DEF ScriptInv, NoRpcYet
    <2>4. NoRpcYet => node'[0].child = "none" /\ stops'[0] = "no"
        BY <1>2, <1>3, <2>2
    <2>5. phase' = "await" => \A n \in NodeIds : Ending(n)'
        BY <1>1, <1>2, <2>2, StopAsks DEF Ending
    <2>6. ~Is(at, "stopRpc")' /\ ~Is(at, "save")' /\ ~Is(at, "newRpc")'
        BY <2>1, <2>2 DEF Is
    <2>7. QuietInv'
        BY <2>3, <2>4, <2>5, <2>6 DEF QuietInv
    <2> QED BY <1>2, <2>2, <2>3, <2>7 DEF Next
<1> QED BY <1>4, <1>5, <1>6, <1>7

LEMMA StopRpcKeeps ==
    ASSUME LocalInv, StopRpcNode
    PROVE  ScriptInv' /\ QuietInv' /\ (Next \/ UNCHANGED nodeVars)
<1>1. ScriptInv /\ Agreement /\ NodeTypeOK /\ 0 \in AllIds /\ 0 \notin NodeIds /\ NodeIds \subseteq AllIds
    BY NodesShape DEF LocalInv, AllIds, Agreement
<1>2. at \in DOMAIN script /\ script[at].op = "stopRpc" /\ phase = "call"
    BY <1>1, Called DEF StopRpcNode
<1>3. CASE node[0].started
    <2>1. Stop({0}, FALSE) /\ script' = script /\ at' = at /\ phase' = "await" /\ {0} \in SUBSET AllIds
        BY <1>1, <1>3 DEF StopRpcNode, Wait
    <2>2. ScriptInv' /\ NoRpcYet' = NoRpcYet
        BY <1>1, <1>2, <2>1 DEF ScriptInv, NoRpcYet
    <2>3. \A n \in NodeIds : node'[n] = node[n] /\ stops'[n] = stops[n]
        BY <1>1, <2>1, StopAsks
    <2>4. node[0].child = "none" => node'[0] = node[0] /\ stops'[0] = stops[0]
        BY <1>1, <2>1, StopAsks
    <2>5. Is(at - 1, "stopAllForced") =>
            (\A n \in NodeIds : Gone(n)' /\ stops'[n] = "no") /\ Ending(0)'
        <3> SUFFICES ASSUME Is(at - 1, "stopAllForced")
                     PROVE  (\A n \in NodeIds : Gone(n)' /\ stops'[n] = "no") /\ Ending(0)'
            OBVIOUS
        <3>1. (\A n \in NodeIds : Gone(n) /\ stops[n] = "no") /\ stops[0] = "no"
            BY <1>2 DEF LocalInv, QuietInv, Is
        <3>2. \A n \in NodeIds : Gone(n)' /\ stops'[n] = "no"
            BY <2>3, <3>1 DEF Gone
        <3>3. CASE Refuses(0, FALSE)
            <4>1. node[0].child = "none"
                BY <1>3, <3>3 DEF Refuses
            <4> QED BY <2>4, <3>1, <3>2, <4>1 DEF Ending, Gone
        <3>4. CASE ~Refuses(0, FALSE)
            <4>1. node'[0].child # "running" /\ node'[0].shutting /\ stops'[0] # "no"
                BY <1>1, <2>1, <3>4, StopAsks
            <4> QED BY <3>2, <4>1 DEF Ending
        <3> QED BY <3>3, <3>4
    <2>6. ~Is(at, "stopAllForced")' /\ ~Is(at, "save")' /\ ~Is(at, "newRpc")'
          /\ Is(at - 1, "stopAllForced")' = Is(at - 1, "stopAllForced")
        BY <1>2, <2>1 DEF Is
    <2>7. NoRpcYet => node'[0].child = "none" /\ stops'[0] = "no"
        BY <2>4 DEF LocalInv, QuietInv
    <2>8. QuietInv'
        BY <2>1, <2>2, <2>5, <2>6, <2>7 DEF QuietInv
    <2> QED BY <2>1, <2>2, <2>8 DEF Next
<1>4. CASE ~node[0].started
    <2>1. GoesOn /\ UNCHANGED nodeVars /\ node' = node /\ stops' = stops
        BY <1>4 DEF StopRpcNode, nodeVars, Proceed, GoesOn
    <2>2. /\ ScriptInv' /\ phase' = "call" /\ script' = script /\ at' = at + 1 /\ at' - 1 = at
          /\ (NoRpcYet' => NoRpcYet)
        BY <1>1, <1>2, <2>1, Proceeded
    <2>3. Is(at, "save")' => \A n \in AllIds : Gone(n)' /\ stops'[n] = "no"
        <3> SUFFICES ASSUME at' \in DOMAIN script, script[at'].op = "save"
                     PROVE  \A n \in AllIds : Gone(n) /\ stops[n] = "no"
            BY <2>1, <2>2 DEF Is, Gone
        <3>1. at' > 2 /\ script[at' - 2].op = "stopAllForced"
            BY <1>1, ScriptFacts
        <3>2. at' - 2 = at - 1 /\ at - 1 \in 1 .. at
            BY <1>1, <2>2, <3>1 DEF ScriptInv
        <3>3. at - 1 \in DOMAIN script
            BY <1>1, <1>2, <3>2, ScriptFacts
        <3>4. (\A n \in NodeIds : Gone(n) /\ stops[n] = "no") /\ stops[0] = "no"
            BY <1>2, <3>1, <3>2, <3>3 DEF LocalInv, QuietInv, Is
        <3>5. Gone(0)
            BY <1>1, <1>4 DEF Agreement, NotStartedIsGone, Gone
        <3> QED BY <3>4, <3>5 DEF AllIds
    <2>4. ~Is(at - 1, "stopAllForced")' /\ ~Is(at - 1, "save")'
        BY <1>2, <2>2 DEF Is
    <2>5. NoRpcYet' => node'[0].child = "none" /\ stops'[0] = "no"
        BY <2>1, <2>2 DEF LocalInv, QuietInv
    <2>6. QuietInv'
        BY <2>2, <2>3, <2>4, <2>5 DEF QuietInv
    <2> QED BY <2>1, <2>2, <2>6
<1> QED BY <1>3, <1>4


(* The stops that are awaited have ended all that they were asked for.     *)
LEMMA StopsReturnKeeps ==
    ASSUME LocalInv, StopsReturn
    PROVE  ScriptInv' /\ QuietInv' /\ UNCHANGED nodeVars
<1>1. /\ ScriptInv /\ phase = "await" /\ at \in DOMAIN script
      /\ NodeIds \subseteq AllIds /\ 0 \in AllIds
    BY DEF LocalInv, ScriptInv, StopsReturn, AllIds
<1>2. /\ \A n \in AllIds : stops[n] = "no"
      /\ GoesOn /\ UNCHANGED nodeVars /\ node' = node /\ stops' = stops
    BY DEF StopsReturn, StopsAwaited, Proceed, GoesOn, nodeVars
<1>3. /\ ScriptInv' /\ phase' = "call" /\ script' = script /\ at' - 1 = at
      /\ (NoRpcYet' => NoRpcYet)
    BY <1>1, <1>2, Proceeded
<1>4. NoRpcYet' => node'[0].child = "none" /\ stops'[0] = "no"
    BY <1>2, <1>3 DEF LocalInv, QuietInv
<1>5. CASE script[at].op \in {"stop", "stopAll"}
    BY <1>1, <1>2, <1>4, <1>5, OtherCommand
<1>6. CASE script[at].op = "stopAllForced"
    <2>1. \A n \in NodeIds : Gone(n)
        BY <1>1, <1>2, <1>6 DEF LocalInv, QuietInv, Is, Ending
    <2>2. \A n \in NodeIds : Gone(n)' /\ stops'[n] = "no"
        BY <1>1, <1>2, <2>1 DEF Gone
    <2>3. ~Is(at - 1, "save")' /\ stops'[0] = "no"
        BY <1>1, <1>2, <1>3, <1>6 DEF Is
    <2>4. ~Is(at, "save")'
        <3> SUFFICES ASSUME at' \in DOMAIN script, script[at'].op = "save" PROVE FALSE
            BY <1>3 DEF Is
        <3>1. script[at' - 1].op = "stopRpc"
            BY <1>1, ScriptFacts
        <3> QED BY <1>3, <1>6, <3>1
    <2> QED BY <1>2, <1>3, <1>4, <2>2, <2>3, <2>4 DEF QuietInv
<1>7. CASE script[at].op = "stopRpc"
    <2>1. Is(at, "save")' => \A n \in AllIds : Gone(n)' /\ stops'[n] = "no"
        <3> SUFFICES ASSUME at' \in DOMAIN script, script[at'].op = "save"
                     PROVE  \A n \in AllIds : Gone(n) /\ stops[n] = "no"
            BY <1>2, <1>3 DEF Is, Gone
        <3>1. at' > 2 /\ script[at' - 2].op = "stopAllForced"
            BY <1>1, ScriptFacts
        <3>2. at' - 2 = at - 1 /\ at - 1 \in 1 .. at
            BY <1>1, <1>2, <3>1 DEF ScriptInv, GoesOn
        <3>3. at - 1 \in DOMAIN script
            BY <1>1, <3>2, ScriptFacts
        <3>4. (\A n \in NodeIds : Gone(n)) /\ Ending(0)
            BY <1>1, <1>7, <3>1, <3>2, <3>3 DEF LocalInv, QuietInv, Is
        <3>5. Gone(0)
            BY <1>1, <1>2, <3>4 DEF Ending
        <3> QED BY <1>2, <3>4, <3>5 DEF AllIds
    <2>2. ~Is(at - 1, "stopAllForced")' /\ ~Is(at - 1, "save")'
        BY <1>3, <1>7 DEF Is
    <2> QED BY <1>2, <1>3, <1>4, <2>1, <2>2 DEF QuietInv
<1> QED BY <1>2, <1>5, <1>6, <1>7 DEF StopsReturn

LEMMA SaveKeeps ==
    ASSUME LocalInv, SaveCurrentNetwork
    PROVE  ScriptInv' /\ QuietInv' /\ UNCHANGED nodeVars
<1>1. ScriptInv /\ at \in DOMAIN script /\ script[at].op = "save" /\ 0 \in AllIds
    BY Called DEF LocalInv, SaveCurrentNetwork, AllIds
<1>2. GoesOn /\ UNCHANGED nodeVars /\ node' = node /\ stops' = stops
    BY DEF SaveCurrentNetwork, Proceed, GoesOn, nodeVars
<1>3. /\ ScriptInv' /\ phase' = "call" /\ script' = script /\ at' - 1 = at
      /\ (NoRpcYet' => NoRpcYet)
    BY <1>1, <1>2, Proceeded
<1>4. Gone(0)' /\ stops'[0] = "no"
    BY <1>1, <1>2 DEF LocalInv, QuietInv, Is, Gone
<1>5. NoRpcYet' => node'[0].child = "none" /\ stops'[0] = "no"
    BY <1>2, <1>3 DEF LocalInv, QuietInv
<1>6. ~Is(at, "save")'
    <2> SUFFICES ASSUME at' \in DOMAIN script, script[at'].op = "save" PROVE FALSE
        BY <1>3 DEF Is
    <2>1. script[at' - 1].op = "stopRpc"
        BY <1>1, ScriptFacts
    <2> QED BY <1>1, <1>3, <2>1
<1>7. ~Is(at - 1, "stopAllForced")'
    BY <1>1, <1>3 DEF Is
<1> QED BY <1>2, <1>3, <1>4, <1>5, <1>6, <1>7 DEF QuietInv

(* The commands that leave the nodes alone.                                *)
LEMMA AsideKeeps ==
    ASSUME LocalInv,
           \/ AwaitRpcReady \/ Watch \/ Unwatch \/ SendTransaction \/ Confirmed
           \/ ReadEpoch \/ EpochSwitch \/ ListenerDone
    PROVE  ScriptInv' /\ QuietInv' /\ UNCHANGED nodeVars
<1>1. ScriptInv
    BY DEF LocalInv
<1>2. PICK op \in {"rpc", "watch", "unwatch", "send", "confirm", "confirmOrThrow",
                   "readEpoch", "epoch", "epochInTime", "nextEpoch", "told"} : Calls(op)
    BY DEF AwaitRpcReady, Watch, Unwatch, SendTransaction, Confirmed, ReadEpoch, EpochSwitch, ListenerDone
<1>3. at \in DOMAIN script /\ script[at].op = op /\ phase = "call"
    BY <1>1, <1>2, Called
<1>4. GoesOn /\ UNCHANGED nodeVars /\ node' = node /\ stops' = stops
    BY <1>3 DEF AwaitRpcReady, Watch, Unwatch, SendTransaction, Confirmed, ReadEpoch, EpochSwitch,
        ListenerDone, EpochRefreshed, Proceed, GoesOn, nodeVars
<1>5. NoRpcYet' => NoRpcYet
    BY <1>1, <1>3, <1>4, Proceeded
<1>6. NoRpcYet' => node'[0].child = "none" /\ stops'[0] = "no"
    BY <1>4, <1>5 DEF LocalInv, QuietInv
<1> QED BY <1>1, <1>3, <1>4, <1>6, OtherCommand

(* What ends the script, and what happens beside it and the nodes.         *)
LEMMA EndsKeep ==
    ASSUME LocalInv,
           \/ TimeIsUp \/ EpochTimeout \/ CallFails \/ Exit \/ Mined
           \/ \E w \in Dogs : WatchdogTurn(w) \/ WatchdogBreaks(w)
    PROVE  ScriptInv' /\ QuietInv' /\ UNCHANGED nodeVars
<1>1. UNCHANGED nodeVars /\ script' = script /\ at' = at /\ phase' \in {phase, "rejected", "exited"}
    BY DEF TimeIsUp, EpochTimeout, CallFails, Throw, Exit, Mined, WatchdogTurn, WatchdogBreaks, tool
<1> QED BY <1>1, ScriptStays

LEMMA LocalStep ==
    ASSUME LocalInv, [LocalNext]_vars
    PROVE  LocalInv' /\ [Next]_nodeVars
<1>1. ScriptInv' /\ QuietInv' /\ [Next]_nodeVars
    <2>1. CASE UNCHANGED vars
        BY <2>1, ScriptStays DEF vars, tool
    <2>2. CASE Command
        BY <2>2, StartsKeep, StopsKeep, StopRpcKeeps, StopsReturnKeeps, SaveKeeps, AsideKeeps, EndsKeep
        DEF Command
    <2>3. CASE Processes \/ \E n \in AllIds : CloseHandled(n)
        <3>1. /\ script' = script /\ at' = at /\ phase' = phase
              /\ \E n \in AllIds : Dies(n) \/ Terminates(n) \/ Close(n)
            BY <2>3 DEF Processes, CloseHandled, tool
        <3> QED BY <3>1, NodesMove DEF Next
    <2>4. CASE Mined \/ \E w \in Dogs : WatchdogTurn(w) \/ WatchdogBreaks(w)
        BY <2>4, EndsKeep
    <2> QED BY <2>1, <2>2, <2>3, <2>4 DEF LocalNext
<1>2. Agreement' /\ Listening'
    BY <1>1, AgreementStep, ListeningStep DEF LocalInv, Agreement
<1> QED BY <1>1, <1>2 DEF LocalInv

LEMMA LocalStart == LocalInit => LocalInv
<1> SUFFICES ASSUME LocalInit PROVE LocalInv
    OBVIOUS
<1>1. Agreement /\ Listening /\ 0 \in AllIds
    BY AgreementInit DEF LocalInit, Init, Listening, AllIds
<1>2. ScriptInv /\ at = 1 /\ phase = "call"
    BY DEF LocalInit, ScriptInv
<1>3. \A op : ~Is(at - 1, op)
    BY <1>2, ScriptFacts DEF Is
<1>4. ~Is(at, "save")
    BY <1>2, ScriptFacts DEF Is
<1>5. node[0].child = "none" /\ stops[0] = "no"
    BY <1>1 DEF LocalInit, Init, Fresh
<1> QED BY <1>1, <1>2, <1>3, <1>4, <1>5 DEF LocalInv, QuietInv

LEMMA LocalAlways == LocalSpec => []LocalInv /\ [][Next]_nodeVars
  BY LocalStart, LocalStep, PTL DEF LocalSpec

(* Every script uses the nodes only as the node manager expects: it starts *)
(* and stops nodes that exist, and replaces the RPC node only when none    *)
(* runs and none is being stopped (localnetBootstrapper.ts 106-265,        *)
(* nodeManager.ts).                                                        *)
THEOREM ScriptsUseNodeManager == LocalSpec => Spec
<1>1. LocalInit => Init
  BY DEF LocalInit
<1> QED
  BY <1>1, LocalAlways, PTL DEF LocalSpec, Spec

(* No script, whatever dies while it runs, puts two processes into the     *)
(* directory of one node.                                                  *)
THEOREM ScriptsKeepOneProcess == LocalSpec => []OneProcessEach
  BY ScriptsUseNodeManager, OneProcess, PTL

(* When a script saves the network, no process writes to the directories   *)
(* that it copies: the stops have returned, and no close listener that is  *)
(* handled late starts a node again (localnetBootstrapper.ts).             *)
THEOREM CheckpointAlwaysQuiet == LocalSpec => []CheckpointQuiet
<1>1. LocalInv => CheckpointQuiet
  <2> SUFFICES ASSUME LocalInv, Calls("save"), NEW n \in AllIds PROVE alive[n] = 0
    BY DEF CheckpointQuiet
  <2>1. Is(at, "save")
    BY Called DEF LocalInv, Is
  <2>2. Gone(n)
    BY <2>1 DEF LocalInv, QuietInv
  <2> QED
    BY <2>2 DEF LocalInv, Agreement, ChildrenCounted, Gone
<1> QED
  BY <1>1, LocalAlways, PTL
=============================================================================
