---------------------------- MODULE NodeManager ----------------------------
(***************************************************************************)
(* The processes of a local network (src/src/net/nodeManager.ts).          *)
(*                                                                         *)
(* A NodeState owns one child process: start spawns it and listens for its *)
(* end to start it again, stop sends SIGTERM and waits for the end.  Node  *)
(* 0 is the RPC node.  That a process ends and that its "close" event is   *)
(* handled are two steps, between which the script may act.                *)
(*                                                                         *)
(* Spec lets any caller start and stop nodes in any order; Localnet        *)
(* composes this module with the scripts that really do.                   *)
(***************************************************************************)
EXTENDS Integers, FiniteSets

CONSTANTS
    NodeIds,    \* the validator nodes, 1, 2, ...
    MaxDeaths   \* bound: processes that end without being asked to

ASSUME NodesShape == NodeIds \subseteq Nat \ {0} /\ MaxDeaths \in Nat

VARIABLES
    node,     \* the NodeState objects
    alive,    \* number of processes that run in a node's directory
    stops,    \* the caller's pending stop: "no", "listening" or "stuck"
    deaths

nodeVars == <<node, alive, stops, deaths>>

AllIds == NodeIds \cup {0}

Fresh == [started |-> FALSE, shutting |-> FALSE, child |-> "none"]

Init ==
    /\ node = [n \in AllIds |-> Fresh]
    /\ alive = [n \in AllIds |-> 0]
    /\ stops = [n \in AllIds |-> "no"]
    /\ deaths = 0

-----------------------------------------------------------------------------
(* start, of several nodes in the order of their numbers: the first one    *)
(* that is started throws and the ones after it are left alone.            *)

Throws(S) == \E n \in S : node[n].started

Reached(S) == {n \in S : \A m \in S : m <= n => ~node[m].started}

Spawned(n) == [node[n] EXCEPT !.started = TRUE, !.child = "running"]

Start(S) ==
    /\ node' = [n \in AllIds |-> IF n \in Reached(S) THEN Spawned(n) ELSE node[n]]
    /\ alive' = [n \in AllIds |-> IF n \in Reached(S) THEN alive[n] + 1 ELSE alive[n]]
    /\ UNCHANGED <<stops, deaths>>

(* startRpcNode replaces the object, whatever became of its process.       *)
StartRpcNode ==
    /\ node' = [node EXCEPT ![0] = [Fresh EXCEPT !.started = TRUE, !.child = "running"]]
    /\ alive' = [alive EXCEPT ![0] = @ + 1]
    /\ UNCHANGED <<stops, deaths>>

(* stop, of several nodes at once: each is asked, also when another one    *)
(* refuses.  A process that is gone will not be heard of again.            *)
Refuses(n, force) == (~node[n].started /\ ~force) \/ node[n].child = "none"

Signalled(n) ==
    [node[n] EXCEPT !.shutting = TRUE, !.child = IF @ = "running" THEN "term" ELSE @]

Stop(S, force) ==
    LET asked == {n \in S : ~Refuses(n, force)}
    IN  /\ node' = [n \in AllIds |-> IF n \in asked THEN Signalled(n) ELSE node[n]]
        /\ stops' = [n \in AllIds |->
                        IF n \notin asked THEN stops[n]
                        ELSE IF node[n].child = "closed" THEN "stuck" ELSE "listening"]
        /\ UNCHANGED <<alive, deaths>>

-----------------------------------------------------------------------------
(* The processes and their "close" events.                                 *)

Ends(n) ==
    /\ node' = [node EXCEPT ![n].child = "exited"]
    /\ alive' = [alive EXCEPT ![n] = @ - 1]

Dies(n) ==
    /\ node[n].child = "running" /\ deaths < MaxDeaths /\ deaths' = deaths + 1
    /\ Ends(n) /\ UNCHANGED stops

Terminates(n) == node[n].child = "term" /\ Ends(n) /\ UNCHANGED <<stops, deaths>>

(* Mutant: what the code's todo plans as default.                          *)
RestartAfterShutdown_Default == FALSE

RestartAfterShutdown == TRUE

(* Mutant: also after a stop.                                              *)
Restarts_Always(n) == RestartAfterShutdown

Restarts(n) == RestartAfterShutdown /\ ~node[n].shutting

(* The listeners in their order: the one of start spawns the process again *)
(* unless the node is being stopped, those of stop let the stop return.    *)
Close(n) ==
    /\ node[n].child = "exited"
    /\ node' = [node EXCEPT ![n].child = IF Restarts(n) THEN "running" ELSE "closed",
                            ![n].started = @ /\ stops[n] # "listening"]
    /\ alive' = [alive EXCEPT ![n] = IF Restarts(n) THEN @ + 1 ELSE @]
    /\ stops' = [stops EXCEPT ![n] = IF @ = "listening" THEN "no" ELSE @]
    /\ UNCHANGED deaths

-----------------------------------------------------------------------------
(* Any caller, but that startRpcNode is called only when no RPC node runs  *)
(* and none is being stopped.                                              *)

Next ==
    \/ \E S \in SUBSET AllIds : Start(S)
    \/ \E S \in SUBSET AllIds, force \in BOOLEAN : Stop(S, force)
    \/ alive[0] = 0 /\ stops[0] = "no" /\ StartRpcNode
    \/ \E n \in AllIds : Dies(n) \/ Terminates(n) \/ Close(n)

Spec == Init /\ [][Next]_nodeVars

-----------------------------------------------------------------------------
(* Properties.                                                             *)

(* Two processes never share the directory of a node, whenever its end,    *)
(* its restart and the calls of a script meet.                             *)
OneProcessEach == \A n \in AllIds : alive[n] \in {0, 1}

(* The processes that run are those the objects know of.                   *)
ChildrenCounted ==
    \A n \in AllIds : alive[n] = IF node[n].child \in {"running", "term"} THEN 1 ELSE 0

(* An object that is not started has no process, and none that still ends. *)
NotStartedIsGone ==
    \A n \in AllIds : ~node[n].started => node[n].child \in {"none", "closed"}

NodeState == [started : BOOLEAN, shutting : BOOLEAN,
              child : {"none", "running", "term", "exited", "closed"}]

(* Types.                                                                  *)
NodeTypeOK ==
    /\ node \in [AllIds -> NodeState]
    /\ alive \in [AllIds -> Int]
    /\ stops \in [AllIds -> {"no", "listening", "stuck"}]
    /\ deaths \in 0 .. MaxDeaths
=============================================================================
