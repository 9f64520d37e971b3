------------------------------ MODULE Localnet ------------------------------
(***************************************************************************)
(* A script on a local network: the node manager, the watchdog and the     *)
(* scripts that boot a network, stop and start its nodes and wait for it   *)
(* (src/src/localnet/tests, regression/testAvailabilityHandling.ts,        *)
(* runWatchdog.ts).                                                        *)
(*                                                                         *)
(* A script is a sequence of commands, which the tool carries out one by   *)
(* one while nodes die, blocks appear and the watchdog polls.  The         *)
(* networks of the scripts have up to 16 validators; here a command names  *)
(* those of the nodes 1 .. 5 it means.                                     *)
(***************************************************************************)
EXTENDS NodeManager, Watchdog, SequencesExt

CONSTANT Scripts    \* the scripts that run, each a sequence of commands

VARIABLES
    script,   \* the commands
    at,       \* the next one
    phase,    \* "call", "await", "rejected" or "exited"
    sent,     \* newest block when the awaited transaction was sent
    since     \* epoch the script has read, and waits to see replaced

tool == <<script, at, phase, sent, since>>
vars == <<nodeVars, watchVars, tool>>

-----------------------------------------------------------------------------
(* Commands and scripts.                                                   *)

Do(op) == <<[op |-> op, nodes |-> {}]>>
On(op, nodes) == <<[op |-> op, nodes |-> nodes]>>
Only(S) == S \cap NodeIds

(* runImplementation of the test scripts, with two of the waits for an     *)
(* epoch where there are more.                                             *)
EarlyEpoch ==
    Do("readEpoch") \o On("stop", {2}) \o On("stop", {3}) \o On("stop", {4}) \o Do("send") \o Do("confirm")
        \o On("stop", {5}) \o Do("nextEpoch")
Complex ==
    On("stop", {2, 3, 4}) \o Do("send") \o On("start", {2, 3, 4}) \o Do("confirmOrThrow")
CachedMessages ==
    On("stop", {2}) \o On("stop", {3}) \o On("stop", {2}) \o Do("send") \o Do("confirm")
AutoUpscale ==
    On("stop", {3}) \o On("stop", {4}) \o On("stop", {2}) \o On("stop", {3})
Phoenix ==
    LET again == Do("send") \o On("stop", Only(4 .. 7)) \o On("start", Only(4 .. 7)) \o Do("confirmOrThrow")
    IN  Do("send") \o Do("confirm") \o On("stop", {2, 3}) \o again
Epoch22 == Do("readEpoch") \o Do("epochInTime") \o Do("epochInTime") \o Do("unwatch")

(* runTestSteps.                                                           *)
TestSteps(test) ==
    Do("rpc") \o Do("watch") \o test \o Do("unwatch") \o Do("stopAll") \o Do("stopRpc") \o Do("exit")

(* start of the bootstrapper: a fresh network, one that is also saved, and *)
(* one restored from what was saved.                                       *)
Boot == On("start", {0}) \o On("start", NodeIds) \o Do("rpc") \o Do("watch")
Checkpoint ==
    Do("unwatch") \o Do("stopAllForced") \o Do("stopRpc") \o Do("save")
        \o Do("newRpc") \o On("start", NodeIds)
FreshBoot(test) == Boot \o Do("unwatch") \o TestSteps(test)
SavingBoot(test) == Boot \o Checkpoint \o Do("unwatch") \o TestSteps(test)
RestoredBoot(test) == On("start", NodeIds) \o Do("newRpc") \o TestSteps(test)

(* Scripts that boot the network by themselves.                            *)
AwaitEpochSwitch == Do("readEpoch") \o Do("epoch")
AvailabilityHandling ==
    On("start", NodeIds) \o Do("newRpc") \o Do("watch") \o AwaitEpochSwitch \o On("stop", {2})
        \o AwaitEpochSwitch \o On("start", {2}) \o Do("unwatch") \o Do("stopRpc") \o Do("stopAll")
AutoRestake ==
    Do("newRpc") \o On("start", NodeIds) \o Do("watch") \o Do("told") \o Do("signalAll") \o Do("exit")
WatchdogBoot == Do("newRpc") \o On("start", NodeIds) \o Do("rpc") \o Do("watch")

(* Every script saves the network only after it has stopped all nodes, and *)
(* makes an RPC node only if it has none: as the first one, or a new one   *)
(* after the network was saved.                                            *)
ASSUME ScriptsShape ==
    \A s \in Scripts :
        /\ s \in Seq([op : STRING, nodes : SUBSET Nat])
        /\ \A i \in DOMAIN s :
            /\ s[i].op = "start" => s[i].nodes \subseteq AllIds
            /\ s[i].op = "save" => i > 2 /\ s[i - 2].op = "stopAllForced" /\ s[i - 1].op = "stopRpc"
            /\ s[i].op = "newRpc" =>
                \/ i > 1 /\ s[i - 1].op = "save"
                \/ \A j \in 1 .. i : 0 \notin s[j].nodes /\ (j < i => s[j].op # "newRpc")

LocalInit ==
    /\ Init /\ WatchInit
    /\ script \in Scripts
    /\ at = 1 /\ phase = "call" /\ sent = 0 /\ since = 0

-----------------------------------------------------------------------------
(* Carrying out commands.                                                  *)

Calls(op) == phase = "call" /\ at <= Len(script) /\ script[at].op = op
Nodes == script[at].nodes

Proceed == at' = at + 1 /\ phase' = "call" /\ UNCHANGED <<script, sent, since>>
Wait == phase' = "await" /\ UNCHANGED <<script, at, sent, since>>

(* An error that nobody catches ends the tool or, before Node 15, only the *)
(* script, while listeners and the watchdog stay.                          *)
Throw == phase' \in {"rejected", "exited"} /\ UNCHANGED <<script, at, sent, since>>

Running == phase # "exited"
RpcAnswers == alive[0] > 0

StartNodes ==
    /\ Calls("start") /\ Start(Nodes)
    /\ IF Throws(Nodes) THEN Throw ELSE Proceed
    /\ UNCHANGED watchVars

StartRpc == Calls("newRpc") /\ StartRpcNode /\ Proceed /\ UNCHANGED watchVars

StopNodes ==
    /\ Calls("stop") /\ Stop(Nodes \cap AllIds, FALSE)
    /\ IF \E n \in Nodes : n \notin AllIds \/ Refuses(n, FALSE) THEN Throw ELSE Wait
    /\ UNCHANGED watchVars

(* stopAllNodes(true).                                                     *)
StopAllForced ==
    /\ Calls("stopAllForced") /\ Stop(NodeIds, TRUE)
    /\ IF \E n \in NodeIds : Refuses(n, TRUE) THEN Throw ELSE Wait
    /\ UNCHANGED watchVars

(* The same, and the tool goes on at once.                                 *)
SignalAll == Calls("signalAll") /\ Stop(NodeIds, TRUE) /\ Proceed /\ UNCHANGED watchVars

(* stopAllNodes(false): the callback of its filter returns nothing.        *)
StopTargets == {n \in NodeIds : FALSE}
StopAllNodes == Calls("stopAll") /\ Stop(StopTargets, FALSE) /\ Wait /\ UNCHANGED watchVars

StopRpcNode ==
    /\ Calls("stopRpc") /\ UNCHANGED watchVars
    /\ IF node[0].started THEN Stop({0}, FALSE) /\ Wait ELSE Proceed /\ UNCHANGED nodeVars

(* Mutant: the stops are not awaited.                                      *)
StopsAwaited_None == TRUE

StopsAwaited == \A n \in AllIds : stops[n] = "no"

StopsReturn ==
    /\ phase = "await" /\ script[at].op \in {"stop", "stopAllForced", "stopAll", "stopRpc"}
    /\ StopsAwaited /\ Proceed /\ UNCHANGED <<nodeVars, watchVars>>

AwaitRpcReady == Calls("rpc") /\ RpcAnswers /\ Proceed /\ UNCHANGED <<nodeVars, watchVars>>

Watching == {w \in Dogs : dog[w].step # "off" \/ dog[w].stop}

Watch ==
    /\ Calls("watch") /\ Proceed /\ UNCHANGED <<nodeVars, chain>>
    /\ StartWatching(Cardinality(Watching) + 1)

Unwatch == Calls("unwatch") /\ Proceed /\ StopWatching(Watching) /\ UNCHANGED <<nodeVars, chain>>

(* createBlock: a transaction, and the wait for its confirmation.          *)
SendTransaction ==
    /\ Calls("send") /\ RpcAnswers /\ sent' = chain.head
    /\ at' = at + 1 /\ UNCHANGED <<script, phase, since, nodeVars, watchVars>>

Confirmed ==
    /\ Calls("confirm") \/ Calls("confirmOrThrow")
    /\ RpcAnswers /\ chain.head > sent /\ Proceed /\ UNCHANGED <<nodeVars, watchVars>>

(* handleTimoutError throws in a timer: the tool dies.                     *)
TimeIsUp ==
    /\ Calls("confirmOrThrow") /\ phase' = "exited"
    /\ UNCHANGED <<script, at, sent, since, nodeVars, watchVars>>

(* The epoch is read again and again until it is another one.  The test    *)
(* that stops nodes only goes on when it is the next one.                  *)
EpochRefreshed ==
    /\ RpcAnswers /\ since' = chain.epoch
    /\ at' = at + 1 /\ UNCHANGED <<script, phase, sent, nodeVars, watchVars>>

ReadEpoch == Calls("readEpoch") /\ EpochRefreshed

EpochSwitch ==
    /\ \/ (Calls("epoch") \/ Calls("epochInTime")) /\ chain.epoch > since
       \/ Calls("nextEpoch") /\ chain.epoch = since + 1
    /\ EpochRefreshed

(* Epoch switch did not happen in expected time.                           *)
EpochTimeout == Calls("epochInTime") /\ Throw /\ UNCHANGED <<nodeVars, watchVars>>

(* The listener of the watchdog has staked what is to be staked.           *)
ListenerDone ==
    /\ Calls("told") /\ (\E w \in Dogs : dog[w].told > 0)
    /\ Proceed /\ UNCHANGED <<nodeVars, watchVars>>

(* A call of the script that is not answered.                              *)
CallFails ==
    /\ \E op \in {"send", "readEpoch", "epoch", "epochInTime", "nextEpoch", "told"} : Calls(op)
    /\ ~RpcAnswers /\ Throw /\ UNCHANGED <<nodeVars, watchVars>>

SaveCurrentNetwork == Calls("save") /\ Proceed /\ UNCHANGED <<nodeVars, watchVars>>

Exit ==
    /\ Calls("exit") /\ phase' = "exited"
    /\ UNCHANGED <<script, at, sent, since, nodeVars, watchVars>>

Command ==
    \/ StartNodes \/ StartRpc \/ StopNodes \/ StopAllForced \/ SignalAll \/ StopAllNodes
    \/ StopRpcNode \/ StopsReturn \/ AwaitRpcReady \/ Watch \/ Unwatch \/ SendTransaction
    \/ Confirmed \/ TimeIsUp \/ ReadEpoch \/ EpochSwitch \/ EpochTimeout \/ ListenerDone
    \/ CallFails \/ SaveCurrentNetwork \/ Exit

-----------------------------------------------------------------------------
(* What happens beside the script.                                         *)

Processes == (\E n \in AllIds : Dies(n) \/ Terminates(n)) /\ UNCHANGED <<watchVars, tool>>

CloseHandled(n) == Running /\ Close(n) /\ UNCHANGED <<watchVars, tool>>

Mined ==
    /\ \E n \in NodeIds : alive[n] > 0
    /\ NewBlock /\ UNCHANGED <<nodeVars, dog, tool>>

WatchdogTurn(w) ==
    /\ Running /\ Turn(w) /\ (Reading(w) => RpcAnswers)
    /\ UNCHANGED <<nodeVars, chain, tool>>

WatchdogBreaks(w) ==
    /\ Running /\ ~RpcAnswers /\ LoopBreaks(w)
    /\ phase' \in {phase, "exited"}
    /\ UNCHANGED <<nodeVars, chain, script, at, sent, since>>

LocalNext ==
    \/ Command
    \/ Processes \/ Mined
    \/ \E n \in AllIds : CloseHandled(n)
    \/ \E w \in Dogs : WatchdogTurn(w) \/ WatchdogBreaks(w)

LocalSpec == LocalInit /\ [][LocalNext]_vars

(* The event loop runs the handlers and timers that are due; a process     *)
(* that was sent SIGTERM ends.                                             *)
Asked(n) == Terminates(n) /\ UNCHANGED <<watchVars, tool>>
LocalFair ==
    /\ LocalSpec
    /\ WF_vars(\E n \in AllIds : CloseHandled(n) \/ Asked(n))
    /\ \A w \in Dogs : WF_vars(WatchdogTurn(w))

-----------------------------------------------------------------------------
(* Properties.                                                             *)

(* While the tool copies the directories of the network no process writes  *)
(* to them, although nodes may die and be restarted until they are asked   *)
(* to stop.                                                                *)
CheckpointQuiet == Calls("save") => \A n \in AllIds : alive[n] = 0

(* A node that dies is started again, unless the script has ever stopped   *)
(* it, as long as the tool runs.                                           *)
Lost(n) == node[n].child \in {"exited", "closed"} /\ ~node[n].shutting
DeadComeBack == (\E n \in AllIds : Lost(n)) ~> (~Running \/ \A n \in AllIds : ~Lost(n))

(* The listener of a watchdog that goes on to watch is told of an epoch    *)
(* switch, or of a later one, also when it falls between two reads of a    *)
(* turn or several happen in one.                                          *)
Unaware(w, e) ==
    /\ dog[w].step \notin {"off", "broken"} /\ ~dog[w].stop
    /\ chain.epoch >= e /\ dog[w].told < e
SwitchesNoticed ==
    \A e \in 1 .. MaxEpoch :
        (\E w \in Dogs : Unaware(w, e)) ~> (~RpcAnswers \/ ~Running \/ \A w \in Dogs : ~Unaware(w, e))
=============================================================================
