------------------------------ MODULE Watchdog ------------------------------
(***************************************************************************)
(* The watchdog's loop (src/src/watchdog.ts, startWatching).               *)
(*                                                                         *)
(* A turn asks for the newest block, and when it is a new one reads the    *)
(* epoch, and after further reads tells its listener of a switch.  The     *)
(* chain goes on between two reads.  A read that fails ends the loop: the  *)
(* turn's promise is rejected, nobody calls the function again, and an     *)
(* epoch that was read is not told any more.  Left out: the code that      *)
(* restarts and deactivates nodes, which nothing reaches (rebootLocal and  *)
(* mocNode are never set), and what is only logged.                        *)
(***************************************************************************)
EXTENDS Integers, FiniteSets

CONSTANTS
    Dogs,       \* Watchdog objects
    MaxBlock,   \* bound: blocks of the chain
    MaxEpoch    \* bound: epochs of the chain

ASSUME WatchdogShape == {MaxBlock, MaxEpoch} \subseteq Nat

VARIABLES
    chain,   \* the newest block and its epoch
    dog      \* per object: stopSignal, place in the turn, the block and epoch
             \* it knows, and the newest epoch its listener was told of

watchVars == <<chain, dog>>

Asleep == [stop |-> FALSE, step |-> "off", block |-> 0, epoch |-> 0, told |-> 0]

WatchInit == chain = [head |-> 0, epoch |-> 0] /\ dog = [w \in Dogs |-> Asleep]

NewBlock ==
    /\ chain.head < MaxBlock
    /\ \E e \in {chain.epoch, chain.epoch + 1} :
        e <= MaxEpoch /\ chain' = [head |-> chain.head + 1, epoch |-> e]

StartWatching(w) == dog' = [dog EXCEPT ![w].stop = FALSE, ![w].step = "timer"]

StopWatching(S) == dog' = [w \in Dogs |-> [dog[w] EXCEPT !.stop = @ \/ w \in S]]

(* functionCall up to getBlockNumber.                                      *)
TurnBegins(w) ==
    /\ dog[w].step = "timer"
    /\ dog' = [dog EXCEPT ![w].step = IF dog[w].stop THEN "off" ELSE "number"]

(* The block is known already: look again in 100 ms.                       *)
NothingNew(w) ==
    /\ dog[w].step = "number" /\ chain.head = dog[w].block
    /\ dog' = [dog EXCEPT ![w].step = "timer"]

(* Mutant: the block to wait for is remembered instead.                    *)
LatestKnown_Next == chain.head + 1

LatestKnown == chain.head

BlockSeen(w) ==
    /\ dog[w].step = "number" /\ chain.head # dog[w].block
    /\ dog' = [dog EXCEPT ![w].step = "epoch", ![w].block = LatestKnown]

(* The epoch is the one of the newest block by now, and is known from now  *)
(* on.                                                                     *)
EpochRead(w) ==
    /\ dog[w].step = "epoch"
    /\ dog' = [dog EXCEPT ![w].epoch = chain.epoch,
                          ![w].step = IF chain.epoch > dog[w].epoch THEN "switch" ELSE "rest"]

(* The pending validators are read and the plugins have read what they     *)
(* need, before the listener is called.                                    *)
SwitchTold(w) ==
    /\ dog[w].step = "switch"
    /\ dog' = [dog EXCEPT ![w].step = "rest", ![w].told = dog[w].epoch]

(* Validators, keys and connectivity are read and logged.                  *)
TurnEnds(w) == dog[w].step = "rest" /\ dog' = [dog EXCEPT ![w].step = "timer"]

Turn(w) == TurnBegins(w) \/ NothingNew(w) \/ BlockSeen(w) \/ EpochRead(w) \/ SwitchTold(w) \/ TurnEnds(w)

(* A read that is not answered.                                            *)
Reading(w) == dog[w].step \in {"number", "epoch", "switch", "rest"}
LoopBreaks(w) == Reading(w) /\ dog' = [dog EXCEPT ![w].step = "broken"]
=============================================================================
