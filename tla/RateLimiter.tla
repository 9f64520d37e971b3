---------------------------- MODULE RateLimiter ----------------------------
(***************************************************************************)
(* What a request to the REST API passes before its handler                *)
(* (src/db/express/src/app.ts, routes/, middleware/): a throttle per       *)
(* address, the public limiter, authentication and the limits of the API   *)
(* key.  Counters live in Redis and, while Redis does not answer, in the   *)
(* memory of the server.  Requests overlap, replies of Redis get lost, the *)
(* server restarts, and an operator changes keys (utils/keygen.ts) while   *)
(* requests are checked against them.                                      *)
(*                                                                         *)
(* One tick is the unit of both windows.  Headers and texts of the answers *)
(* are left out.                                                           *)
(***************************************************************************)
EXTENDS Integers, Sequences, FiniteSets, SequencesExt

CONSTANTS
    Ips, Keys,
    FirstKeys,    \* rows of api_keys at the start
    NewRows,      \* rows the operator may add
    Routes,       \* the routers that are asked, of those of Chain
    Window,       \* length in ticks of each kind of counter
    Limit,        \* limit of each kind of counter
    Slots,        \* bound: requests in flight at once
    MaxCalls,     \* bound: requests and commands of the operator
    MaxOutages, MaxRestarts    \* bounds

Kinds == {"authip", "public", "minute", "day"}

(* given: the limits named on the command line; origins: there is a list   *)
(* of allowed origins.  A deleted row is remembered for the requests that  *)
(* have read it.                                                           *)
KeyRow == [type : {"internal", "external"}, given : SUBSET {"minute", "day"}, origins : BOOLEAN,
           status : {"enabled", "disabled", "deleted"}]

ASSUME LimiterShape ==
    /\ DOMAIN FirstKeys \subseteq Keys /\ "none" \notin Keys
    /\ \A k \in DOMAIN FirstKeys : FirstKeys[k] \in KeyRow
    /\ NewRows \subseteq KeyRow
    /\ Window \in [Kinds -> Nat \ {0}] /\ Limit \in [Kinds -> Nat \ {0}]

VARIABLES
    reachable,   \* Redis answers
    connected,   \* redisConnected
    redis,       \* counters in Redis and the ticks they have left
    memory,      \* InMemoryRateLimiter.store: the ticks each entry has left
    keys,        \* rows of api_keys
    req,         \* the requests in flight
    passes,      \* history: what a counter let pass within its last window
    run,         \* history: countings without a pause as long as the window;
                 \* entries and passes are named by their place in it
    unjust,      \* history: counters that refused a run within the limit
    calls, outages, life   \* counts of requests and commands, outages, restarts

env == <<reachable, connected>>
bounds == <<calls, outages, life>>
history == <<passes, run, unjust>>
vars == <<env, redis, memory, keys, req, history, bounds>>

Counters == ({"authip", "public"} \X Ips) \cup ({"minute", "day"} \X Keys)

Idle == [route |-> "none", ip |-> "none", key |-> "none", stage |-> 0, counted |-> <<>>,
         found |-> {}, inForce |-> {}]

Nothing == [i \in {} |-> 0]
With(f, i, v) == [j \in DOMAIN f \cup {i} |-> IF j = i THEN v ELSE f[j]]

Init ==
    /\ reachable \in BOOLEAN /\ connected = FALSE
    /\ redis = [c \in Counters |-> [count |-> 0, left |-> 0]]
    /\ memory = [c \in Counters |-> Nothing]
    /\ keys = FirstKeys
    /\ req = [s \in Slots |-> Idle]
    /\ passes = [c \in Counters |-> Nothing] /\ unjust = {}
    /\ run = [c \in Counters |-> [n |-> 0, left |-> 0]]
    /\ calls = 0 /\ outages = 0 /\ life = 0

-----------------------------------------------------------------------------
(* The order in which app.use and router.use line up the middleware.  The  *)
(* router of /supply has no path of its own, so that its limiter also      *)
(* stands before every router that comes after it.                         *)

NodeRoutes == <<"authip", "auth", "key">>
SupplyRoutes == <<"authip", "public">>
LaterRoutes == <<"authip", "public", "auth", "key">>

Chain == [node |-> NodeRoutes, supply |-> SupplyRoutes, stakeTransactions |-> LaterRoutes,
          rewards |-> LaterRoutes, names |-> LaterRoutes]

ASSUME RoutesShape == Routes \subseteq DOMAIN Chain

Stage(s) == Chain[req[s].route][req[s].stage]

At(s, stage) == req[s].route # "none" /\ req[s].stage <= Len(Chain[req[s].route])
                    /\ Stage(s) = stage

Limiters == {"authip", "public", "key"}

(* The counters of a limiter, in the order in which they are counted.      *)
CountersAt(s) ==
    IF Stage(s) = "key" THEN << <<"minute", req[s].key>>, <<"day", req[s].key>> >>
    ELSE << <<Stage(s), req[s].ip>> >>

(* Mutant: disabled keys are found too.                                    *)
FoundKeys_All == {k \in DOMAIN keys : keys[k].status # "deleted"}

FoundKeys == {k \in DOMAIN keys : keys[k].status = "enabled"}

(* History: inForce holds the keys that were valid since the request came. *)
InForce(rows) == {k \in DOMAIN rows : rows[k].status = "enabled"}

Arrive(s, ip, route) ==
    /\ req[s] = Idle /\ calls < MaxCalls
    /\ calls' = calls + 1
    /\ req' = [req EXCEPT ![s] = [Idle EXCEPT !.route = route, !.ip = ip, !.stage = 1,
                  !.inForce = InForce(keys)]]
    /\ UNCHANGED <<env, redis, memory, keys, history, outages, life>>

(* The enabled keys are read, then compared one after the other.           *)
FindKeys(s) ==
    /\ At(s, "auth") /\ req[s].found = {} /\ FoundKeys # {}
    /\ req' = [req EXCEPT ![s].found = FoundKeys]
    /\ UNCHANGED <<env, redis, memory, keys, history, bounds>>

(* An internal key also needs a request from one of its origins.           *)
Authenticate(s, key) ==
    /\ At(s, "auth") /\ key \in req[s].found
    /\ keys[key].type = "internal" => keys[key].origins
    /\ req' = [req EXCEPT ![s] =
           [req[s] EXCEPT !.key = key, !.stage = @ + 1, !.found = {}, !.inForce = {}]]
    /\ UNCHANGED <<env, redis, memory, keys, history, bounds>>

(* 401, 403 and 500 end a request, before the keys are read or after it.   *)
Unauthorized(s) ==
    /\ At(s, "auth")
    /\ req' = [req EXCEPT ![s] = Idle]
    /\ UNCHANGED <<env, redis, memory, keys, history, bounds>>

(* A limit that is not named is 60 a minute and 10000 a day for an external *)
(* key and 999999, which stands for no limit, for an internal one.         *)
NoLimit(c) ==
    /\ c[1] \in {"minute", "day"} /\ c[2] \in DOMAIN keys
    /\ keys[c[2]].type = "internal" /\ c[1] \notin keys[c[2]].given

(* The limit of a minute alone decides: a key with a limit of a day and    *)
(* none of a minute is not counted either.                                 *)
Unlimited(key) == NoLimit(<<"minute", key>>)

Bypass(s) ==
    /\ At(s, "key") /\ Unlimited(req[s].key)
    /\ req' = [req EXCEPT ![s] = Idle]
    /\ UNCHANGED <<env, redis, memory, keys, history, bounds>>

-----------------------------------------------------------------------------
(* The operator's commands.  A command for a row that is not there changes *)
(* nothing.                                                                *)

(* Keys are random: none is generated twice.                               *)
GenerateKey(k) ==
    /\ k \notin DOMAIN keys
    /\ \E row \in NewRows :
        keys' = [x \in DOMAIN keys \cup {k} |-> IF x = k THEN row ELSE keys[x]]

WithStatus(k, status) ==
    /\ k \in DOMAIN keys /\ keys[k].status # "deleted"
    /\ keys' = [keys EXCEPT ![k].status = status]

EnableKey(k) == WithStatus(k, "enabled")
DisableKey(k) == WithStatus(k, "disabled")
DeleteKey(k) == WithStatus(k, "deleted")

Unchecked(s) == req[s] # Idle /\ req[s].key = "none"

ManageKeys ==
    /\ calls < MaxCalls /\ calls' = calls + 1
    /\ \E k \in Keys : GenerateKey(k) \/ EnableKey(k) \/ DisableKey(k) \/ DeleteKey(k)
    /\ req' = [s \in Slots |-> IF Unchecked(s) THEN [req[s] EXCEPT !.inForce = @ \cup InForce(keys')] ELSE req[s]]
    /\ UNCHANGED <<env, redis, memory, history, outages, life>>

-----------------------------------------------------------------------------
(* Counting and judging.                                                   *)

(* MULTI: INCR, EXPIRE, TTL.                                               *)
Incremented(c) ==
    [count |-> IF redis[c].left > 0 THEN redis[c].count + 1 ELSE 1, left |-> Window[c[1]]]

RunWith(c) ==
    [n |-> IF run[c].left > 0 THEN run[c].n + 1 ELSE 1, left |-> Window[c[1]]]

(* Mutant: requests in memory are forgotten a tick too early.              *)
Valid_Early(c) == {i \in DOMAIN memory[c] : memory[c][i] > 1}

Valid(c) == {i \in DOMAIN memory[c] : memory[c][i] > 0}

Logged(c) == With(Restrict(memory[c], Valid(c)), RunWith(c).n, Window[c[1]])

Counting(s) ==
    /\ \E stage \in Limiters : At(s, stage)
    /\ ~(Stage(s) = "key" /\ Unlimited(req[s].key))

NextCounter(s) == CountersAt(s)[Len(req[s].counted) + 1]

(* redisConnected is looked at before the first counter only.              *)
AsksRedis(s) == Counting(s) /\ (req[s].counted = <<>> => connected)

(* Mutant: off by one.                                                     *)
Exceeds_Early(c, n) == n >= Limit[c[1]] /\ ~NoLimit(c)

Exceeds(c, n) == n > Limit[c[1]] /\ ~NoLimit(c)

(* History: what the counters cs let pass, and the runs they are part of.  *)
Noted(cs, n, store) ==
    /\ run' = [c \in Counters |-> IF c \in cs THEN RunWith(c) ELSE run[c]]
    /\ passes' = [c \in Counters |->
                     IF c \in cs /\ ~Exceeds(c, n[c])
                     THEN With(passes[c], RunWith(c).n, [left |-> Window[c[1]], store |-> store])
                     ELSE passes[c]]
    /\ unjust' = unjust \cup {c \in cs : Exceeds(c, n[c]) /\ RunWith(c).n <= Limit[c[1]]}

(* The verdict falls when all counters of the limiter have answered; the   *)
(* minute comes before the day, and either refuses the request.            *)
Judged(s, counted) ==
    LET cs == CountersAt(s)
    IN  req' = [req EXCEPT ![s] =
            IF Len(counted) < Len(cs) THEN [req[s] EXCEPT !.counted = counted]
            ELSE IF \/ \E i \in DOMAIN cs : Exceeds(cs[i], counted[i])
                    \/ req[s].stage = Len(Chain[req[s].route])
            THEN Idle
            ELSE [req[s] EXCEPT !.stage = @ + 1, !.counted = <<>>]]

RedisCounts(s) ==
    /\ AsksRedis(s) /\ reachable
    /\ LET c == NextCounter(s)
           n == Incremented(c).count
       IN  /\ redis' = [redis EXCEPT ![c] = Incremented(c)]
           /\ Judged(s, Append(req[s].counted, n))
           /\ Noted({c}, [x \in {c} |-> n], -1)
    /\ UNCHANGED <<env, memory, keys, bounds>>

(* All counters of the limiter, also those that Redis has counted already. *)
CountInMemory(s) ==
    LET cs == CountersAt(s)
        n == [c \in Range(cs) |-> Cardinality(DOMAIN Logged(c))]
    IN  /\ memory' = [c \in Counters |-> IF c \in Range(cs) THEN Logged(c) ELSE memory[c]]
        /\ Judged(s, [i \in DOMAIN cs |-> n[cs[i]]])
        /\ Noted(Range(cs), n, life)

RedisFails(s) ==
    /\ AsksRedis(s) /\ ~reachable
    /\ CountInMemory(s)
    /\ UNCHANGED <<env, redis, keys, bounds>>

(* Redis has counted, but its answer is lost with the connection.          *)
ReplyLost(s) ==
    /\ AsksRedis(s) /\ reachable /\ outages < MaxOutages
    /\ redis' = [redis EXCEPT ![NextCounter(s)] = Incremented(NextCounter(s))]
    /\ CountInMemory(s)
    /\ reachable' = FALSE /\ outages' = outages + 1
    /\ UNCHANGED <<connected, keys, calls, life>>

MemoryCounts(s) ==
    /\ Counting(s) /\ req[s].counted = <<>> /\ ~connected
    /\ CountInMemory(s)
    /\ UNCHANGED <<env, redis, keys, bounds>>

-----------------------------------------------------------------------------
(* The environment.                                                        *)

(* A counter is dropped with its last tick.                                *)
Older(counter) ==
    IF counter.left > 1 THEN [counter EXCEPT !.left = @ - 1]
    ELSE [i \in DOMAIN counter |-> 0]

(* What the server remembers is dropped at the next request or in the      *)
(* cleanup, and does not count before that.                                *)
Tick ==
    /\ redis' = [c \in Counters |-> Older(redis[c])]
    /\ run' = [c \in Counters |-> Older(run[c])]
    /\ memory' = [c \in Counters |->
                     [i \in {j \in DOMAIN memory[c] : memory[c][j] > 1} |-> memory[c][i] - 1]]
    /\ passes' = [c \in Counters |->
                     [i \in {j \in DOMAIN passes[c] : passes[c][j].left > 1} |->
                         [passes[c][i] EXCEPT !.left = @ - 1]]]
    /\ UNCHANGED <<env, keys, req, unjust, bounds>>

Outage ==
    /\ reachable /\ outages < MaxOutages
    /\ reachable' = FALSE /\ outages' = outages + 1
    /\ UNCHANGED <<connected, redis, memory, keys, req, history, calls, life>>

(* The client of Redis notices, and later connects again.                  *)
ErrorEvent ==
    /\ ~reachable /\ connected /\ connected' = FALSE
    /\ UNCHANGED <<reachable, redis, memory, keys, req, history, bounds>>

Connects ==
    /\ ~(reachable /\ connected) /\ reachable' = TRUE /\ connected' = TRUE
    /\ UNCHANGED <<redis, memory, keys, req, history, bounds>>

Restart ==
    /\ life < MaxRestarts /\ life' = life + 1
    /\ memory' = [c \in Counters |-> Nothing] /\ req' = [s \in Slots |-> Idle]
    /\ connected' = FALSE
    /\ UNCHANGED <<reachable, redis, keys, history, calls, outages>>

Next ==
    \/ \E s \in Slots :
          \/ \E ip \in Ips, route \in Routes : Arrive(s, ip, route)
          \/ \E key \in Keys : Authenticate(s, key)
          \/ FindKeys(s) \/ Unauthorized(s) \/ Bypass(s)
          \/ RedisCounts(s) \/ RedisFails(s) \/ ReplyLost(s) \/ MemoryCounts(s)
    \/ ManageKeys
    \/ Tick \/ Outage \/ ErrorEvent \/ Connects \/ Restart

Spec == Init /\ [][Next]_vars

-----------------------------------------------------------------------------
(* Properties.                                                             *)

PassedBy(passed, store) == {i \in DOMAIN passed : passed[i].store = store}

(* In any period as long as the window, and not only in those that start   *)
(* with a full minute, each store lets at most the limit pass, however     *)
(* requests overlap and stores alternate (rateLimiter.ts 127-183): an      *)
(* outage of Redis can double what passes, and no more.                    *)
WithinLimit ==
    \A c \in Counters : ~NoLimit(c) =>
        \A store \in -1 .. life : Cardinality(PassedBy(passes[c], store)) <= Limit[c[1]]

(* Who is told to slow down has asked more often than the limit without a  *)
(* pause of one window; a client that pauses is always served, whichever   *)
(* store counted it before (rateLimiter.ts 48, 130, 170, 183).             *)
RefusedForCause == unjust = {}

(* A key opens the door only to requests during which it was valid: one    *)
(* that came after the key was disabled or deleted is turned away, and one *)
(* that was being checked at that moment may still pass (authenticate.ts   *)
(* 45-69, keygen.ts).                                                      *)
KeysInForce ==
    [][\A s \in Slots : req[s].key = "none" /\ req'[s].key # "none"
                            => req'[s].key \in req[s].inForce]_vars
=============================================================================
