------------------------------ MODULE ApiProofs ------------------------------
(***************************************************************************)
(* What the middleware of the API promises, for any routes, limits and     *)
(* windows, any number of requests in flight, and whatever the stores and  *)
(* the operator do.                                                        *)
(*                                                                         *)
(* A key opens the door only to requests during which it was in force:     *)
(* while a request is not yet authenticated, inForce holds the keys that   *)
(* are enabled now and all that were read for it.                          *)
(*                                                                         *)
(* No store lets more than the limit pass in a window, and nobody is       *)
(* refused whose run is within the limit. Neither is inductive: that a     *)
(* count is right depends on what Redis and the memory of the server hold  *)
(* of the run that their counter is in.                                    *)
(*                                                                         *)
(* And what the handlers answer while the indexer writes: statistics of    *)
(* several queries agree and pages miss no row, because the tables only    *)
(* grow; the rows of the names become what the chain tells, and no history *)
(* lacks what its row tells of, because the repetition of a block          *)
(* overwrites no more than it has reached.                                 *)
(***************************************************************************)
EXTENDS RateLimiter, ApiReads, FiniteSetTheorems, TLAPS

Checked(s) ==
    Unchecked(s) => InForce(keys) \subseteq req[s].inForce /\ req[s].found \subseteq req[s].inForce

KeysInv ==
    /\ DOMAIN req = Slots
    /\ \A s \in Slots : DOMAIN req[s] = DOMAIN Idle
    /\ \A s \in Slots : Checked(s)

LEMMA IdleFields ==
    /\ DOMAIN Idle = {"route", "ip", "key", "stage", "counted", "found", "inForce"}
    /\ Idle.route = "none" /\ Idle.key = "none"
    /\ Idle.found = {} /\ Idle.inForce = {}
BY DEF Idle

LEMMA InitKeysInv == Init => KeysInv
BY DEF Init, KeysInv, Checked, Unchecked

(* A request that goes on, is sent away or served, but not authenticated.  *)
LEMMA GoesOnKeysInv ==
    ASSUME KeysInv, NEW s \in Slots, NEW r, req' = [req EXCEPT ![s] = r], keys' = keys,
           \/ r = Idle
           \/ /\ DOMAIN r = DOMAIN Idle /\ req[s] # Idle
              /\ r.key = req[s].key /\ r.found = req[s].found /\ r.inForce = req[s].inForce
    PROVE  KeysInv' /\ (\A t \in Slots : req[t].key = "none" => req'[t].key = "none")
<1>1. DOMAIN req' = Slots /\ \A t \in Slots : req'[t] = IF t = s THEN r ELSE req[t]
    BY DEF KeysInv
<1>2. \A t \in Slots : DOMAIN req'[t] = DOMAIN Idle
    BY <1>1 DEF KeysInv
<1>3. \A t \in Slots : Checked(t)'
    <2> TAKE t \in Slots
    <2>1. InForce(keys)' = InForce(keys)
        OBVIOUS
    <2>2. Checked(t)
        BY DEF KeysInv
    <2>3. CASE t # s \/ r # Idle
        BY <1>1, <2>1, <2>2, <2>3 DEF Checked, Unchecked
    <2>4. CASE t = s /\ r = Idle
        BY <1>1, <2>4 DEF Checked, Unchecked
    <2> QED BY <2>3, <2>4
<1>4. \A t \in Slots : req[t].key = "none" => req'[t].key = "none"
    BY <1>1, IdleFields
<1> QED BY <1>1, <1>2, <1>3, <1>4 DEF KeysInv

LEMMA JudgedKeysInv ==
    ASSUME KeysInv, NEW s \in Slots, NEW counted, Judged(s, counted), keys' = keys, req[s] # Idle
    PROVE  KeysInv' /\ (\A t \in Slots : req[t].key = "none" => req'[t].key = "none")
<1>1. DOMAIN req[s] = DOMAIN Idle
    BY DEF KeysInv
<1> DEFINE r1 == [req[s] EXCEPT !.counted = counted]
           r2 == [req[s] EXCEPT !.stage = @ + 1, !.counted = <<>>]
<1>2. /\ DOMAIN r1 = DOMAIN Idle /\ r1.key = req[s].key /\ r1.found = req[s].found
      /\ r1.inForce = req[s].inForce
      /\ DOMAIN r2 = DOMAIN Idle /\ r2.key = req[s].key /\ r2.found = req[s].found
      /\ r2.inForce = req[s].inForce
    BY <1>1, IdleFields
<1>3. PICK r \in {r1, Idle, r2} : req' = [req EXCEPT ![s] = r]
    BY DEF Judged
<1> HIDE DEF r1, r2
<1> QED BY <1>2, <1>3, GoesOnKeysInv

(* A request at a limiter is not idle.                                     *)
LEMMA BusyAt ==
    ASSUME NEW s \in Slots, NEW stage, At(s, stage)
    PROVE  req[s] # Idle
BY IdleFields DEF At

(* Counting never changes who a request comes from.                        *)
LEMMA CountsKeysInv ==
    ASSUME KeysInv, NEW s \in Slots,
           RedisCounts(s) \/ RedisFails(s) \/ ReplyLost(s) \/ MemoryCounts(s)
    PROVE  KeysInv' /\ (\A t \in Slots : req[t].key = "none" => req'[t].key = "none")
<1>1. keys' = keys /\ req[s] # Idle
    BY BusyAt DEF RedisCounts, RedisFails, ReplyLost, MemoryCounts, AsksRedis, Counting
<1>2. \E counted : Judged(s, counted)
    BY DEF RedisCounts, RedisFails, ReplyLost, MemoryCounts, CountInMemory
<1> QED BY <1>1, <1>2, JudgedKeysInv

LEMMA FindKeysInv ==
    ASSUME KeysInv, NEW s \in Slots, FindKeys(s)
    PROVE  KeysInv' /\ (\A t \in Slots : req[t].key = "none" => req'[t].key = "none")
<1> DEFINE r == [req[s] EXCEPT !.found = FoundKeys]
<1>1. req' = [req EXCEPT ![s] = r] /\ keys' = keys /\ At(s, "auth")
    BY DEF FindKeys
<1>2. /\ DOMAIN r = DOMAIN Idle /\ r.key = req[s].key
      /\ r.found = InForce(keys) /\ r.inForce = req[s].inForce
    BY IdleFields DEF KeysInv, FoundKeys, InForce
<1>3. req[s] # Idle
    BY <1>1, BusyAt
<1> HIDE DEF r
<1>4. DOMAIN req' = Slots /\ \A t \in Slots : req'[t] = IF t = s THEN r ELSE req[t]
    BY <1>1 DEF KeysInv
<1>5. \A t \in Slots : Checked(t)'
    <2> TAKE t \in Slots
    <2>1. Checked(t)
        BY DEF KeysInv
    <2>2. CASE t = s
        BY <1>1, <1>2, <1>3, <1>4, <2>1, <2>2 DEF Checked, Unchecked
    <2>3. CASE t # s
        BY <1>1, <1>4, <2>1, <2>3 DEF Checked, Unchecked
    <2> QED BY <2>2, <2>3
<1> QED BY <1>2, <1>4, <1>5 DEF KeysInv

(* The one step that admits a key: it was read for this request.           *)
LEMMA AuthenticateInv ==
    ASSUME KeysInv, NEW s \in Slots, NEW key \in Keys, Authenticate(s, key)
    PROVE  /\ KeysInv'
           /\ \A t \in Slots : req[t].key = "none" /\ req'[t].key # "none"
                                   => req'[t].key \in req[t].inForce
<1> DEFINE r == [req[s] EXCEPT !.key = key, !.stage = @ + 1, !.found = {}, !.inForce = {}]
<1>1. req' = [req EXCEPT ![s] = r] /\ keys' = keys /\ At(s, "auth") /\ key \in req[s].found
    BY DEF Authenticate
<1>2. DOMAIN r = DOMAIN Idle /\ r.key = key
    BY IdleFields DEF KeysInv
<1>3. req[s] # Idle
    BY <1>1, BusyAt
<1>4. key # "none"
    BY LimiterShape
<1> HIDE DEF r
<1>5. DOMAIN req' = Slots /\ \A t \in Slots : req'[t] = IF t = s THEN r ELSE req[t]
    BY <1>1 DEF KeysInv
<1>6. \A t \in Slots : Checked(t)'
    <2> TAKE t \in Slots
    <2>1. Checked(t)
        BY DEF KeysInv
    <2> QED BY <1>1, <1>2, <1>4, <1>5, <2>1 DEF Checked, Unchecked
<1>7. ASSUME req[s].key = "none" PROVE key \in req[s].inForce
    BY <1>1, <1>3, <1>7 DEF KeysInv, Checked, Unchecked
<1> QED BY <1>2, <1>5, <1>6, <1>7 DEF KeysInv

(* The operator's command is noted for every request that is unchecked.    *)
LEMMA ManageKeysInv ==
    ASSUME KeysInv, ManageKeys
    PROVE  KeysInv' /\ (\A t \in Slots : req[t].key = "none" => req'[t].key = "none")
<1>1. DOMAIN req' = Slots
    BY DEF ManageKeys
<1>2. ASSUME NEW t \in Slots
      PROVE  /\ DOMAIN req'[t] = DOMAIN Idle /\ req'[t].key = req[t].key
             /\ Unchecked(t) => /\ req'[t].found = req[t].found
                                /\ req'[t].inForce = req[t].inForce \cup InForce(keys')
             /\ ~Unchecked(t) => req'[t] = req[t]
    BY IdleFields DEF ManageKeys, KeysInv
<1>3. \A t \in Slots : Checked(t)'
    <2> TAKE t \in Slots
    <2>1. Checked(t)
        BY DEF KeysInv
    <2>2. CASE Unchecked(t)
        BY <1>2, <2>1, <2>2 DEF Checked
    <2>3. CASE ~Unchecked(t)
        BY <1>2, <2>3 DEF Checked, Unchecked
    <2> QED BY <2>2, <2>3
<1> QED BY <1>1, <1>2, <1>3 DEF KeysInv

LEMMA ArriveKeysInv ==
    ASSUME KeysInv, NEW s \in Slots, NEW ip, NEW route, Arrive(s, ip, route)
    PROVE  KeysInv' /\ (\A t \in Slots : req[t].key = "none" => req'[t].key = "none")
<1> DEFINE r == [Idle EXCEPT !.route = route, !.ip = ip, !.stage = 1, !.inForce = InForce(keys)]
<1>1. req' = [req EXCEPT ![s] = r] /\ keys' = keys
    BY DEF Arrive
<1>2. DOMAIN r = DOMAIN Idle /\ r.key = "none" /\ r.found = {} /\ r.inForce = InForce(keys)
    BY IdleFields
<1> HIDE DEF r
<1>3. DOMAIN req' = Slots /\ \A t \in Slots : req'[t] = IF t = s THEN r ELSE req[t]
    BY <1>1 DEF KeysInv
<1>4. \A t \in Slots : Checked(t)'
    <2> TAKE t \in Slots
    <2>1. Checked(t)
        BY DEF KeysInv
    <2> QED BY <1>1, <1>2, <1>3, <2>1 DEF Checked, Unchecked
<1> QED BY <1>2, <1>3, <1>4 DEF KeysInv

LEMMA NextKeysInv ==
    ASSUME KeysInv, [Next]_vars
    PROVE  /\ KeysInv'
           /\ \A t \in Slots : req[t].key = "none" /\ req'[t].key # "none"
                                   => req'[t].key \in req[t].inForce
<1>1. CASE \E s \in Slots, ip \in Ips, route \in Routes : Arrive(s, ip, route)
    BY <1>1, ArriveKeysInv
<1>2. CASE \E s \in Slots, key \in Keys : Authenticate(s, key)
    BY <1>2, AuthenticateInv
<1>3. CASE \E s \in Slots : FindKeys(s)
    BY <1>3, FindKeysInv
<1>4. CASE \E s \in Slots : Unauthorized(s) \/ Bypass(s)
    <2>1. PICK s \in Slots : req' = [req EXCEPT ![s] = Idle] /\ keys' = keys
        BY <1>4 DEF Unauthorized, Bypass
    <2> QED BY <2>1, GoesOnKeysInv
<1>5. CASE \E s \in Slots : RedisCounts(s) \/ RedisFails(s) \/ ReplyLost(s) \/ MemoryCounts(s)
    BY <1>5, CountsKeysInv
<1>6. CASE ManageKeys
    BY <1>6, ManageKeysInv
<1>7. CASE Restart
    <2>1. keys' = keys /\ req' = [s \in Slots |-> Idle]
        BY <1>7 DEF Restart
    <2> QED BY <2>1, IdleFields DEF KeysInv, Checked, Unchecked
<1>8. CASE Tick \/ Outage \/ ErrorEvent \/ Connects \/ UNCHANGED vars
    <2>1. keys' = keys /\ req' = req
        BY <1>8 DEF Tick, Outage, ErrorEvent, Connects, vars
    <2> QED BY <2>1 DEF KeysInv, Checked, Unchecked
<1> QED BY <1>1, <1>2, <1>3, <1>4, <1>5, <1>6, <1>7, <1>8 DEF Next

(* A key that was disabled or deleted before a request came never admits   *)
(* it, however long its comparison takes (authenticate.ts 45-69).          *)
THEOREM OnlyKeysInForce == Spec => KeysInForce
<1>1. KeysInv /\ [Next]_vars => KeysInv'
    BY NextKeysInv
<1>2. KeysInv /\ [Next]_vars =>
        [\A s \in Slots : req[s].key = "none" /\ req'[s].key # "none"
                              => req'[s].key \in req[s].inForce]_vars
    BY NextKeysInv
<1> QED BY <1>1, <1>2, InitKeysInv, PTL DEF Spec, KeysInForce

-----------------------------------------------------------------------------
(* The counters.  Every counting prolongs the run of its counter, so that  *)
(* what a store remembers, and what has passed within the window, lies in  *)
(* the present run.  What this life of the server let pass is still in its *)
(* memory, and what Redis let pass is within the count of Redis.           *)

RedisOK(c) ==
    /\ redis[c] \in [count : Nat, left : 0 .. run[c].left]
    /\ redis[c].left > 0 => redis[c].count <= run[c].n

MemoryOK(c) ==
    /\ DOMAIN memory[c] \subseteq 1 .. run[c].n
    /\ \A i \in DOMAIN memory[c] : memory[c][i] \in 1 .. run[c].left

PassOK(c, i) ==
    /\ passes[c][i] \in [left : 1 .. run[c].left, store : -1 .. life]
    /\ passes[c][i].store = -1 => passes[c][i].left <= redis[c].left
    /\ passes[c][i].store = life => i \in DOMAIN memory[c] /\ memory[c][i] = passes[c][i].left

PassesOK(c) ==
    /\ DOMAIN passes[c] \subseteq 1 .. run[c].n /\ \A i \in DOMAIN passes[c] : PassOK(c, i)
    /\ redis[c].left > 0 => Cardinality(PassedBy(passes[c], -1)) <= redis[c].count
    /\ ~NoLimit(c) => \A store \in -1 .. life : Cardinality(PassedBy(passes[c], store)) <= Limit[c[1]]

CounterOK(c) ==
    /\ run[c] \in [n : Nat, left : 0 .. Window[c[1]]]
    /\ RedisOK(c) /\ MemoryOK(c) /\ PassesOK(c)

CountersInv ==
    /\ run = [c \in Counters |-> run[c]] /\ redis = [c \in Counters |-> redis[c]]
    /\ life \in Nat
    /\ \A c \in Counters : CounterOK(c)
    /\ unjust = {}

LEMMA LimitsShape ==
    ASSUME NEW c \in Counters
    PROVE  Window[c[1]] \in Nat \ {0} /\ Limit[c[1]] \in Nat \ {0}
<1>1. c[1] \in Kinds
    BY DEF Counters, Kinds
<1> QED BY <1>1, LimiterShape

(* The numbers of a run are finitely many.                                 *)
LEMMA PlacesFinite ==
    ASSUME NEW n \in Nat, NEW S \in SUBSET (1 .. n)
    PROVE  IsFiniteSet(S) /\ Cardinality(S) \in Nat /\ Cardinality(S) <= n
<1>1. IsFiniteSet(1 .. n) /\ Cardinality(1 .. n) = n
    BY FS_Interval
<1>2. IsFiniteSet(S) /\ Cardinality(S) <= n
    BY <1>1, FS_Subset
<1> QED BY <1>2, FS_CardinalityType

LEMMA OneMore ==
    ASSUME NEW S, IsFiniteSet(S), NEW x
    PROVE  Cardinality(S \cup {x}) \in Nat /\ Cardinality(S \cup {x}) <= Cardinality(S) + 1
<1>1. /\ IsFiniteSet(S \cup {x})
      /\ Cardinality(S \cup {x}) = IF x \in S THEN Cardinality(S) ELSE Cardinality(S) + 1
    BY FS_AddElement
<1>2. Cardinality(S) \in Nat
    BY FS_CardinalityType
<1> QED BY <1>1, <1>2

LEMMA FewerPassed ==
    ASSUME NEW n \in Nat, NEW T \in SUBSET (1 .. n), NEW S \in SUBSET T
    PROVE  Cardinality(S) <= Cardinality(T)
BY PlacesFinite, FS_Subset

(* The run that a counting is part of.                                     *)
LEMMA RunGrows ==
    ASSUME NEW c \in Counters, CounterOK(c)
    PROVE  /\ RunWith(c) \in [n : Nat \ {0}, left : {Window[c[1]]}]
           /\ RunWith(c).n \notin DOMAIN memory[c] \cup DOMAIN passes[c]
           /\ DOMAIN memory[c] \subseteq 1 .. RunWith(c).n - 1
           /\ DOMAIN passes[c] \subseteq 1 .. RunWith(c).n - 1
           /\ Incremented(c) \in [count : Nat \ {0}, left : {Window[c[1]]}]
           /\ Incremented(c).count <= RunWith(c).n
           /\ run[c].left \in 0 .. Window[c[1]] /\ Window[c[1]] \in Nat \ {0}
<1>1. Window[c[1]] \in Nat \ {0}
    BY LimitsShape
<1>2. run[c].n \in Nat /\ run[c].left \in 0 .. Window[c[1]]
    BY DEF CounterOK
<1>3. /\ RunWith(c) \in [n : Nat \ {0}, left : {Window[c[1]]}]
      /\ RunWith(c).n = IF run[c].left > 0 THEN run[c].n + 1 ELSE 1
    BY <1>2 DEF RunWith
<1>4. DOMAIN memory[c] \subseteq 1 .. run[c].n /\ DOMAIN passes[c] \subseteq 1 .. run[c].n
    BY DEF CounterOK, MemoryOK, PassesOK
<1>5. run[c].left = 0 => DOMAIN memory[c] = {} /\ DOMAIN passes[c] = {}
    <2>1. \A i \in DOMAIN memory[c] : memory[c][i] \in 1 .. run[c].left
        BY DEF CounterOK, MemoryOK
    <2>2. \A i \in DOMAIN passes[c] : passes[c][i].left \in 1 .. run[c].left
        BY DEF CounterOK, PassesOK, PassOK
    <2> QED BY <2>1, <2>2
<1>6. DOMAIN memory[c] \subseteq 1 .. RunWith(c).n - 1 /\ DOMAIN passes[c] \subseteq 1 .. RunWith(c).n - 1
    BY <1>2, <1>3, <1>4, <1>5
<1>7. redis[c].count \in Nat /\ redis[c].left \in 0 .. run[c].left
      /\ (redis[c].left > 0 => redis[c].count <= run[c].n)
    BY DEF CounterOK, RedisOK
<1>8. /\ Incremented(c) \in [count : Nat \ {0}, left : {Window[c[1]]}]
      /\ Incremented(c).count = IF redis[c].left > 0 THEN redis[c].count + 1 ELSE 1
    BY <1>7 DEF Incremented
<1>9. Incremented(c).count <= RunWith(c).n
    BY <1>2, <1>3, <1>7, <1>8
<1>10. RunWith(c).n \notin DOMAIN memory[c] \cup DOMAIN passes[c]
    BY <1>3, <1>6
<1> QED BY <1>1, <1>2, <1>3, <1>6, <1>8, <1>9, <1>10

(* What every counting does to its counter: the run goes on, and what the  *)
(* store lets pass is noted.                                               *)
Counts(c, n, store) ==
    /\ run'[c] = RunWith(c) /\ life' = life
    /\ passes'[c] = IF ~Exceeds(c, n)
                    THEN With(passes[c], RunWith(c).n, [left |-> Window[c[1]], store |-> store])
                    ELSE passes[c]

LEMMA PassedGrows ==
    ASSUME NEW c \in Counters, CounterOK(c), NEW n, NEW store, Counts(c, n, store)
    PROVE  /\ DOMAIN passes'[c] \subseteq 1 .. run'[c].n
           /\ \A i \in DOMAIN passes'[c] :
                \/ i \in DOMAIN passes[c] /\ i # RunWith(c).n /\ passes'[c][i] = passes[c][i]
                \/ i = RunWith(c).n /\ passes'[c][i] = [left |-> Window[c[1]], store |-> store]
           /\ \A other : other # store => PassedBy(passes'[c], other) = PassedBy(passes[c], other)
           /\ Exceeds(c, n) => PassedBy(passes'[c], store) = PassedBy(passes[c], store)
           /\ ~Exceeds(c, n) => PassedBy(passes'[c], store) = PassedBy(passes[c], store) \cup {RunWith(c).n}
<1> DEFINE new == RunWith(c).n
<1>1. /\ new \in Nat \ {0} /\ run'[c].n = new /\ new \notin DOMAIN passes[c]
      /\ DOMAIN passes[c] \subseteq 1 .. new - 1
    BY RunGrows DEF Counts
<1> HIDE DEF new
<1>2. CASE Exceeds(c, n)
    <2>1. passes'[c] = passes[c]
        BY <1>2 DEF Counts
    <2> QED BY <1>1, <1>2, <2>1 DEF PassedBy, new
<1>3. CASE ~Exceeds(c, n)
    <2> DEFINE p == [left |-> Window[c[1]], store |-> store]
    <2>1. passes'[c] = With(passes[c], new, p)
        BY <1>3 DEF Counts, new
    <2>2. /\ DOMAIN passes'[c] = DOMAIN passes[c] \cup {new} /\ passes'[c][new] = p
          /\ \A i \in DOMAIN passes[c] : passes'[c][i] = passes[c][i]
        BY <1>1, <2>1 DEF With
    <2>3. p.store = store
        OBVIOUS
    <2> HIDE DEF p
    <2>4. \A other : other # store => PassedBy(passes'[c], other) = PassedBy(passes[c], other)
        BY <1>1, <2>2, <2>3 DEF PassedBy
    <2>5. PassedBy(passes'[c], store) = PassedBy(passes[c], store) \cup {new}
        BY <1>1, <2>2, <2>3 DEF PassedBy
    <2>6. DOMAIN passes'[c] \subseteq 1 .. run'[c].n
        BY <1>1, <2>2
    <2>7. \A i \in DOMAIN passes'[c] :
            \/ i \in DOMAIN passes[c] /\ i # new /\ passes'[c][i] = passes[c][i]
            \/ i = new /\ passes'[c][i] = p
        BY <1>1, <2>2
    <2> QED BY <1>3, <2>4, <2>5, <2>6, <2>7 DEF new, p
<1> QED BY <1>2, <1>3

LEMMA PassedByRedis ==
    ASSUME NEW c \in Counters, CounterOK(c)
    PROVE  /\ IsFiniteSet(PassedBy(passes[c], -1)) /\ Cardinality(PassedBy(passes[c], -1)) \in Nat
           /\ Cardinality(PassedBy(passes[c], -1)) <= IF redis[c].left > 0 THEN redis[c].count ELSE 0
<1>1. IsFiniteSet(PassedBy(passes[c], -1)) /\ Cardinality(PassedBy(passes[c], -1)) \in Nat
    BY PlacesFinite DEF CounterOK, PassesOK, PassedBy
<1>2. CASE redis[c].left > 0
    BY <1>1, <1>2 DEF CounterOK, PassesOK
<1>3. CASE ~(redis[c].left > 0)
    <2>1. redis[c].left \in 0 .. run[c].left /\ run[c].left \in 0 .. Window[c[1]] /\ Window[c[1]] \in Nat
        BY LimitsShape DEF CounterOK, RedisOK
    <2>2. ASSUME NEW i \in PassedBy(passes[c], -1) PROVE FALSE
        <3>1. PassOK(c, i) /\ passes[c][i].store = -1
            BY DEF CounterOK, PassesOK, PassedBy
        <3> QED BY <1>3, <2>1, <3>1 DEF PassOK
    <2>3. PassedBy(passes[c], -1) = {}
        BY <2>2
    <2> QED BY <1>1, <1>3, <2>3, FS_EmptySet
<1> QED BY <1>2, <1>3

LEMMA RedisCountsOne ==
    ASSUME NEW c \in Counters, CounterOK(c), NoLimit(c) => NoLimit(c)', life \in Nat, Counts(c, Incremented(c).count, -1),
           redis'[c] = Incremented(c), memory'[c] = memory[c]
    PROVE  CounterOK(c)'
<1> DEFINE new == RunWith(c).n
           w == Window[c[1]]
           count == Incremented(c).count
<1>1. /\ new \in Nat \ {0} /\ run'[c] \in [n : Nat, left : {w}] /\ run'[c].n = new /\ run'[c].left = w
      /\ new \notin DOMAIN memory[c]
      /\ DOMAIN memory[c] \subseteq 1 .. new - 1
      /\ redis'[c] \in [count : Nat, left : {w}] /\ redis'[c].left = w /\ redis'[c].count = count
      /\ count \in Nat \ {0} /\ count <= new
      /\ run[c].left \in 0 .. w /\ w \in Nat \ {0}
      /\ life' = life /\ redis[c].left \in 0 .. run[c].left /\ redis[c].count \in Nat
      /\ count = IF redis[c].left > 0 THEN redis[c].count + 1 ELSE 1
    BY RunGrows DEF Counts, CounterOK, RedisOK, Incremented
<1>2. /\ DOMAIN passes'[c] \subseteq 1 .. new
      /\ \A i \in DOMAIN passes'[c] :
            \/ i \in DOMAIN passes[c] /\ i # new /\ passes'[c][i] = passes[c][i]
            \/ i = new /\ passes'[c][i] = [left |-> w, store |-> -1]
      /\ \A other : other # -1 => PassedBy(passes'[c], other) = PassedBy(passes[c], other)
      /\ Exceeds(c, count) => PassedBy(passes'[c], -1) = PassedBy(passes[c], -1)
      /\ ~Exceeds(c, count) => PassedBy(passes'[c], -1) = PassedBy(passes[c], -1) \cup {new}
    BY <1>1, PassedGrows
<1> HIDE DEF new, w, count
<1>3. MemoryOK(c)'
    BY <1>1 DEF CounterOK, MemoryOK
<1>4. RedisOK(c)'
    BY <1>1 DEF RedisOK
<1>5. ASSUME NEW i \in DOMAIN passes'[c] PROVE PassOK(c, i)'
    <2>1. CASE i \in DOMAIN passes[c] /\ i # new /\ passes'[c][i] = passes[c][i]
        <3>1. PassOK(c, i)
            BY <2>1 DEF CounterOK, PassesOK
        <3> QED BY <1>1, <2>1, <3>1 DEF PassOK
    <2>2. CASE i = new /\ passes'[c][i] = [left |-> w, store |-> -1]
        BY <1>1, <2>2 DEF PassOK
    <2> QED BY <1>2, <2>1, <2>2
<1>7. /\ IsFiniteSet(PassedBy(passes[c], -1)) /\ Cardinality(PassedBy(passes[c], -1)) \in Nat
      /\ Cardinality(PassedBy(passes[c], -1)) <= IF redis[c].left > 0 THEN redis[c].count ELSE 0
    BY PassedByRedis
<1>8. Cardinality(PassedBy(passes'[c], -1)) <= count
    <2>1. CASE Exceeds(c, count)
        BY <1>1, <1>2, <1>7, <2>1
    <2>2. CASE ~Exceeds(c, count)
        <3> DEFINE P == PassedBy(passes[c], -1)
                   Q == PassedBy(passes'[c], -1)
        <3>1. Q = P \cup {new}
            BY <1>2, <2>2
        <3>2. Cardinality(Q) \in Nat /\ Cardinality(Q) <= Cardinality(P) + 1
            BY <1>7, <3>1, OneMore
        <3>3. Cardinality(P) \in Nat
            BY <1>7
        <3>4. Cardinality(P) <= count - 1
            BY <1>1, <1>7
        <3> HIDE DEF P, Q
        <3> QED BY <1>1, <3>2, <3>3, <3>4 DEF Q
    <2> QED BY <2>1, <2>2
<1>9. ASSUME ~NoLimit(c), NEW store \in -1 .. life
      PROVE  Cardinality(PassedBy(passes'[c], store)) <= Limit[c[1]]
    <2>1. Cardinality(PassedBy(passes[c], store)) <= Limit[c[1]]
        BY <1>9 DEF CounterOK, PassesOK
    <2>2. CASE store # -1 \/ Exceeds(c, count)
        BY <1>2, <2>1, <2>2
    <2>3. CASE store = -1 /\ ~Exceeds(c, count)
        <3>1. Cardinality(PassedBy(passes'[c], -1)) \in Nat
            BY <1>2, <1>7, <2>3, FS_AddElement, FS_CardinalityType
        <3>2. Limit[c[1]] \in Nat /\ count <= Limit[c[1]]
            BY <1>1, <1>9, <2>3, LimitsShape DEF Exceeds
        <3> QED BY <1>1, <1>8, <2>3, <3>1, <3>2
    <2> QED BY <2>2, <2>3
<1>10. PassesOK(c)'
    BY <1>1, <1>2, <1>5, <1>8, <1>9 DEF PassesOK
<1> QED BY <1>1, <1>3, <1>4, <1>10 DEF CounterOK, w

LEMMA LoggedFacts ==
    ASSUME NEW c \in Counters, CounterOK(c)
    PROVE  /\ DOMAIN Logged(c) = DOMAIN memory[c] \cup {RunWith(c).n}
           /\ DOMAIN Logged(c) \subseteq 1 .. RunWith(c).n
           /\ Logged(c)[RunWith(c).n] = Window[c[1]]
           /\ \A i \in DOMAIN memory[c] : Logged(c)[i] = memory[c][i]
           /\ Cardinality(DOMAIN Logged(c)) \in Nat
           /\ Cardinality(DOMAIN Logged(c)) <= RunWith(c).n
<1>1. /\ RunWith(c).n \in Nat \ {0} /\ RunWith(c).n \notin DOMAIN memory[c]
      /\ DOMAIN memory[c] \subseteq 1 .. RunWith(c).n - 1
      /\ run[c].left \in Nat
    BY RunGrows
<1>2. Valid(c) = DOMAIN memory[c]
    BY <1>1 DEF CounterOK, MemoryOK, Valid
<1>3. /\ DOMAIN Logged(c) = DOMAIN memory[c] \cup {RunWith(c).n}
      /\ Logged(c)[RunWith(c).n] = Window[c[1]]
      /\ \A i \in DOMAIN memory[c] : Logged(c)[i] = memory[c][i]
    BY <1>1, <1>2 DEF Logged, With, Restrict
<1>4. DOMAIN Logged(c) \subseteq 1 .. RunWith(c).n
    BY <1>1, <1>3
<1> QED BY <1>1, <1>3, <1>4, PlacesFinite

LEMMA MemoryCountsOne ==
    ASSUME NEW c \in Counters, CounterOK(c), NoLimit(c) => NoLimit(c)', life \in Nat,
           Counts(c, Cardinality(DOMAIN Logged(c)), life),
           memory'[c] = Logged(c), redis'[c] \in {redis[c], Incremented(c)}
    PROVE  CounterOK(c)'
<1> DEFINE new == RunWith(c).n
           w == Window[c[1]]
           logged == Logged(c)
           n == Cardinality(DOMAIN Logged(c))
<1>1. /\ new \in Nat \ {0} /\ run'[c] \in [n : Nat, left : {w}] /\ run'[c].n = new /\ run'[c].left = w
      /\ run[c].left \in 0 .. w /\ w \in Nat \ {0}
      /\ life' = life /\ redis[c] \in [count : Nat, left : 0 .. run[c].left]
    BY RunGrows DEF Counts, CounterOK, RedisOK
<1>2. /\ DOMAIN logged = DOMAIN memory[c] \cup {new} /\ DOMAIN logged \subseteq 1 .. new
      /\ logged[new] = w /\ (\A i \in DOMAIN memory[c] : logged[i] = memory[c][i])
      /\ n \in Nat /\ n = Cardinality(DOMAIN logged)
      /\ memory'[c] = logged /\ new \notin DOMAIN memory[c]
    BY LoggedFacts, RunGrows
<1>3. /\ DOMAIN passes'[c] \subseteq 1 .. new
      /\ \A i \in DOMAIN passes'[c] :
            \/ i \in DOMAIN passes[c] /\ i # new /\ passes'[c][i] = passes[c][i]
            \/ i = new /\ passes'[c][i] = [left |-> w, store |-> life]
      /\ \A other : other # life => PassedBy(passes'[c], other) = PassedBy(passes[c], other)
      /\ Exceeds(c, n) => PassedBy(passes'[c], life) = PassedBy(passes[c], life)
      /\ ~Exceeds(c, n) => PassedBy(passes'[c], life) = PassedBy(passes[c], life) \cup {new}
    BY <1>1, PassedGrows
<1>4. /\ redis'[c] \in [count : Nat, left : 0 .. w]
      /\ redis'[c].left >= redis[c].left
      /\ redis'[c].left > 0 => redis'[c].count <= new
      /\ redis'[c].count >= (IF redis[c].left > 0 THEN redis[c].count ELSE 0)
    <2>1. CASE redis'[c] = redis[c]
        <3>1. redis[c].left > 0 => redis[c].count <= run[c].n /\ run[c].left > 0 /\ new = run[c].n + 1
            BY <1>1 DEF CounterOK, RedisOK, RunWith
        <3>2. run[c].n \in Nat
            BY DEF CounterOK
        <3> QED BY <1>1, <2>1, <3>1, <3>2
    <2>2. CASE redis'[c] = Incremented(c)
        <3>1. /\ Incremented(c) \in [count : Nat \ {0}, left : {w}] /\ Incremented(c).count <= new
              /\ Incremented(c).count = IF redis[c].left > 0 THEN redis[c].count + 1 ELSE 1
            BY RunGrows DEF Incremented
        <3> QED BY <1>1, <2>2, <3>1
    <2> QED BY <2>1, <2>2
<1> HIDE DEF new, w, logged, n
<1>5. MemoryOK(c)'
    BY <1>1, <1>2 DEF CounterOK, MemoryOK
<1>6. RedisOK(c)'
    BY <1>1, <1>4 DEF RedisOK
<1>7. ASSUME NEW i \in DOMAIN passes'[c] PROVE PassOK(c, i)'
    <2>1. CASE i \in DOMAIN passes[c] /\ i # new /\ passes'[c][i] = passes[c][i]
        <3>1. PassOK(c, i)
            BY <2>1 DEF CounterOK, PassesOK
        <3> QED BY <1>1, <1>2, <1>4, <2>1, <3>1 DEF PassOK
    <2>2. CASE i = new /\ passes'[c][i] = [left |-> w, store |-> life]
        BY <1>1, <1>2, <2>2 DEF PassOK
    <2> QED BY <1>3, <2>1, <2>2
<1>8. redis'[c].left > 0 => Cardinality(PassedBy(passes'[c], -1)) <= redis'[c].count
    <2>1. PassedBy(passes'[c], -1) = PassedBy(passes[c], -1)
        BY <1>1, <1>3
    <2> QED BY <1>1, <1>4, <2>1, PassedByRedis
<1>9. ASSUME ~NoLimit(c), NEW store \in -1 .. life
      PROVE  Cardinality(PassedBy(passes'[c], store)) <= Limit[c[1]]
    <2>1. Cardinality(PassedBy(passes[c], store)) <= Limit[c[1]]
        BY <1>9 DEF CounterOK, PassesOK
    <2>2. CASE store # life \/ Exceeds(c, n)
        BY <1>3, <2>1, <2>2
    <2>3. CASE store = life /\ ~Exceeds(c, n)
        <3>1. ASSUME NEW i \in PassedBy(passes[c], life) PROVE i \in DOMAIN logged
            BY <1>2 DEF CounterOK, PassesOK, PassOK, PassedBy
        <3>2. PassedBy(passes'[c], life) \subseteq DOMAIN logged
            BY <1>2, <1>3, <2>3, <3>1
        <3> DEFINE Q == PassedBy(passes'[c], life)
        <3>3. Cardinality(Q) <= n /\ Cardinality(Q) \in Nat
            <4>1. IsFiniteSet(DOMAIN logged)
                BY <1>1, <1>2, PlacesFinite
            <4>2. Q \in SUBSET DOMAIN logged
                BY <3>2
            <4> HIDE DEF Q
            <4>3. IsFiniteSet(Q) /\ Cardinality(Q) <= Cardinality(DOMAIN logged)
                BY <4>1, <4>2, FS_Subset
            <4> QED BY <1>2, <4>3, FS_CardinalityType
        <3>4. Limit[c[1]] \in Nat /\ n <= Limit[c[1]]
            BY <1>2, <1>9, <2>3, LimitsShape DEF Exceeds
        <3>5. Q = PassedBy(passes'[c], store)
            BY <2>3
        <3> HIDE DEF Q
        <3> QED BY <1>2, <3>3, <3>4, <3>5
    <2> QED BY <2>2, <2>3
<1>10. PassesOK(c)'
    BY <1>1, <1>3, <1>7, <1>8, <1>9 DEF PassesOK
<1> QED BY <1>1, <1>5, <1>6, <1>10 DEF CounterOK, w

(* A tick: counters and entries with one tick left are dropped, and so is  *)
(* a run, whose entries have at most as many ticks left as it has.         *)
LEMMA TickOne ==
    ASSUME NEW c \in Counters, CounterOK(c), NoLimit(c) => NoLimit(c)', life \in Nat, life' = life,
           run'[c] = Older(run[c]), redis'[c] = Older(redis[c]),
           memory'[c] = [i \in {j \in DOMAIN memory[c] : memory[c][j] > 1} |-> memory[c][i] - 1],
           passes'[c] = [i \in {j \in DOMAIN passes[c] : passes[c][j].left > 1} |->
                            [passes[c][i] EXCEPT !.left = @ - 1]]
    PROVE  CounterOK(c)'
<1> DEFINE w == Window[c[1]]
<1>1. /\ run[c] \in [n : Nat, left : 0 .. w] /\ w \in Nat \ {0} /\ Limit[c[1]] \in Nat
      /\ redis[c] \in [count : Nat, left : 0 .. run[c].left]
      /\ redis[c].left > 0 => redis[c].count <= run[c].n
    BY LimitsShape DEF CounterOK, RedisOK
<1> HIDE DEF w
<1>2. /\ run'[c] \in [n : Nat, left : 0 .. w]
      /\ run'[c].left = (IF run[c].left > 1 THEN run[c].left - 1 ELSE 0)
      /\ run[c].left > 1 => run'[c].n = run[c].n
    BY <1>1 DEF Older
<1>3. /\ redis'[c] \in [count : Nat, left : 0 .. w]
      /\ redis'[c].left = (IF redis[c].left > 1 THEN redis[c].left - 1 ELSE 0)
      /\ redis[c].left > 1 => redis'[c].count = redis[c].count
    BY <1>1 DEF Older
<1>4. RedisOK(c)'
    BY <1>1, <1>2, <1>3 DEF RedisOK
<1>5. MemoryOK(c)'
    <2>1. DOMAIN memory[c] \subseteq 1 .. run[c].n /\ \A i \in DOMAIN memory[c] : memory[c][i] \in 1 .. run[c].left
        BY DEF CounterOK, MemoryOK
    <2>2. ASSUME NEW i \in DOMAIN memory'[c]
          PROVE  i \in 1 .. run'[c].n /\ memory'[c][i] \in 1 .. run'[c].left
        <3>1. i \in DOMAIN memory[c] /\ memory[c][i] > 1 /\ memory'[c][i] = memory[c][i] - 1
            BY <2>2
        <3> QED BY <1>1, <1>2, <2>1, <3>1
    <2> QED BY <2>2 DEF MemoryOK
<1>6. ASSUME NEW i \in DOMAIN passes'[c]
      PROVE  /\ i \in DOMAIN passes[c] /\ passes'[c][i].store = passes[c][i].store
             /\ i \in 1 .. run'[c].n /\ PassOK(c, i)'
    <2>1. i \in DOMAIN passes[c] /\ passes[c][i].left > 1
        BY <1>6
    <2>2. PassOK(c, i) /\ i \in 1 .. run[c].n
        BY <2>1 DEF CounterOK, PassesOK
    <2>3. passes[c][i] \in [left : 1 .. run[c].left, store : -1 .. life]
        BY <2>2 DEF PassOK
    <2>4. /\ passes'[c][i] \in [left : Nat, store : -1 .. life]
          /\ passes'[c][i].left = passes[c][i].left - 1 /\ passes'[c][i].store = passes[c][i].store
        BY <1>1, <2>1, <2>3
    <2>5. passes'[c][i] \in [left : 1 .. run'[c].left, store : -1 .. life]
        BY <1>1, <1>2, <2>1, <2>3, <2>4
    <2>6. passes'[c][i].store = -1 => passes'[c][i].left <= redis'[c].left
        BY <1>1, <1>3, <2>1, <2>2, <2>3, <2>4 DEF PassOK
    <2>7. passes'[c][i].store = life => i \in DOMAIN memory'[c] /\ memory'[c][i] = passes'[c][i].left
        BY <2>1, <2>2, <2>4 DEF PassOK
    <2>8. i \in 1 .. run'[c].n
        BY <1>1, <1>2, <2>1, <2>2, <2>3
    <2> QED BY <2>1, <2>4, <2>5, <2>6, <2>7, <2>8 DEF PassOK
<1>7. ASSUME NEW store
      PROVE  /\ Cardinality(PassedBy(passes'[c], store)) <= Cardinality(PassedBy(passes[c], store))
             /\ Cardinality(PassedBy(passes'[c], store)) \in Nat
             /\ Cardinality(PassedBy(passes[c], store)) \in Nat
    <2>1. PassedBy(passes'[c], store) \subseteq PassedBy(passes[c], store)
        BY <1>6 DEF PassedBy
    <2>2. PassedBy(passes[c], store) \subseteq 1 .. run[c].n
        BY DEF CounterOK, PassesOK, PassedBy
    <2>3. PassedBy(passes'[c], store) \subseteq 1 .. run[c].n
        BY <2>1, <2>2
    <2> QED BY <1>1, <2>1, <2>2, <2>3, PlacesFinite, FewerPassed
<1>8. redis'[c].left > 0 => Cardinality(PassedBy(passes'[c], -1)) <= redis'[c].count
    <2>1. redis[c].left > 0 => Cardinality(PassedBy(passes[c], -1)) <= redis[c].count
        BY DEF CounterOK, PassesOK
    <2> QED BY <1>1, <1>3, <1>7, <2>1
<1>9. ~NoLimit(c) => \A store \in -1 .. life : Cardinality(PassedBy(passes'[c], store)) <= Limit[c[1]]
    <2>1. ~NoLimit(c) => \A store \in -1 .. life : Cardinality(PassedBy(passes[c], store)) <= Limit[c[1]]
        BY DEF CounterOK, PassesOK
    <2> QED BY <1>1, <1>7, <2>1
<1>10. PassesOK(c)'
    BY <1>6, <1>8, <1>9 DEF PassesOK
<1> QED BY <1>2, <1>4, <1>5, <1>10 DEF CounterOK, w

(* A restart: the new life has let nothing pass yet.                       *)
LEMMA RestartOne ==
    ASSUME NEW c \in Counters, CounterOK(c), NoLimit(c) => NoLimit(c)', life \in Nat, life' = life + 1, memory'[c] = Nothing,
           run'[c] = run[c], redis'[c] = redis[c], passes'[c] = passes[c]
    PROVE  CounterOK(c)'
<1>1. RedisOK(c)' /\ run'[c] \in [n : Nat, left : 0 .. Window[c[1]]] /\ Limit[c[1]] \in Nat
    BY LimitsShape DEF CounterOK, RedisOK
<1>2. MemoryOK(c)'
    BY DEF MemoryOK, Nothing
<1>3. \A i \in DOMAIN passes[c] : PassOK(c, i)' /\ passes[c][i].store # life'
    BY DEF CounterOK, PassesOK, PassOK
<1>4. ASSUME ~NoLimit(c), NEW store \in -1 .. life'
      PROVE  Cardinality(PassedBy(passes[c], store)) <= Limit[c[1]]
    <2>1. CASE store \in -1 .. life
        BY <1>4, <2>1 DEF CounterOK, PassesOK
    <2>2. CASE store = life'
        <3>1. PassedBy(passes[c], store) = {}
            BY <1>3, <2>2 DEF PassedBy
        <3> QED BY <1>1, <3>1, FS_EmptySet
    <2> QED BY <2>1, <2>2
<1>5. PassesOK(c)'
    BY <1>3, <1>4 DEF CounterOK, PassesOK
<1> QED BY <1>1, <1>2, <1>5 DEF CounterOK

LEMMA StaysOne ==
    ASSUME NEW c \in Counters, CounterOK(c), NoLimit(c) => NoLimit(c)', life' = life, memory'[c] = memory[c],
           run'[c] = run[c], redis'[c] = redis[c], passes'[c] = passes[c]
    PROVE  CounterOK(c)'
BY DEF CounterOK, RedisOK, MemoryOK, PassesOK, PassOK

-----------------------------------------------------------------------------
(* The requests: a limiter counts in counters that exist, since a request  *)
(* that is at the limits of a key has passed the authentication.           *)

Under(r, stage) == r.stage <= Len(Chain[r.route]) /\ Chain[r.route][r.stage] = stage

Sound(r) ==
    \/ r = Idle
    \/ /\ r.route \in Routes /\ r.ip \in Ips /\ r.key \in Keys \cup {"none"}
       /\ r.stage \in Nat \ {0}
       /\ r.key = "none" => \A i \in 1 .. Len(Chain[r.route]) : i < r.stage => Chain[r.route][i] # "auth"
       /\ r.counted \in Seq(Nat)
       /\ \/ r.counted = <<>>
          \/ Len(r.counted) = 1 /\ Under(r, "key")

RequestsInv == KeysInv /\ \A s \in Slots : Sound(req[s])

LEMMA ChainFacts ==
    ASSUME NEW route \in Routes
    PROVE  /\ Len(Chain[route]) \in Nat
           /\ \A i \in 1 .. Len(Chain[route]) :
                Chain[route][i] = "key" => i > 1 /\ Chain[route][i - 1] = "auth"
<1>1. DOMAIN Chain = {"node", "supply", "stakeTransactions", "rewards", "names"}
    BY DEF Chain
<1>2. Chain[route] \in {NodeRoutes, SupplyRoutes, LaterRoutes}
    BY <1>1, RoutesShape DEF Chain
<1> QED BY <1>2 DEF NodeRoutes, SupplyRoutes, LaterRoutes

LEMMA AtUnder ==
    ASSUME NEW s \in Slots, Sound(req[s]), NEW stage, At(s, stage)
    PROVE  /\ Under(req[s], stage) /\ req[s] # Idle /\ Stage(s) = stage
           /\ \A other : At(s, other) => other = stage
BY IdleFields DEF At, Under, Stage, Sound

LEMMA CountersExist ==
    ASSUME NEW s \in Slots, Sound(req[s]), Counting(s)
    PROVE  /\ Range(CountersAt(s)) \subseteq Counters
           /\ Len(CountersAt(s)) \in {1, 2}
           /\ Len(CountersAt(s)) = 2 <=> Stage(s) = "key"
           /\ DOMAIN CountersAt(s) = 1 .. Len(CountersAt(s))
<1>1. PICK stage \in Limiters : At(s, stage)
    BY DEF Counting
<1>2. Under(req[s], stage) /\ Stage(s) = stage /\ req[s] # Idle
    BY <1>1, AtUnder
<1>3. /\ req[s].route \in Routes /\ req[s].ip \in Ips /\ req[s].key \in Keys \cup {"none"}
      /\ req[s].stage \in 1 .. Len(Chain[req[s].route])
    BY <1>2, ChainFacts DEF Sound, Under
<1>4. CASE stage = "key"
    <2>1. req[s].stage > 1 /\ Chain[req[s].route][req[s].stage - 1] = "auth"
        BY <1>2, <1>3, <1>4, ChainFacts DEF Under
    <2>2. req[s].stage - 1 \in 1 .. Len(Chain[req[s].route]) /\ req[s].stage - 1 < req[s].stage
        BY <1>3, <2>1, ChainFacts
    <2>3. req[s].key \in Keys
        BY <1>2, <1>3, <2>1, <2>2 DEF Sound
    <2>4. CountersAt(s) = << <<"minute", req[s].key>>, <<"day", req[s].key>> >>
        BY <1>2, <1>4 DEF CountersAt
    <2>5. <<"minute", req[s].key>> \in Counters /\ <<"day", req[s].key>> \in Counters
        BY <2>3 DEF Counters
    <2> QED BY <1>2, <1>4, <2>4, <2>5 DEF Range
<1>5. CASE stage # "key"
    <2>1. stage \in {"authip", "public"}
        BY <1>5 DEF Limiters
    <2>2. CountersAt(s) = << <<stage, req[s].ip>> >>
        BY <1>2, <1>5 DEF CountersAt
    <2>3. <<stage, req[s].ip>> \in Counters
        BY <1>3, <2>1 DEF Counters
    <2> QED BY <1>2, <1>5, <2>2, <2>3 DEF Range
<1> QED BY <1>4, <1>5

LEMMA NextCounterExists ==
    ASSUME NEW s \in Slots, Sound(req[s]), Counting(s)
    PROVE  NextCounter(s) \in Range(CountersAt(s))
<1>1. PICK stage \in Limiters : At(s, stage)
    BY DEF Counting
<1>2. req[s] # Idle /\ Stage(s) = stage /\ Under(req[s], stage)
    BY <1>1, AtUnder
<1>3. \/ req[s].counted = <<>>
      \/ Len(req[s].counted) = 1 /\ Stage(s) = "key"
    BY <1>2 DEF Sound, Under
<1>4. /\ Len(CountersAt(s)) \in {1, 2} /\ (Len(CountersAt(s)) = 2 <=> Stage(s) = "key")
      /\ DOMAIN CountersAt(s) = 1 .. Len(CountersAt(s))
    BY CountersExist
<1>5. Len(req[s].counted) + 1 \in DOMAIN CountersAt(s)
    <2>1. CASE req[s].counted = <<>>
        <3>1. Len(req[s].counted) = 0
            BY <2>1
        <3> QED BY <1>4, <3>1
    <2>2. CASE Len(req[s].counted) = 1 /\ Stage(s) = "key"
        BY <1>4, <2>2
    <2> QED BY <1>3, <2>1, <2>2
<1> QED BY <1>5 DEF NextCounter, Range

(* The verdict: the request stays at the limiter, ends, or goes on.        *)
LEMMA JudgedSound ==
    ASSUME RequestsInv, NEW s \in Slots, Counting(s), NEW counted \in Seq(Nat), Judged(s, counted),
           \/ Len(counted) = Len(CountersAt(s)) \/ Len(counted) = Len(req[s].counted) + 1
    PROVE  \A t \in Slots : Sound(req'[t])
<1>1. PICK stage \in Limiters : At(s, stage)
    BY DEF Counting
<1>2. /\ req[s] # Idle /\ Stage(s) = stage /\ Under(req[s], stage) /\ Sound(req[s])
      /\ DOMAIN req[s] = DOMAIN Idle /\ DOMAIN req = Slots
    BY <1>1, AtUnder DEF RequestsInv, KeysInv
<1>3. /\ req[s].route \in Routes /\ req[s].ip \in Ips /\ req[s].key \in Keys \cup {"none"}
      /\ req[s].stage \in Nat \ {0} /\ req[s].counted \in Seq(Nat)
      /\ req[s].key = "none" => \A i \in 1 .. Len(Chain[req[s].route]) :
                                    i < req[s].stage => Chain[req[s].route][i] # "auth"
    BY <1>2 DEF Sound
<1> DEFINE r1 == [req[s] EXCEPT !.counted = counted]
           r2 == [req[s] EXCEPT !.stage = @ + 1, !.counted = <<>>]
<1>4. /\ r1.route = req[s].route /\ r1.ip = req[s].ip /\ r1.key = req[s].key
      /\ r1.stage = req[s].stage /\ r1.counted = counted
      /\ r2.route = req[s].route /\ r2.ip = req[s].ip /\ r2.key = req[s].key
      /\ r2.stage = req[s].stage + 1 /\ r2.counted = <<>>
    BY <1>2, IdleFields
<1>5. \/ req' = [req EXCEPT ![s] = r1] /\ Len(counted) < Len(CountersAt(s))
      \/ req' = [req EXCEPT ![s] = Idle]
      \/ req' = [req EXCEPT ![s] = r2]
    BY DEF Judged
<1> HIDE DEF r1, r2
<1>6. Len(counted) < Len(CountersAt(s)) => Sound(r1)
    <2> SUFFICES ASSUME Len(counted) < Len(CountersAt(s)) PROVE Sound(r1)
        OBVIOUS
    <2>1. Len(CountersAt(s)) \in {1, 2} /\ (Len(CountersAt(s)) = 2 <=> Stage(s) = "key")
        BY <1>2, CountersExist
    <2>2. Len(counted) \in Nat /\ Len(req[s].counted) \in Nat /\ Len(counted) = Len(req[s].counted) + 1
        BY <1>3, <2>1
    <2>3. Len(counted) = 1 /\ Stage(s) = "key"
        <3> DEFINE l == Len(counted)
                   k == Len(req[s].counted)
                   m == Len(CountersAt(s))
        <3>1. l \in Nat /\ k \in Nat /\ l = k + 1 /\ l < m /\ m \in {1, 2}
            BY <2>1, <2>2
        <3> HIDE DEF l, k, m
        <3>2. l = 1 /\ m = 2
            BY <3>1
        <3> QED BY <2>1, <3>2 DEF l, m
    <2>4. Under(r1, "key")
        BY <1>2, <1>4, <2>3 DEF Under
    <2> QED BY <1>3, <1>4, <2>3, <2>4 DEF Sound
<1>7. Sound(r2)
    <2>1. Chain[req[s].route][req[s].stage] # "auth"
        BY <1>2 DEF Under, Limiters
    <2>2. \A i \in 1 .. Len(Chain[req[s].route]) : i < req[s].stage + 1 => i < req[s].stage \/ i = req[s].stage
        BY <1>3
    <2>3. <<>> \in Seq(Nat)
        OBVIOUS
    <2> QED BY <1>3, <1>4, <2>1, <2>2, <2>3 DEF Sound
<1>8. Sound(Idle)
    BY DEF Sound
<1> QED BY <1>2, <1>5, <1>6, <1>7, <1>8 DEF RequestsInv

(* A counting, whichever store does it, keeps the counters as they should  *)
(* be, and refuses nobody whose run is within the limit.                   *)
StoresWell == CountersInv /\ RequestsInv

(* No command of the operator gives a key a limit that had none.           *)
RowsTyped == \A k \in DOMAIN keys : keys[k] \in KeyRow

LimitsStay == \A c \in Counters : NoLimit(c) => NoLimit(c)'

LEMMA RowsStep ==
    ASSUME RowsTyped, [Next]_vars
    PROVE  RowsTyped' /\ LimitsStay
<1>1. CASE keys' = keys
    BY <1>1 DEF RowsTyped, LimitsStay, NoLimit
<1>2. CASE \E k \in Keys : GenerateKey(k)
    <2>1. PICK k \in Keys, row \in NewRows :
             k \notin DOMAIN keys /\ keys' = [x \in DOMAIN keys \cup {k} |-> IF x = k THEN row ELSE keys[x]]
        BY <1>2 DEF GenerateKey
    <2> QED BY <2>1, LimiterShape DEF RowsTyped, LimitsStay, NoLimit
<1>3. CASE \E k \in Keys, status \in {"enabled", "disabled", "deleted"} : WithStatus(k, status)
    <2>1. PICK k \in Keys, status \in {"enabled", "disabled", "deleted"} :
             k \in DOMAIN keys /\ keys' = [keys EXCEPT ![k].status = status]
        BY <1>3 DEF WithStatus
    <2>2. \A x \in DOMAIN keys : /\ keys'[x] \in KeyRow /\ keys'[x].type = keys[x].type
                                 /\ keys'[x].given = keys[x].given
        BY <2>1 DEF RowsTyped, KeyRow
    <2>3. DOMAIN keys' = DOMAIN keys
        BY <2>1
    <2> QED BY <2>2, <2>3 DEF RowsTyped, LimitsStay, NoLimit
<1>4. \/ keys' = keys
      \/ \E k \in Keys : GenerateKey(k)
      \/ \E k \in Keys, status \in {"enabled", "disabled", "deleted"} : WithStatus(k, status)
    <2>1. CASE ManageKeys
        BY <2>1 DEF ManageKeys, EnableKey, DisableKey, DeleteKey
    <2>2. CASE ~ManageKeys
        BY <2>2 DEF Next, vars, Arrive, Authenticate, FindKeys, Unauthorized, Bypass, RedisCounts,
            RedisFails, ReplyLost, MemoryCounts, Tick, Outage, ErrorEvent, Connects, Restart
    <2> QED BY <2>1, <2>2
<1> QED BY <1>1, <1>2, <1>3, <1>4

LEMMA Justified ==
    ASSUME NEW cs, NEW n, NEW store, Noted(cs, n, store), unjust = {},
           \A c \in cs : /\ c \in Counters /\ n[c] \in Nat
                         /\ RunWith(c).n \in Nat /\ n[c] <= RunWith(c).n
    PROVE  unjust' = {}
<1>1. \A c \in cs : Limit[c[1]] \in Nat
    BY LimitsShape
<1> QED BY <1>1 DEF Noted, Exceeds

LEMMA RedisCountsKeeps ==
    ASSUME StoresWell, LimitsStay, NEW s \in Slots, RedisCounts(s)
    PROVE  StoresWell'
<1>1. Counting(s) /\ Sound(req[s]) /\ KeysInv /\ req[s] # Idle /\ req[s].counted \in Seq(Nat)
    BY BusyAt DEF StoresWell, RequestsInv, RedisCounts, AsksRedis, Counting, Sound
<1>2. PICK c \in Counters : c = NextCounter(s)
    BY <1>1, CountersExist, NextCounterExists
<1> DEFINE n == Incremented(c).count
<1>3. /\ redis' = [redis EXCEPT ![c] = Incremented(c)]
      /\ Judged(s, Append(req[s].counted, n)) /\ Noted({c}, [x \in {c} |-> n], -1)
      /\ memory' = memory /\ life' = life
    BY <1>2 DEF RedisCounts, bounds
<1>4. CounterOK(c) /\ life \in Nat /\ unjust = {}
    BY DEF StoresWell, CountersInv
<1>5. n \in Nat /\ RunWith(c).n \in Nat /\ n <= RunWith(c).n
    BY <1>4, RunGrows
<1> HIDE DEF n
<1>6. /\ run' = [d \in Counters |-> IF d \in {c} THEN RunWith(d) ELSE run[d]]
      /\ passes' = [d \in Counters |->
                      IF d \in {c} /\ ~Exceeds(d, [x \in {c} |-> n][d])
                      THEN With(passes[d], RunWith(d).n, [left |-> Window[d[1]], store |-> -1])
                      ELSE passes[d]]
    BY <1>3 DEF Noted
<1>7. redis = [d \in Counters |-> redis[d]]
    BY DEF StoresWell, CountersInv
<1>8. /\ redis' = [d \in Counters |-> redis'[d]] /\ run' = [d \in Counters |-> run'[d]]
      /\ redis'[c] = Incremented(c)
      /\ \A d \in Counters : d # c => redis'[d] = redis[d] /\ run'[d] = run[d] /\ passes'[d] = passes[d]
      /\ Counts(c, n, -1)
    BY <1>3, <1>6, <1>7 DEF Counts
<1>9. \A d \in Counters : CounterOK(d)'
    <2>1. CounterOK(c)'
        BY <1>3, <1>4, <1>8, RedisCountsOne DEF n, LimitsStay
    <2>2. ASSUME NEW d \in Counters, d # c PROVE CounterOK(d)'
        <3>1. CounterOK(d)
            BY DEF StoresWell, CountersInv
        <3> QED BY <1>3, <1>8, <2>2, <3>1, StaysOne DEF LimitsStay
    <2> QED BY <2>1, <2>2
<1>10. unjust' = {}
    <2>1. \A d \in {c} : /\ d \in Counters /\ [x \in {c} |-> n][d] \in Nat
                         /\ RunWith(d).n \in Nat /\ [x \in {c} |-> n][d] <= RunWith(d).n
        BY <1>5
    <2> QED BY <1>3, <1>4, <2>1, Justified
<1>11. RequestsInv'
    <2>1. /\ Append(req[s].counted, n) \in Seq(Nat)
          /\ Len(Append(req[s].counted, n)) = Len(req[s].counted) + 1
        BY <1>1, <1>5
    <2>2. \A t \in Slots : Sound(req'[t])
        BY <1>1, <1>3, <2>1, JudgedSound DEF StoresWell
    <2>3. KeysInv'
        BY <1>1, CountsKeysInv
    <2> QED BY <2>2, <2>3 DEF RequestsInv
<1> QED BY <1>3, <1>4, <1>8, <1>9, <1>10, <1>11 DEF StoresWell, CountersInv

LEMMA CountInMemoryKeeps ==
    ASSUME StoresWell, LimitsStay, NEW s \in Slots, RedisFails(s) \/ ReplyLost(s) \/ MemoryCounts(s)
    PROVE  StoresWell'
<1> DEFINE cs == CountersAt(s)
           S == Range(cs)
           n == [c \in S |-> Cardinality(DOMAIN Logged(c))]
<1>1. /\ Counting(s) /\ life' = life
      /\ memory' = [c \in Counters |-> IF c \in S THEN Logged(c) ELSE memory[c]]
      /\ Judged(s, [i \in DOMAIN cs |-> n[cs[i]]]) /\ Noted(S, n, life)
      /\ \/ redis' = redis
         \/ redis' = [redis EXCEPT ![NextCounter(s)] = Incremented(NextCounter(s))]
    BY DEF RedisFails, ReplyLost, MemoryCounts, CountInMemory, AsksRedis, bounds
<1>2. Sound(req[s]) /\ KeysInv /\ NextCounter(s) \in S
    BY <1>1, NextCounterExists DEF StoresWell, RequestsInv
<1>3. S \subseteq Counters
    BY <1>1, <1>2, CountersExist
<1>4. Len(cs) \in Nat /\ DOMAIN cs = 1 .. Len(cs)
    BY <1>1, <1>2, CountersExist
<1>5. (\A c \in Counters : CounterOK(c)) /\ life \in Nat /\ unjust = {}
    BY DEF StoresWell, CountersInv
<1>6. \A c \in S : /\ n[c] = Cardinality(DOMAIN Logged(c)) /\ n[c] \in Nat
                   /\ RunWith(c).n \in Nat /\ n[c] <= RunWith(c).n
    BY <1>3, <1>5, LoggedFacts, RunGrows
<1>7. \A i \in DOMAIN cs : cs[i] \in S
    BY DEF Range
<1> HIDE DEF cs, S, n
<1>8. /\ run' = [c \in Counters |-> IF c \in S THEN RunWith(c) ELSE run[c]]
      /\ passes' = [c \in Counters |->
                      IF c \in S /\ ~Exceeds(c, n[c])
                      THEN With(passes[c], RunWith(c).n, [left |-> Window[c[1]], store |-> life])
                      ELSE passes[c]]
    BY <1>1 DEF Noted
<1>9. redis = [c \in Counters |-> redis[c]]
    BY DEF StoresWell, CountersInv
<1>10. redis' = [c \in Counters |-> redis'[c]] /\ run' = [c \in Counters |-> run'[c]]
    BY <1>1, <1>8, <1>9
<1>11. \A c \in Counters : CounterOK(c)'
    <2>1. ASSUME NEW c \in Counters, c \in S PROVE CounterOK(c)'
        <3>1. memory'[c] = Logged(c) /\ Counts(c, Cardinality(DOMAIN Logged(c)), life)
            BY <1>1, <1>6, <1>8, <2>1 DEF Counts
        <3>2. redis'[c] \in {redis[c], Incremented(c)}
            BY <1>1, <1>9
        <3> QED BY <1>5, <3>1, <3>2, MemoryCountsOne DEF LimitsStay
    <2>2. ASSUME NEW c \in Counters, c \notin S PROVE CounterOK(c)'
        <3>1. redis'[c] = redis[c]
            BY <1>1, <1>2, <1>9, <2>2
        <3>2. memory'[c] = memory[c] /\ run'[c] = run[c] /\ passes'[c] = passes[c]
            BY <1>1, <1>8, <2>2
        <3> QED BY <1>1, <1>5, <3>1, <3>2, StaysOne DEF LimitsStay
    <2> QED BY <2>1, <2>2
<1>12. unjust' = {}
    BY <1>1, <1>3, <1>5, <1>6, Justified
<1>13. RequestsInv'
    <2> DEFINE counted == [i \in DOMAIN cs |-> n[cs[i]]]
    <2>1. counted \in Seq(Nat) /\ Len(counted) = Len(cs)
        BY <1>4, <1>6, <1>7
    <2>2. Judged(s, counted)
        BY <1>1
    <2> HIDE DEF counted
    <2>3. \A t \in Slots : Sound(req'[t])
        BY <1>1, <2>1, <2>2, JudgedSound DEF StoresWell, cs
    <2>4. KeysInv'
        BY <1>2, CountsKeysInv
    <2> QED BY <2>3, <2>4 DEF RequestsInv
<1> QED BY <1>1, <1>5, <1>10, <1>11, <1>12, <1>13 DEF StoresWell, CountersInv

(* What leaves the counters alone.                                         *)
LEMMA CountersStay ==
    ASSUME CountersInv, LimitsStay, UNCHANGED <<redis, memory, history, life>>
    PROVE  CountersInv'
<1>1. redis' = redis /\ memory' = memory /\ run' = run /\ passes' = passes /\ unjust' = unjust /\ life' = life
    BY DEF history
<1>2. \A c \in Counters : CounterOK(c)'
    BY <1>1, StaysOne DEF CountersInv, LimitsStay
<1> QED BY <1>1, <1>2 DEF CountersInv

LEMMA RequestMoves ==
    ASSUME RequestsInv, NEW s \in Slots,
           \/ \E ip \in Ips, route \in Routes : Arrive(s, ip, route)
           \/ \E key \in Keys : Authenticate(s, key)
           \/ FindKeys(s) \/ Unauthorized(s) \/ Bypass(s)
    PROVE  /\ \A t \in Slots : Sound(req'[t])
           /\ UNCHANGED <<redis, memory, history, life>>
<1>1. UNCHANGED <<redis, memory, history, life>>
    BY DEF Arrive, Authenticate, FindKeys, Unauthorized, Bypass, bounds
<1>2. DOMAIN req = Slots /\ DOMAIN req[s] = DOMAIN Idle /\ \A t \in Slots : Sound(req[t])
    BY DEF RequestsInv, KeysInv
<1>3. Sound(Idle)
    BY DEF Sound
<1>4. CASE \E ip \in Ips, route \in Routes : Arrive(s, ip, route)
    <2>1. PICK ip \in Ips, route \in Routes : Arrive(s, ip, route)
        BY <1>4
    <2> DEFINE r == [Idle EXCEPT !.route = route, !.ip = ip, !.stage = 1, !.inForce = InForce(keys)]
    <2>2. req' = [req EXCEPT ![s] = r]
        BY <2>1 DEF Arrive
    <2>3. r.route = route /\ r.ip = ip /\ r.key = "none" /\ r.stage = 1 /\ r.counted = <<>>
        BY DEF Idle
    <2> HIDE DEF r
    <2>4. Sound(r)
        <3>1. <<>> \in Seq(Nat) /\ \A i \in 1 .. Len(Chain[route]) : ~(i < 1)
            BY ChainFacts
        <3> QED BY <2>3, <3>1 DEF Sound
    <2> QED BY <1>1, <1>2, <2>2, <2>4
<1>5. CASE \E key \in Keys : Authenticate(s, key)
    <2>1. PICK key \in Keys : Authenticate(s, key)
        BY <1>5
    <2> DEFINE r == [req[s] EXCEPT !.key = key, !.stage = @ + 1, !.found = {}, !.inForce = {}]
    <2>2. req' = [req EXCEPT ![s] = r] /\ At(s, "auth")
        BY <2>1 DEF Authenticate
    <2>3. /\ r.route = req[s].route /\ r.ip = req[s].ip /\ r.key = key /\ r.stage = req[s].stage + 1
          /\ r.counted = req[s].counted
        BY <1>2, IdleFields
    <2> HIDE DEF r
    <2>4. req[s] # Idle /\ Sound(req[s]) /\ ~Under(req[s], "key") /\ key # "none"
        BY <1>2, <2>2, AtUnder, LimiterShape DEF Under
    <2>5. Sound(r)
        BY <2>3, <2>4 DEF Sound
    <2> QED BY <1>1, <1>2, <2>2, <2>5
<1>6. CASE FindKeys(s)
    <2> DEFINE r == [req[s] EXCEPT !.found = FoundKeys]
    <2>1. req' = [req EXCEPT ![s] = r] /\ At(s, "auth")
        BY <1>6 DEF FindKeys
    <2>2. /\ r.route = req[s].route /\ r.ip = req[s].ip /\ r.key = req[s].key /\ r.stage = req[s].stage
          /\ r.counted = req[s].counted
        BY <1>2, IdleFields
    <2> HIDE DEF r
    <2>3. req[s] # Idle /\ Sound(req[s])
        BY <1>2, <2>1, BusyAt
    <2>4. Sound(r)
        BY <2>2, <2>3 DEF Sound, Under
    <2> QED BY <1>1, <1>2, <2>1, <2>4
<1>7. CASE Unauthorized(s) \/ Bypass(s)
    <2>1. req' = [req EXCEPT ![s] = Idle]
        BY <1>7 DEF Unauthorized, Bypass
    <2> QED BY <1>1, <1>2, <1>3, <2>1
<1> QED BY <1>4, <1>5, <1>6, <1>7

LEMMA ManageKeysSound ==
    ASSUME RequestsInv, ManageKeys
    PROVE  \A t \in Slots : Sound(req'[t])
<1> TAKE t \in Slots
<1>1. Sound(req[t]) /\ DOMAIN req[t] = DOMAIN Idle
    BY DEF RequestsInv, KeysInv
<1>2. CASE Unchecked(t)
    <2>1. req[t] # Idle
        BY <1>2 DEF Unchecked
    <2>2. /\ req'[t].route = req[t].route /\ req'[t].ip = req[t].ip /\ req'[t].key = req[t].key
          /\ req'[t].stage = req[t].stage /\ req'[t].counted = req[t].counted
        BY <1>1, <1>2, IdleFields DEF ManageKeys
    <2> QED BY <1>1, <2>1, <2>2 DEF Sound, Under
<1>3. CASE ~Unchecked(t)
    BY <1>1, <1>3 DEF ManageKeys
<1> QED BY <1>2, <1>3

LEMMA TickKeeps ==
    ASSUME CountersInv, LimitsStay, Tick
    PROVE  CountersInv'
<1>1. /\ redis' = [c \in Counters |-> Older(redis[c])] /\ run' = [c \in Counters |-> Older(run[c])]
      /\ unjust' = unjust /\ life' = life
    BY DEF Tick, bounds
<1>2. life \in Nat /\ unjust = {} /\ \A c \in Counters : CounterOK(c)
    BY DEF CountersInv
<1>3. ASSUME NEW c \in Counters PROVE CounterOK(c)'
    <2>1. /\ memory'[c] = [i \in {j \in DOMAIN memory[c] : memory[c][j] > 1} |-> memory[c][i] - 1]
          /\ passes'[c] = [i \in {j \in DOMAIN passes[c] : passes[c][j].left > 1} |->
                              [passes[c][i] EXCEPT !.left = @ - 1]]
        BY DEF Tick
    <2> QED BY <1>1, <1>2, <2>1, TickOne DEF LimitsStay
<1> QED BY <1>1, <1>2, <1>3 DEF CountersInv

LEMMA RestartKeeps ==
    ASSUME StoresWell, LimitsStay, Restart
    PROVE  StoresWell'
<1>1. /\ life' = life + 1 /\ redis' = redis /\ run' = run /\ passes' = passes /\ unjust' = unjust
      /\ memory' = [c \in Counters |-> Nothing] /\ req' = [s \in Slots |-> Idle]
    BY DEF Restart, history
<1>2. \A c \in Counters : CounterOK(c)'
    BY <1>1, RestartOne DEF StoresWell, CountersInv, LimitsStay
<1>3. CountersInv'
    BY <1>1, <1>2 DEF StoresWell, CountersInv
<1>4. KeysInv'
    <2>1. [Next]_vars
        BY DEF Next
    <2> QED BY <2>1, NextKeysInv DEF StoresWell, RequestsInv
<1> QED BY <1>1, <1>3, <1>4 DEF StoresWell, RequestsInv, Sound

LEMMA StoresStep ==
    ASSUME StoresWell, LimitsStay, [Next]_vars
    PROVE  StoresWell'
<1>1. KeysInv'
    BY NextKeysInv DEF StoresWell, RequestsInv
<1>2. CASE \E s \in Slots : \/ \E ip \in Ips, route \in Routes : Arrive(s, ip, route)
                            \/ \E key \in Keys : Authenticate(s, key)
                            \/ FindKeys(s) \/ Unauthorized(s) \/ Bypass(s)
    <2>1. (\A t \in Slots : Sound(req'[t])) /\ UNCHANGED <<redis, memory, history, life>>
        BY <1>2, RequestMoves DEF StoresWell
    <2> QED BY <1>1, <2>1, CountersStay DEF StoresWell, RequestsInv
<1>3. CASE \E s \in Slots : RedisCounts(s) \/ RedisFails(s) \/ ReplyLost(s) \/ MemoryCounts(s)
    BY <1>3, RedisCountsKeeps, CountInMemoryKeeps
<1>4. CASE ManageKeys
    <2>1. UNCHANGED <<redis, memory, history, life>>
        BY <1>4 DEF ManageKeys
    <2> QED BY <1>1, <1>4, <2>1, CountersStay, ManageKeysSound DEF StoresWell, RequestsInv
<1>5. CASE Tick
    <2>1. req' = req
        BY <1>5 DEF Tick
    <2> QED BY <1>1, <1>5, <2>1, TickKeeps DEF StoresWell, RequestsInv
<1>6. CASE Outage \/ ErrorEvent \/ Connects \/ UNCHANGED vars
    <2>1. UNCHANGED <<redis, memory, history, life>> /\ req' = req
        BY <1>6 DEF Outage, ErrorEvent, Connects, vars, bounds
    <2> QED BY <1>1, <2>1, CountersStay DEF StoresWell, RequestsInv
<1>7. CASE Restart
    BY <1>7, RestartKeeps
<1> QED BY <1>2, <1>3, <1>4, <1>5, <1>6, <1>7 DEF Next

LEMMA StoresStart == Init => StoresWell
<1> SUFFICES ASSUME Init PROVE StoresWell
    OBVIOUS
<1>1. RequestsInv
    BY InitKeysInv DEF Init, RequestsInv, Sound
<1>2. ASSUME NEW c \in Counters PROVE CounterOK(c)
    <2>1. /\ run[c] = [n |-> 0, left |-> 0] /\ redis[c] = [count |-> 0, left |-> 0]
          /\ DOMAIN memory[c] = {} /\ DOMAIN passes[c] = {} /\ Window[c[1]] \in Nat /\ Limit[c[1]] \in Nat
        BY LimitsShape DEF Init, Nothing
    <2>2. \A store : PassedBy(passes[c], store) = {}
        BY <2>1 DEF PassedBy
    <2> QED BY <2>1, <2>2, FS_EmptySet DEF CounterOK, RedisOK, MemoryOK, PassesOK
<1> QED BY <1>1, <1>2 DEF Init, StoresWell, CountersInv

LEMMA StoresAlways == Spec => []StoresWell
<1>1. RowsTyped /\ StoresWell /\ [Next]_vars => (RowsTyped /\ StoresWell)'
    BY RowsStep, StoresStep
<1>2. Init => RowsTyped
    BY LimiterShape DEF Init, RowsTyped
<1> QED BY <1>1, <1>2, StoresStart, PTL DEF Spec

(* For any routes, limits and windows, any number of requests in flight    *)
(* and however often Redis fails, answers late or not at all and the       *)
(* server restarts: no store lets more than the limit pass in any period   *)
(* as long as the window (rateLimiter.ts 127-183).                         *)
THEOREM LimitAlwaysKept == Spec => []WithinLimit
<1>1. StoresWell => WithinLimit
    BY DEF StoresWell, CountersInv, CounterOK, PassesOK, WithinLimit
<1> QED BY <1>1, StoresAlways, PTL

(* Nobody is told to slow down whose requests, since the last pause of one *)
(* window, are within the limit, whichever stores have counted them        *)
(* (rateLimiter.ts 48, 130, 170, 183).                                     *)
THEOREM NobodyRefusedForNothing == Spec => []RefusedForCause
<1>1. StoresWell => RefusedForCause
    BY DEF StoresWell, CountersInv, RefusedForCause
<1> QED BY <1>1, StoresAlways, PTL

-----------------------------------------------------------------------------
(* The directory of names.                                                 *)

Visiting == pc \in {"visit", "upserted"}

(* How many events of the block have changed their row, and their log.     *)
RowsDone == IF pc = "visit" THEN pos ELSE IF pc = "upserted" THEN pos + 1 ELSE 0
EntriesDone == IF Visiting THEN pos ELSE 0

(* The events of n since the indexer has last begun at First.              *)
Through(n, k) == History(n, First, at - 1) \cup {e \in {events[i] : i \in 1 .. k} : e.name = n}
Applied(n) == Through(n, RowsDone)
Entered(n) == Through(n, EntriesDone)

(* A row of which now are the events of this pass, ever those of all       *)
(* blocks that were begun, and all those of the chain.  What is set once   *)
(* was said by the first event of the chain that speaks of it.             *)
RowTold(row, now, ever, all) ==
    /\ DOMAIN row # {} => "last" \in DOMAIN row
    /\ \A e \in now : DOMAIN Says(e) \subseteq DOMAIN row /\ "last" \in DOMAIN row
    /\ \A f \in DOMAIN row \ {"last"} : \E e \in ever :
        /\ f \in DOMAIN Says(e) /\ row[f] = Says(e)[f]
        /\ IF f \in SetOnce THEN \A d \in all : f \in DOMAIN Says(d) => ~Before(d, e)
           ELSE \A d \in now : f \in DOMAIN Says(d) => ~Before(e, d)
    /\ "last" \in DOMAIN row =>
        \E e \in ever : row.last = <<e.block, e.index>> /\ \A d \in now : ~Before(e, d)

(* What came before the last event that a row tells of is among entries.   *)
Earlier(e, last) == e.block < last[1] \/ (e.block = last[1] /\ e.index < last[2])

RowLogged(row, all, entries) ==
    "last" \in DOMAIN row => \A e \in all : Earlier(e, row.last) => e \in entries

Events == UNION {Range(chain[b].logs) : b \in DOMAIN chain}

(* Which block is begun, and in which order its events are visited.        *)
DirectoryTyped ==
    /\ at \in Nat /\ high \in Nat /\ high <= Len(chain) /\ First <= at /\ log \in Seq(Events)
    /\ Visiting =>
        /\ at <= high /\ events \in InLogOrder(Fetched(at))
        /\ pos \in 0 .. Len(events) /\ (pc = "upserted" => pos < Len(events))

(* The row of a name and its log, at any moment of the visits.             *)
RowRight(n) ==
    LET all == History(n, First, Len(chain))
    IN  /\ RowTold(rows[n], Applied(n), History(n, First, high), all)
        /\ Entered(n) \subseteq Range(log)
        /\ RowLogged(rows[n], all, Range(log))

Directory == DirectoryTyped /\ \A n \in Names : RowRight(n)

(* Rows and sets of events, apart from the state.                          *)

LEMMA RowStays ==
    ASSUME NEW row, NEW now, NEW ever, NEW all, RowTold(row, now, ever, all),
           NEW less, less \subseteq now, NEW more, ever \subseteq more
    PROVE  RowTold(row, less, more, all)
BY Zenon DEF RowTold

LEMMA RowUpserted ==
    ASSUME NEW row, NEW now, NEW ever, NEW all, RowTold(row, now, ever, all),
           NEW x \in ever, ~Before(x, x), \A d \in now : ~Before(x, d),
           \A d \in all : Before(d, x) => d \in now,
           NEW new, DOMAIN new = {"last"} \cup DOMAIN row \cup DOMAIN Says(x),
           new["last"] = <<x.block, x.index>>,
           \A f \in DOMAIN new \ {"last"} :
             new[f] = IF f \in DOMAIN Says(x) /\ ~(f \in SetOnce /\ f \in DOMAIN row)
                      THEN Says(x)[f] ELSE row[f]
    PROVE  RowTold(new, now \cup {x}, ever, all)
<1>1. \A e \in now \cup {x} : DOMAIN Says(e) \subseteq DOMAIN new /\ "last" \in DOMAIN new
  BY DEF RowTold
<1>2. ASSUME NEW f \in DOMAIN new \ {"last"}
      PROVE  \E e \in ever :
                /\ f \in DOMAIN Says(e) /\ new[f] = Says(e)[f]
                /\ IF f \in SetOnce THEN \A d \in all : f \in DOMAIN Says(d) => ~Before(d, e)
                   ELSE \A d \in now \cup {x} : f \in DOMAIN Says(d) => ~Before(e, d)
  <2>1. CASE f \in DOMAIN Says(x) /\ ~(f \in SetOnce /\ f \in DOMAIN row)
    <3>1. new[f] = Says(x)[f]
      BY <2>1
    <3>2. f \in SetOnce => \A d \in all : f \in DOMAIN Says(d) => ~Before(d, x)
      BY <2>1 DEF RowTold
    <3> QED BY <2>1, <3>1, <3>2
  <2>2. CASE ~(f \in DOMAIN Says(x) /\ ~(f \in SetOnce /\ f \in DOMAIN row))
    <3>1. new[f] = row[f] /\ f \in DOMAIN row \ {"last"}
      BY <2>2
    <3>2. PICK e \in ever :
            /\ f \in DOMAIN Says(e) /\ row[f] = Says(e)[f]
            /\ IF f \in SetOnce THEN \A d \in all : f \in DOMAIN Says(d) => ~Before(d, e)
               ELSE \A d \in now : f \in DOMAIN Says(d) => ~Before(e, d)
      BY <3>1 DEF RowTold
    <3>3. f \notin SetOnce => f \notin DOMAIN Says(x)
      BY <2>2
    <3> QED BY <3>1, <3>2, <3>3
  <2> QED BY <2>1, <2>2
<1>3. new["last"] = <<x.block, x.index>> /\ \A d \in now \cup {x} : ~Before(x, d)
  OBVIOUS
<1>4. "last" \in DOMAIN new
  OBVIOUS
<1> QED BY <1>1, <1>2, <1>3, <1>4 DEF RowTold

LEMMA NeverLast ==
    ASSUME NEW e
    PROVE  "last" \notin DOMAIN Says(e)
<1>1. CASE e.kind = "Transfer"
  <2>1. Says(e) = TransferSays(e)
    BY <1>1 DEF Says
  <2>2. DOMAIN TransferSays(e) \in {{"owner", "creator", "created", "active"}, {"owner"}}
    BY DEF TransferSays
  <2> QED BY <2>1, <2>2
<1>2. CASE e.kind # "Transfer"
  <2> DEFINE said == RegistrarSays(e)
  <2>1. \/ said = [label |-> e.name, created |-> e.block, expiration |-> e.expiration]
        \/ said = [label |-> e.name, active |-> TRUE]
        \/ said = [label |-> e.name, active |-> FALSE]
        \/ said = [label |-> e.name, expiration |-> e.expiration]
        \/ said = [label |-> e.name, blocked |-> e.blocked]
    BY Zenon DEF RegistrarSays
  <2>2. "last" \notin DOMAIN said
    <3> HIDE DEF said
    <3> QED BY <2>1
  <2> QED BY <1>2, <2>2 DEF Says
<1> QED BY <1>1, <1>2

(* When the pass has all events of the blocks that were begun.             *)
LEMMA RowComplete ==
    ASSUME NEW row, NEW es, NEW all, es \subseteq all, RowTold(row, es, es, all)
    PROVE  /\ DOMAIN row \ {"last"} = UNION {DOMAIN Says(e) : e \in es}
           /\ \A f \in DOMAIN row \ {"last"} : Tells(es, f, row[f])
           /\ es # {} => \E e \in es :
                row.last = <<e.block, e.index>> /\ \A d \in es : ~Before(e, d)
<1>1. ASSUME NEW f \in DOMAIN row \ {"last"}
      PROVE  Tells(es, f, row[f]) /\ \E e \in es : f \in DOMAIN Says(e)
  <2>1. PICK e \in es :
          /\ f \in DOMAIN Says(e) /\ row[f] = Says(e)[f]
          /\ IF f \in SetOnce THEN \A d \in all : f \in DOMAIN Says(d) => ~Before(d, e)
             ELSE \A d \in es : f \in DOMAIN Says(d) => ~Before(e, d)
    BY DEF RowTold
  <2> QED BY <2>1 DEF Tells
<1>2. ASSUME NEW e \in es, NEW f \in DOMAIN Says(e) PROVE f \in DOMAIN row \ {"last"}
  BY NeverLast DEF RowTold
<1>3. DOMAIN row \ {"last"} = UNION {DOMAIN Says(e) : e \in es}
  BY <1>1, <1>2
<1>4. es # {} => "last" \in DOMAIN row
  BY DEF RowTold
<1>5. "last" \in DOMAIN row => \E e \in es :
         row.last = <<e.block, e.index>> /\ \A d \in es : ~Before(e, d)
  BY DEF RowTold
<1> QED BY <1>1, <1>3, <1>4, <1>5

(* A list of the events es in the order of their logs.                     *)
LEMMA ListedInOrder ==
    ASSUME NEW es, IsFiniteSet(es), NEW q \in InLogOrder(es)
    PROVE  /\ Len(q) \in Nat /\ DOMAIN q = 1 .. Len(q) /\ q \in Seq(es)
           /\ {q[i] : i \in 1 .. Len(q)} = es
           /\ \A i, j \in 1 .. Len(q) : i < j => q[i].index < q[j].index
<1> DEFINE n == Cardinality(es)
<1>1. n \in Nat
  BY FS_CardinalityType
<1>2. /\ q \in [1 .. n -> es] /\ \A i, j \in 1 .. n : i # j => q[i] # q[j]
      /\ \A i, j \in DOMAIN q : i < j => q[i].index < q[j].index
  BY DEF InLogOrder, SetToSeqs
<1>3. q \in Seq(es) /\ Len(q) = n /\ DOMAIN q = 1 .. n
  BY <1>1, <1>2
<1>4. q \in Injection(1 .. n, es)
  BY <1>2 DEF Injection, IsInjective
<1>5. IsFiniteSet(1 .. n) /\ Cardinality(1 .. n) = n
  BY <1>1, FS_Interval
<1>6. q \in Surjection(1 .. n, es)
  BY <1>4, <1>5, FS_Injection
<1>7. {q[i] : i \in 1 .. n} = es
  BY <1>2, <1>6 DEF Surjection
<1> QED BY <1>1, <1>2, <1>3, <1>7
(* The logs of the chain.                                                  *)
LEMMA LogsOfChain ==
    ASSUME chain \in Chains
    PROVE  /\ Len(chain) \in Nat /\ DOMAIN chain = 1 .. Len(chain) /\ First \in Nat \ {0}
           /\ \A b \in 1 .. Len(chain) :
                /\ Fetched(b) = Range(chain[b].logs) /\ IsFiniteSet(Fetched(b))
                /\ \A e \in Fetched(b) :
                    e.block = b /\ e.index \in Nat /\ e.name \in Names /\ e \in Events
                /\ \A d, e \in Fetched(b) : d.index = e.index => d = e
<1>1. Len(chain) \in Nat /\ DOMAIN chain = 1 .. Len(chain)
  BY NamesShape
<1>2. First \in Nat \ {0}
  BY NamesShape DEF First
<1>3. ASSUME NEW b \in 1 .. Len(chain)
      PROVE  /\ Fetched(b) = Range(chain[b].logs) /\ IsFiniteSet(Fetched(b))
             /\ \A e \in Fetched(b) : e.block = b /\ e.index \in Nat /\ e.name \in Names /\ e \in Events
             /\ \A d, e \in Fetched(b) : d.index = e.index => d = e
  <2> DEFINE logs == Range(chain[b].logs)
  <2>1. /\ IsFiniteSet(logs)
        /\ \A d, e \in logs : d.index = e.index => d = e
        /\ \A e \in logs :
            e.block = b /\ e.index \in Nat /\ e.name \in Names /\ e.kind \in Range(Queries)
    BY <1>1, NamesShape
  <2>2. \A e \in logs : e \in Events
    BY <1>1 DEF Events
  <2>3. Fetched(b) = logs
    BY <2>1 DEF Fetched
  <2> HIDE DEF logs
  <2>4. IsFiniteSet(Fetched(b))
    BY <2>1, <2>3
  <2> QED BY <2>1, <2>2, <2>3, <2>4 DEF logs
<1> QED BY <1>1, <1>2, <1>3

LEMMA InHistory ==
    ASSUME chain \in Chains, NEW n, NEW to \in Int, NEW e
    PROVE  /\ e \in History(n, First, to) <=>
                e.name = n /\ \E b \in First .. to : e \in Range(chain[b].logs)
           /\ to <= Len(chain) =>
                (e \in History(n, First, to) <=>
                    e.name = n /\ \E b \in First .. to : e \in Fetched(b) /\ e.block = b)
<1>1. e \in History(n, First, to) <=>
        e.name = n /\ \E b \in First .. to : e \in Range(chain[b].logs)
  BY DEF History
<1>2. ASSUME to <= Len(chain), NEW b \in First .. to
      PROVE  e \in Range(chain[b].logs) <=> e \in Fetched(b) /\ e.block = b
  <2>1. b \in 1 .. Len(chain)
    BY <1>2, LogsOfChain
  <2> QED BY <2>1, LogsOfChain
<1> QED BY <1>1, <1>2

(* The history of a name up to a later block holds more.                   *)
LEMMA HistoryGrows ==
    ASSUME chain \in Chains, NEW n, NEW from \in Int, NEW to \in Int, from <= to
    PROVE  History(n, First, from) \subseteq History(n, First, to)
<1>1. First \in Int
  BY LogsOfChain
<1>2. First .. from \subseteq First .. to
  BY <1>1
<1> QED BY <1>2 DEF History

(* The events of the block that is being visited.                          *)
LEMMA EventsOfBlock ==
    ASSUME chain \in Chains, DirectoryTyped, Visiting
    PROVE  /\ at \in 1 .. Len(chain) /\ Len(events) \in Nat /\ pos \in 0 .. Len(events)
           /\ {events[i] : i \in 1 .. Len(events)} = Fetched(at)
           /\ \A i, j \in 1 .. Len(events) : i < j => events[i].index < events[j].index
<1>1. at \in 1 .. Len(chain)
  BY LogsOfChain DEF DirectoryTyped
<1>2. IsFiniteSet(Fetched(at)) /\ events \in InLogOrder(Fetched(at))
  BY <1>1, LogsOfChain DEF DirectoryTyped
<1> QED BY <1>1, <1>2, ListedInOrder DEF DirectoryTyped

(* A step that writes no row, forgets nothing and does not go on.          *)
LEMMA DirectoryStays ==
    ASSUME Directory, chain \in Chains, chain' = chain, rows' = rows, DirectoryTyped',
           high <= high', Range(log) \subseteq Range(log'),
           \A n \in Names : Applied(n)' \subseteq Applied(n) /\ Entered(n)' \subseteq Range(log')
    PROVE  Directory'
<1> SUFFICES ASSUME NEW n \in Names
             PROVE  /\ RowTold(rows[n], Applied(n)', History(n, First, high'), History(n, First, Len(chain)))
                    /\ RowLogged(rows[n], History(n, First, Len(chain)), Range(log'))
  BY DEF Directory, RowRight, History
<1>1. /\ RowTold(rows[n], Applied(n), History(n, First, high), History(n, First, Len(chain)))
      /\ RowLogged(rows[n], History(n, First, Len(chain)), Range(log))
  BY DEF Directory, RowRight
<1>2. high \in Int /\ high' \in Int
  BY DEF Directory, DirectoryTyped
<1>3. History(n, First, high) \subseteq History(n, First, high')
  BY <1>2, HistoryGrows
<1>4. RowLogged(rows[n], History(n, First, Len(chain)), Range(log'))
  BY <1>1 DEF RowLogged
<1>5. Applied(n)' \subseteq Applied(n)
  OBVIOUS
<1> QED BY <1>1, <1>3, <1>4, <1>5, RowStays

LEMMA DirectoryInit == NamesInit => Directory
<1> SUFFICES ASSUME NamesInit PROVE Directory
  OBVIOUS
<1>1. chain \in Chains /\ pc = "idle" /\ at = First /\ log = <<>> /\ high = 0
  BY DEF NamesInit
<1>2. Len(chain) \in Nat /\ First \in Nat \ {0}
  BY <1>1, LogsOfChain
<1>3. ~Visiting /\ RowsDone = 0 /\ EntriesDone = 0
  BY <1>1 DEF Visiting, RowsDone, EntriesDone
<1>4. log \in Seq(Events)
  BY <1>1
<1>5. DirectoryTyped
  BY <1>1, <1>2, <1>3, <1>4 DEF DirectoryTyped
<1>6. ASSUME NEW n \in Names
      PROVE  rows[n] = NoRow /\ Applied(n) = {} /\ Entered(n) = {}
  <2>1. First .. at - 1 = {}
    BY <1>1, <1>2
  <2>2. Through(n, 0) = {}
    BY <2>1 DEF Through, History
  <2> QED BY <1>3, <2>2 DEF NamesInit, Applied, Entered
<1>7. DOMAIN NoRow = {}
  BY DEF NoRow
<1> QED BY <1>5, <1>6, <1>7 DEF Directory, RowRight, RowTold, RowLogged

LEMMA DirectoryBegins ==
    ASSUME Directory, chain \in Chains, BeginBlock
    PROVE  Directory'
<1>1. /\ pc = "idle" /\ at <= Len(chain) /\ pc' = "visit" /\ pos' = 0
      /\ events' \in InLogOrder(Fetched(at)) /\ high' = IF at > high THEN at ELSE high
      /\ UNCHANGED <<chain, at, rows, log>>
  BY DEF BeginBlock, nameTables
<1>2. /\ at \in Nat /\ high \in Nat /\ high <= Len(chain) /\ First <= at /\ log \in Seq(Events)
      /\ at \in 1 .. Len(chain)
  BY <1>1, LogsOfChain DEF Directory, DirectoryTyped
<1>3. high' \in Nat /\ high <= high' /\ at <= high' /\ high' <= Len(chain)
  BY <1>1, <1>2
<1>4. Fetched(at)' = Fetched(at)
  BY <1>1 DEF Fetched
<1>5. Len(events') \in Nat
  BY <1>1, <1>2, LogsOfChain, ListedInOrder
<1>6. DirectoryTyped'
  <2>1. (at' <= high' /\ events' \in InLogOrder(Fetched(at))')
    BY <1>1, <1>3, <1>4 DEF InLogOrder
  <2>2. pos' \in 0 .. Len(events') /\ pc' # "upserted" /\ log' \in Seq(Events)' /\ First' = First
    BY <1>1, <1>2, <1>5 DEF Events, First
  <2> QED BY <1>1, <1>2, <1>3, <2>1, <2>2 DEF DirectoryTyped
<1>7. ASSUME NEW n \in Names
      PROVE  Applied(n)' \subseteq Applied(n) /\ Entered(n)' \subseteq Range(log')
  <2>1. RowsDone' = 0 /\ EntriesDone' = 0 /\ RowsDone = 0 /\ EntriesDone = 0
    BY <1>1 DEF RowsDone, EntriesDone, Visiting
  <2>2. Applied(n)' = History(n, First, at - 1) /\ Entered(n)' = History(n, First, at - 1)
    BY <1>1, <2>1 DEF Applied, Entered, Through, History
  <2>3. Applied(n) = History(n, First, at - 1) /\ Entered(n) = History(n, First, at - 1)
    BY <2>1 DEF Applied, Entered, Through
  <2> QED BY <1>1, <2>2, <2>3 DEF Directory, RowRight
<1> QED BY <1>1, <1>3, <1>6, <1>7, DirectoryStays

(* The event that has changed its row is entered in the log.               *)
LEMMA DirectoryEnters ==
    ASSUME Directory, chain \in Chains, InsertNameEvent
    PROVE  Directory'
<1>1. /\ pc = "upserted" /\ pc' = "visit" /\ pos' = pos + 1 /\ log' = Append(log, events[pos + 1])
      /\ UNCHANGED <<chain, at, events, rows, high>>
  BY DEF InsertNameEvent
<1>2. /\ DirectoryTyped /\ Visiting /\ pos < Len(events) /\ log \in Seq(Events)
  BY <1>1 DEF Directory, DirectoryTyped, Visiting
<1>3. /\ at \in 1 .. Len(chain) /\ Len(events) \in Nat /\ pos \in 0 .. Len(events)
      /\ {events[i] : i \in 1 .. Len(events)} = Fetched(at)
  BY <1>2, EventsOfBlock
<1>4. events[pos + 1] \in Events
  <2>1. pos + 1 \in 1 .. Len(events)
    BY <1>2, <1>3
  <2>2. events[pos + 1] \in Fetched(at)
    BY <1>3, <2>1
  <2> QED BY <1>3, <2>2, LogsOfChain
<1>5. log' \in Seq(Events) /\ Range(log') = Range(log) \cup {events[pos + 1]}
  <2> DEFINE x == events[pos + 1]
  <2>1. /\ log' \in Seq(Events) /\ Len(log) \in Nat /\ DOMAIN log = 1 .. Len(log)
        /\ DOMAIN log' = 1 .. Len(log) + 1 /\ log'[Len(log) + 1] = x
        /\ \A i \in 1 .. Len(log) : log'[i] = log[i]
    BY <1>1, <1>2, <1>4
  <2> HIDE DEF x
  <2>2. Range(log') = Range(log) \cup {x}
    BY <2>1 DEF Range
  <2> QED BY <2>1, <2>2 DEF x
<1>6. DirectoryTyped'
  <2>1. pos' \in 0 .. Len(events') /\ pc' # "upserted" /\ log' \in Seq(Events)' /\ First' = First
    BY <1>1, <1>2, <1>3, <1>5 DEF Events, First
  <2>2. (at <= high /\ events \in InLogOrder(Fetched(at)))'
    BY <1>1, <1>2 DEF DirectoryTyped, InLogOrder, Fetched
  <2> QED BY <1>1, <1>2, <2>1, <2>2 DEF DirectoryTyped
<1>7. ASSUME NEW n \in Names
      PROVE  Applied(n)' \subseteq Applied(n) /\ Entered(n)' \subseteq Range(log')
  <2>1. RowsDone' = pos + 1 /\ EntriesDone' = pos + 1 /\ RowsDone = pos + 1 /\ EntriesDone = pos
    BY <1>1 DEF RowsDone, EntriesDone, Visiting
  <2>2. Applied(n)' = Through(n, pos + 1) /\ Entered(n)' = Through(n, pos + 1)
    BY <1>1, <2>1 DEF Applied, Entered, Through, History
  <2>3. Applied(n) = Through(n, pos + 1) /\ Entered(n) = Through(n, pos)
    BY <2>1 DEF Applied, Entered
  <2>4. 1 .. pos + 1 = (1 .. pos) \cup {pos + 1}
    BY <1>3
  <2>5. Through(n, pos + 1) \subseteq Through(n, pos) \cup {events[pos + 1]}
    BY <2>4 DEF Through
  <2>6. Entered(n) \subseteq Range(log)
    BY DEF Directory, RowRight
  <2> QED BY <1>5, <2>2, <2>3, <2>5, <2>6
<1>8. high <= high'
  BY <1>1, <1>2 DEF DirectoryTyped
<1> QED BY <1>1, <1>5, <1>6, <1>7, <1>8, DirectoryStays

LEMMA DirectoryCommits ==
    ASSUME Directory, chain \in Chains, CommitBlock
    PROVE  Directory'
<1>1. /\ pc = "visit" /\ pos = Len(events) /\ pc' = "idle" /\ at' = at + 1
      /\ UNCHANGED <<chain, events, rows, log, high>>
  BY DEF CommitBlock, nameTables
<1>2. DirectoryTyped /\ Visiting
  BY <1>1 DEF Directory, Visiting
<1>3. /\ at \in 1 .. Len(chain) /\ {events[i] : i \in 1 .. Len(events)} = Fetched(at)
      /\ Fetched(at) = Range(chain[at].logs) /\ First \in Nat \ {0}
  BY <1>2, EventsOfBlock, LogsOfChain
<1>4. high <= high' /\ DirectoryTyped'
  <2>1. log' \in Seq(Events)' /\ First' = First /\ ~Visiting'
    BY <1>1, <1>2 DEF DirectoryTyped, Events, First, Visiting
  <2> QED BY <1>1, <1>2, <1>3, <2>1 DEF DirectoryTyped
<1>5. ASSUME NEW n \in Names
      PROVE  Applied(n)' \subseteq Applied(n) /\ Entered(n)' \subseteq Range(log')
  <2>1. RowsDone' = 0 /\ EntriesDone' = 0 /\ RowsDone = Len(events) /\ EntriesDone = Len(events)
    BY <1>1 DEF RowsDone, EntriesDone, Visiting
  <2>2. Applied(n)' = History(n, First, at) /\ Entered(n)' = History(n, First, at)
    <3>1. at' - 1 = at
      BY <1>1, <1>3
    <3> QED BY <1>1, <2>1, <3>1 DEF Applied, Entered, Through, History
  <2>3. History(n, First, at) \subseteq Through(n, Len(events))
    <3>1. First .. at \subseteq (First .. at - 1) \cup {at}
      BY <1>3
    <3>2. ASSUME NEW e \in History(n, First, at) PROVE e \in Through(n, Len(events))
      <4>1. e.name = n /\ \E b \in First .. at : e \in Range(chain[b].logs)
        BY DEF History
      <4>2. CASE \E b \in First .. at - 1 : e \in Range(chain[b].logs)
        BY <4>1, <4>2 DEF Through, History
      <4>3. CASE e \in Range(chain[at].logs)
        BY <1>3, <4>1, <4>3 DEF Through
      <4> QED BY <3>1, <4>1, <4>2, <4>3
    <3> QED BY <3>2
  <2>4. Applied(n) = Through(n, Len(events)) /\ Entered(n) = Through(n, Len(events))
    BY <2>1 DEF Applied, Entered
  <2> QED BY <1>1, <2>2, <2>3, <2>4 DEF Directory, RowRight
<1> QED BY <1>1, <1>4, <1>5, DirectoryStays

(* A block that fails, a crash and a restart: the block begins anew, or an *)
(* earlier one.                                                            *)
LEMMA DirectoryAnew ==
    ASSUME Directory, chain \in Chains, BlockFails \/ Crash \/ RestartNames
    PROVE  Directory'
<1>1. /\ pc' \in {"idle", "down"} /\ UNCHANGED <<chain, events, rows, log, high>>
      /\ at' = at \/ at' = First
  BY DEF BlockFails, Crash, RestartNames, nameTables, First
<1>2. DirectoryTyped /\ First \in Nat /\ at \in Nat
  BY LogsOfChain DEF Directory, DirectoryTyped
<1>3. high <= high' /\ DirectoryTyped' /\ at' <= at
  <2>1. log' \in Seq(Events)' /\ First' = First /\ ~Visiting'
    BY <1>1, <1>2 DEF DirectoryTyped, Events, First, Visiting
  <2> QED BY <1>1, <1>2, <2>1 DEF DirectoryTyped
<1>4. ASSUME NEW n \in Names
      PROVE  Applied(n)' \subseteq Applied(n) /\ Entered(n)' \subseteq Range(log')
  <2>1. RowsDone' = 0 /\ EntriesDone' = 0
    BY <1>1 DEF RowsDone, EntriesDone, Visiting
  <2>2. Applied(n)' = History(n, First, at' - 1) /\ Entered(n)' = History(n, First, at' - 1)
    BY <1>1, <2>1 DEF Applied, Entered, Through, History
  <2>3. History(n, First, at' - 1) \subseteq History(n, First, at - 1)
    <3>1. at - 1 \in Int /\ at' - 1 \in Int /\ at' - 1 <= at - 1
      BY <1>1, <1>2, <1>3
    <3> QED BY <3>1, HistoryGrows
  <2>4. History(n, First, at - 1) \subseteq Applied(n) /\ History(n, First, at - 1) \subseteq Entered(n)
    BY DEF Applied, Entered, Through
  <2> QED BY <1>1, <2>2, <2>3, <2>4 DEF Directory, RowRight
<1> QED BY <1>1, <1>3, <1>4, DirectoryStays

(* An event changes the row of its name; it is the latest of this pass,    *)
(* and all events of the chain before it have been applied and entered.    *)
LEMMA DirectoryUpserts ==
    ASSUME Directory, chain \in Chains, DOMAIN rows = Names, UpsertName
    PROVE  Directory'
<1>1. PICK x : x = events[pos + 1]
  OBVIOUS
<1>2. /\ pc = "visit" /\ pos < Len(events) /\ rows' = [rows EXCEPT ![x.name] = Upserted(x)]
      /\ pc' = "upserted" /\ UNCHANGED <<chain, at, events, pos, log, high>>
  BY <1>1 DEF UpsertName
<1>3. DirectoryTyped /\ Visiting /\ high \in Nat /\ at \in Nat /\ high <= Len(chain) /\ at <= high
  BY <1>2 DEF Directory, DirectoryTyped, Visiting
<1>4. /\ at \in 1 .. Len(chain) /\ Len(events) \in Nat /\ pos \in 0 .. Len(events)
      /\ {events[i] : i \in 1 .. Len(events)} = Fetched(at)
      /\ \A i, j \in 1 .. Len(events) : i < j => events[i].index < events[j].index
      /\ First \in Nat \ {0} /\ Len(chain) \in Nat
  BY <1>3, EventsOfBlock, LogsOfChain
<1>5. x \in Fetched(at) /\ x.block = at /\ x.index \in Nat /\ x.name \in Names
  <2>1. pos + 1 \in 1 .. Len(events)
    BY <1>2, <1>4
  <2>2. x \in Fetched(at)
    BY <1>1, <1>4, <2>1
  <2> QED BY <1>4, <2>2, LogsOfChain
<1>6. /\ DOMAIN rows' = Names
      /\ \A n \in Names : rows'[n] = IF n = x.name THEN Upserted(x) ELSE rows[n]
  BY <1>2
<1>7. DirectoryTyped'
  <2>1. log' \in Seq(Events)' /\ First' = First
    BY <1>2, <1>3 DEF DirectoryTyped, Events, First
  <2>2. (at <= high /\ events \in InLogOrder(Fetched(at)))'
    BY <1>2, <1>3 DEF DirectoryTyped, InLogOrder, Fetched
  <2>3. pos' \in 0 .. Len(events') /\ pos' < Len(events')
    BY <1>2, <1>4
  <2> QED BY <1>2, <1>3, <2>1, <2>2, <2>3 DEF DirectoryTyped
<1>8. ASSUME NEW n \in Names
      PROVE  /\ Applied(n) = Through(n, pos) /\ Entered(n) = Through(n, pos)
             /\ Applied(n)' = Through(n, pos + 1) /\ Entered(n)' = Through(n, pos)
             /\ Through(n, pos + 1) = Through(n, pos) \cup {e \in {x} : e.name = n}
  <2>1. RowsDone = pos /\ EntriesDone = pos /\ RowsDone' = pos + 1 /\ EntriesDone' = pos
    BY <1>2 DEF RowsDone, EntriesDone, Visiting
  <2>2. Applied(n)' = Through(n, pos + 1) /\ Entered(n)' = Through(n, pos)
    BY <1>2, <2>1 DEF Applied, Entered, Through, History
  <2>3. 1 .. pos + 1 = (1 .. pos) \cup {pos + 1}
    BY <1>4
  <2>4. Through(n, pos + 1) = Through(n, pos) \cup {e \in {x} : e.name = n}
    BY <1>1, <2>3 DEF Through
  <2> QED BY <2>1, <2>2, <2>4 DEF Applied, Entered
<1> DEFINE n0 == x.name
           now == Through(n0, pos)
           ever == History(n0, First, high)
           all == History(n0, First, Len(chain))
<1>9. /\ Before(x, x) = FALSE /\ x \in ever
  <2>1. at \in First .. high
    BY <1>3, <1>4 DEF DirectoryTyped
  <2>2. x \in Range(chain[at].logs)
    BY <1>4, <1>5, LogsOfChain
  <2> QED BY <1>5, <2>1, <2>2 DEF Before, History
<1>10. ASSUME NEW d \in now PROVE ~Before(x, d)
  <2>1. CASE d \in History(n0, First, at - 1)
    <3>1. at - 1 \in Int /\ at - 1 <= Len(chain)
      BY <1>4
    <3>2. PICK b \in First .. at - 1 : d.block = b
      BY <2>1, <3>1, InHistory
    <3>3. d.block < at /\ x.block = at /\ at \in Int /\ d.block \in Int
      BY <1>4, <1>5, <3>2
    <3>4. ~(x.block < d.block) /\ x.block # d.block
      BY <3>3
    <3> QED BY <3>4 DEF Before
  <2>2. CASE d \in {events[i] : i \in 1 .. pos}
    <3>1. PICK i \in 1 .. pos : d = events[i]
      BY <2>2
    <3>2. i \in 1 .. Len(events) /\ pos + 1 \in 1 .. Len(events) /\ i < pos + 1
      BY <1>2, <1>4
    <3>3. d.index < x.index /\ d \in Fetched(at)
      BY <1>1, <1>4, <3>1, <3>2
    <3>4. d.block = x.block /\ d.index \in Nat /\ x.block \in Nat
      BY <1>4, <1>5, <3>3, LogsOfChain
    <3> QED BY <1>5, <3>3, <3>4 DEF Before
  <2> QED BY <2>1, <2>2 DEF Through
<1>11. ASSUME NEW d \in all, Before(d, x) PROVE d \in now
  <2>1. PICK b \in First .. Len(chain) : d.name = n0 /\ d \in Fetched(b) /\ d.block = b
    BY <1>4, InHistory
  <2>2. b \in 1 .. Len(chain)
    BY <1>4
  <2>3. d \in Range(chain[b].logs)
    BY <2>1, <2>2, LogsOfChain
  <2>4. CASE b < at
    <3>1. b \in First .. at - 1
      BY <1>4, <2>4
    <3> QED BY <2>1, <2>3, <3>1 DEF Through, History
  <2>5. CASE b = at
    <3>1. d.index < x.index /\ d \in Fetched(at) /\ d.index \in Nat
      BY <1>4, <1>5, <1>11, <2>1, <2>2, <2>5, LogsOfChain DEF Before
    <3>2. PICK i \in 1 .. Len(events) : d = events[i]
      BY <1>4, <3>1
    <3>3. i < pos + 1
      <4> SUFFICES ASSUME ~(i < pos + 1) PROVE FALSE
        OBVIOUS
      <4>1. i = pos + 1 \/ pos + 1 < i
        BY <1>4
      <4>2. pos + 1 \in 1 .. Len(events)
        BY <1>2, <1>4
      <4>3. d.index = x.index \/ x.index < d.index
        BY <1>1, <1>4, <3>2, <4>1, <4>2
      <4> QED BY <1>5, <3>1, <4>3
    <3>4. i \in 1 .. pos
      BY <1>4, <3>3
    <3> QED BY <2>1, <3>2, <3>4 DEF Through
  <2>6. CASE at < b
    BY <1>4, <1>5, <1>11, <2>1, <2>6 DEF Before
  <2> QED BY <1>4, <2>2, <2>4, <2>5, <2>6
<1>12. /\ RowTold(rows[n0], now, ever, all) /\ now \subseteq Range(log)
       /\ RowLogged(rows[n0], all, Range(log))
  BY <1>5, <1>8 DEF Directory, RowRight
<1>13. RowTold(Upserted(x), now \cup {x}, ever, all)
  <2> DEFINE new == Upserted(x)
             old == rows[n0]
  <2>1. /\ DOMAIN new = {"last"} \cup DOMAIN old \cup DOMAIN Says(x)
        /\ new["last"] = <<x.block, x.index>>
        /\ \A f \in DOMAIN new \ {"last"} :
             new[f] = IF f \in DOMAIN Says(x) /\ ~(f \in SetOnce /\ f \in DOMAIN old)
                      THEN Says(x)[f] ELSE old[f]
    BY DEF Upserted
  <2> HIDE DEF new, old, now, ever, all
  <2> QED BY <1>9, <1>10, <1>11, <1>12, <2>1, RowUpserted DEF new, old
<1>14. RowLogged(Upserted(x), all, Range(log))
  <2>1. Upserted(x)["last"] = <<x.block, x.index>>
    BY DEF Upserted
  <2>2. \A d : Earlier(d, Upserted(x).last) => Before(d, x)
    BY <2>1 DEF Earlier, Before
  <2> HIDE DEF now, all
  <2> QED BY <1>11, <1>12, <2>2 DEF RowLogged
<1>15. ASSUME NEW n \in Names
       PROVE  /\ RowTold(rows'[n], Applied(n)', History(n, First, high), History(n, First, Len(chain)))
              /\ Entered(n)' \subseteq Range(log)
              /\ RowLogged(rows'[n], History(n, First, Len(chain)), Range(log))
  <2>1. /\ RowTold(rows[n], Applied(n), History(n, First, high), History(n, First, Len(chain)))
        /\ Entered(n) \subseteq Range(log)
        /\ RowLogged(rows[n], History(n, First, Len(chain)), Range(log))
    BY DEF Directory, RowRight
  <2>2. CASE n = n0
    <3>1. Applied(n)' = now \cup {x}
      BY <1>8, <2>2
    <3> QED BY <1>6, <1>8, <1>13, <1>14, <2>1, <2>2, <3>1
  <2>3. CASE n # n0
    <3>1. Applied(n)' = Applied(n)
      BY <1>8, <2>3
    <3> QED BY <1>6, <1>8, <2>1, <2>3, <3>1
  <2> QED BY <2>2, <2>3
<1> HIDE DEF all, ever, now
<1>16. ASSUME NEW n \in Names PROVE RowRight(n)'
  <2>1. chain' = chain /\ log' = log /\ high' = high /\ First' = First
    BY <1>2 DEF First
  <2> QED BY <1>15, <2>1 DEF RowRight, History
<1> QED BY <1>7, <1>16 DEF Directory

LEMMA DirectorySame ==
    ASSUME Directory, chain \in Chains, UNCHANGED namesVars
    PROVE  Directory'
<1>1. UNCHANGED <<chain, pc, at, events, pos, rows, log, high>>
  BY DEF namesVars, nameTables
<1>2. DirectoryTyped'
  BY <1>1 DEF Directory, DirectoryTyped, Visiting, InLogOrder, Fetched, Events, First
<1>3. ASSUME NEW n \in Names
      PROVE  Applied(n)' = Applied(n) /\ Entered(n)' = Entered(n)
  BY <1>1 DEF Applied, Entered, Through, RowsDone, EntriesDone, Visiting, History, First
<1>4. high <= high'
  BY <1>1 DEF Directory, DirectoryTyped
<1> QED BY <1>1, <1>2, <1>3, <1>4, DirectoryStays DEF Directory, RowRight

LEMMA RowsTold ==
    ASSUME Directory, chain \in Chains
    PROVE  RowsTellChain
<1> SUFFICES ASSUME pc = "idle", at = high + 1, NEW n \in Names
             PROVE  LET es == History(n, First, high)
                        row == rows[n]
                    IN  /\ DOMAIN row \ {"last"} = UNION {DOMAIN Says(e) : e \in es}
                        /\ \A f \in DOMAIN row \ {"last"} : Tells(es, f, row[f])
                        /\ es # {} => \E e \in es :
                            row.last = <<e.block, e.index>> /\ \A d \in es : ~Before(e, d)
  BY DEF RowsTellChain
<1> DEFINE es == History(n, First, high)
           all == History(n, First, Len(chain))
<1>1. high \in Int /\ high <= Len(chain) /\ Len(chain) \in Int
  BY LogsOfChain DEF Directory, DirectoryTyped
<1>2. es \subseteq all
  BY <1>1, HistoryGrows
<1>3. Applied(n) = es
  <2>1. RowsDone = 0 /\ at - 1 = high
    BY <1>1 DEF RowsDone
  <2>2. Applied(n) = History(n, First, at - 1)
    BY <2>1 DEF Applied, Through
  <2> QED BY <2>1, <2>2
<1>4. RowTold(rows[n], es, es, all)
  BY <1>3 DEF Directory, RowRight
<1> HIDE DEF es, all
<1>5. /\ DOMAIN rows[n] \ {"last"} = UNION {DOMAIN Says(e) : e \in es}
      /\ \A f \in DOMAIN rows[n] \ {"last"} : Tells(es, f, rows[n][f])
      /\ es # {} => \E e \in es :
            rows[n].last = <<e.block, e.index>> /\ \A d \in es : ~Before(e, d)
  BY <1>2, <1>4, RowComplete
<1> QED BY <1>5 DEF es

-----------------------------------------------------------------------------
(* What the handlers answer.                                               *)

(* Lists that no row leaves, and those whose ORDER BY tells all rows apart. *)
Growing == Lists \ {"ownedNames"}
Sorted == {"epochRewards", "stakeTransactions", "ownedNames"}

EpochRow == [end : Int, nodes : {chain[b].validators : b \in DOMAIN chain}]
StakeRow == [block : Int, nr : Int, try : Int, id : Int]

TablesTyped ==
    /\ chain \in Chains /\ at \in Nat \ {0} /\ faults \in Nat
    /\ pc \in {"visit", "upserted"} => at <= Len(chain)
    /\ DOMAIN rows = Names
    /\ epochs \in Seq(EpochRow) /\ Len(epochs) > 0 /\ epochs[Len(epochs)].end = 0
    /\ stakes \in Seq(StakeRow) /\ \A i \in 1 .. Len(stakes) : stakes[i].id = i
    /\ IsFiniteSet(rewards)

(* What a step never does to the tables.                                   *)
Grown ==
    /\ chain' = chain
    /\ \A e \in DOMAIN epochs :
        /\ e \in DOMAIN epochs' /\ epochs'[e].nodes = epochs[e].nodes
        /\ epochs[e].end # 0 => epochs'[e].end = epochs[e].end
    /\ Range(stakes) \subseteq Range(stakes') /\ rewards \subseteq rewards'
    /\ \A n \in Names : rows[n] # NoRow => rows'[n] # NoRow

(* The active epochs were counted among no more than there are now, and    *)
(* the total after them.                                                   *)
StatsCounted ==
    request.kind = "stats" =>
        LET got == request.got
            window == EndedWithin(request.since, Len(chain) + 1)
        IN  /\ DOMAIN request = {"kind", "validator", "since", "before", "got"}
            /\ DOMAIN got \in {{}, {"active"}, {"active", "total"}, {"active", "total", "previous"}}
            /\ "active" \in DOMAIN got => got["active"] \in Nat /\ got["active"] <= Cardinality(window)
            /\ "total" \in DOMAIN got => got["total"] \in Nat /\ got["active"] <= got["total"]

(* A row that was read tells of no event that is not entered, the last one *)
(* excepted; nor do the entries that were read after it lack one.          *)
HistoryAsked ==
    request.kind = "history" =>
        LET all == History(request.name, First, Len(chain))
            got == request.got
        IN  /\ DOMAIN request = {"kind", "name", "got"} /\ request.name \in Names
            /\ DOMAIN got \in {{}, {"row"}, {"row", "events"}}
            /\ "label" \in DOMAIN rows[request.name]
            /\ "row" \in DOMAIN got => RowLogged(got["row"], all, Range(log)) /\ "last" \in DOMAIN got["row"]
            /\ "events" \in DOMAIN got => RowLogged(got["row"], all, got["events"])

PageFields ==
    {"kind", "validator", "offset", "total", "begin", "before", "seen", "kept", "stayed"}

(* The rows that come before r in a set of rows.                           *)
Ahead(list, set, r) == {q \in set : Precedes(list, q, r)}

(* A row of the start that was not seen yet is still to come: it is in the *)
(* list and at least offset rows are before it.                            *)
StillToCome ==
    \A r \in request.begin \ request.seen :
        /\ request.offset \in Nat /\ r \in request.before
        /\ Cardinality(Ahead(request.kind, request.before, r)) >= request.offset

PagesRead ==
    request.kind \in Lists =>
        LET now == RowsOf(request.kind, request.validator)
        IN  /\ DOMAIN request = PageFields
            /\ request.offset \in Nat \cup {-1} /\ request.total \in Nat \cup {-1}
            /\ request.kind \in Growing =>
                /\ request.before \subseteq now /\ request.total <= Cardinality(now)
                /\ request.stayed /\ request.kept
            /\ request.kind \in Sorted /\ request.stayed => StillToCome

Reading == TablesTyped /\ Directory /\ HistoryAsked /\ StatsCounted /\ PagesRead

LEMMA Sizes ==
    /\ Cardinality({}) = 0
    /\ Cardinality({"active"}) = 1
    /\ Cardinality({"active", "total"}) = 2
    /\ Cardinality({"active", "total", "previous"}) = 3
<1>1. Cardinality({}) = 0
  BY FS_EmptySet
<1>2. IsFiniteSet({"active"}) /\ Cardinality({"active"}) = 1
  BY FS_Singleton
<1>3. IsFiniteSet({"active"} \cup {"total"}) /\ Cardinality({"active"} \cup {"total"}) = 2
  BY <1>2, FS_AddElement
<1>4. {"active"} \cup {"total"} = {"active", "total"}
  OBVIOUS
<1>5. IsFiniteSet({"active", "total"}) /\ Cardinality({"active", "total"}) = 2
  BY <1>3, <1>4
<1>6. Cardinality({"active", "total"} \cup {"previous"}) = 3
  BY <1>5, FS_AddElement
<1>7. {"active", "total"} \cup {"previous"} = {"active", "total", "previous"}
  OBVIOUS
<1>8. Cardinality({"active", "total", "previous"}) = 3
  BY <1>6, <1>7
<1> QED BY <1>1, <1>2, <1>5, <1>8

LEMMA Smaller ==
    ASSUME NEW a \in Int, NEW b \in Int
    PROVE  Min({a, b}) = IF a <= b THEN a ELSE b
<1>1. CASE a <= b
  BY <1>1 DEF Min
<1>2. CASE ~(a <= b)
  BY <1>2 DEF Min
<1> QED BY <1>1, <1>2

LEMMA PercentBounded ==
    ASSUME NEW x \in Nat, NEW y \in Nat \ {0}, x <= y
    PROVE  (100 * x) \div y <= 100
OBVIOUS

LEMMA RangeFinite ==
    ASSUME NEW S, NEW q \in Seq(S)
    PROVE  IsFiniteSet(Range(q))
<1> DEFINE f == [i \in 1 .. Len(q) |-> q[i]]
<1>1. Range(q) = {f[i] : i \in 1 .. Len(q)}
  BY DEF Range
<1>2. IsFiniteSet(1 .. Len(q))
  BY FS_Interval
<1>3. f \in Surjection(1 .. Len(q), Range(q))
  BY <1>1 DEF Surjection
<1> QED BY <1>2, <1>3, FS_Surjection

(* The cases of RowsOf and Precedes, list by list.                         *)
LEMMA RowsOfLists ==
    ASSUME NEW v
    PROVE  /\ RowsOf("epochRewards", v) = {e \in DOMAIN epochs : v \in epochs[e].nodes}
           /\ RowsOf("delegatorRewards", v) = rewards
           /\ RowsOf("stakeTransactions", v) = Range(stakes)
           /\ RowsOf("ownedNames", v) = OwnedBy(v)
           /\ RowsOf("names", v) = {n \in Names : rows[n] # NoRow}
BY Zenon DEF RowsOf

LEMMA PrecedesLists ==
    ASSUME NEW q, NEW r
    PROVE  /\ Precedes("epochRewards", q, r) <=> q > r
           /\ Precedes("stakeTransactions", q, r) <=>
                q.block < r.block \/ (q.block = r.block /\ q.id < r.id)
           /\ Precedes("ownedNames", q, r) <=> Rank[q] < Rank[r]
BY Zenon DEF Precedes

LEMMA EpochsFinite ==
    TablesTyped => IsFiniteSet(1 .. Len(epochs)) /\ DOMAIN epochs = 1 .. Len(epochs)
<1> SUFFICES ASSUME TablesTyped PROVE IsFiniteSet(1 .. Len(epochs)) /\ DOMAIN epochs = 1 .. Len(epochs)
  OBVIOUS
<1>1. epochs \in Seq(EpochRow)
  BY DEF TablesTyped
<1>2. Len(epochs) \in Nat /\ DOMAIN epochs = 1 .. Len(epochs)
  BY <1>1
<1> QED BY <1>2, FS_Interval

LEMMA RowsFinite ==
    ASSUME TablesTyped, NEW list \in Lists, NEW v
    PROVE  IsFiniteSet(RowsOf(list, v))
<1>1. IsFiniteSet(Names)
  BY NamesShape
<1>2. IsFiniteSet(1 .. Len(epochs)) /\ DOMAIN epochs = 1 .. Len(epochs)
  BY EpochsFinite
<1>3. CASE list = "epochRewards"
  <2>1. RowsOf(list, v) \subseteq 1 .. Len(epochs)
    BY <1>2, <1>3, RowsOfLists
  <2> QED BY <1>2, <2>1, FS_Subset
<1>4. CASE list = "delegatorRewards"
  BY <1>4, RowsOfLists DEF TablesTyped
<1>5. CASE list = "stakeTransactions"
  BY <1>5, RangeFinite, RowsOfLists DEF TablesTyped
<1>6. CASE list = "ownedNames" \/ list = "names"
  <2>1. RowsOf(list, v) \subseteq Names
    BY <1>6, RowsOfLists DEF OwnedBy
  <2> QED BY <1>1, <2>1, FS_Subset
<1> QED BY <1>3, <1>4, <1>5, <1>6 DEF Lists

(* Of two rows one comes first, and no row before itself.                  *)
LEMMA SortedRows ==
    ASSUME TablesTyped, NEW list \in Sorted, NEW v,
           NEW q \in RowsOf(list, v), NEW r \in RowsOf(list, v)
    PROVE  ~Precedes(list, r, r) /\ (q # r => Precedes(list, q, r) \/ Precedes(list, r, q))
<1>1. CASE list = "epochRewards"
  <2>1. q \in Int /\ r \in Int
    BY <1>1, RowsOfLists DEF TablesTyped
  <2>2. ~(r > r) /\ (q # r => q > r \/ r > q)
    BY <2>1
  <2>3. /\ ~Precedes("epochRewards", r, r)
        /\ q # r => Precedes("epochRewards", q, r) \/ Precedes("epochRewards", r, q)
    BY <2>2, PrecedesLists
  <2> QED BY <1>1, <2>3
<1>2. CASE list = "stakeTransactions"
  <2>1. PICK i \in 1 .. Len(stakes) : q = stakes[i]
    BY <1>2, RowsOfLists DEF TablesTyped, Range
  <2>2. PICK j \in 1 .. Len(stakes) : r = stakes[j]
    BY <1>2, RowsOfLists DEF TablesTyped, Range
  <2>3. stakes[i] \in StakeRow /\ stakes[j] \in StakeRow
    BY DEF TablesTyped
  <2>4. q.block \in Int /\ r.block \in Int
    BY <2>1, <2>2, <2>3 DEF StakeRow
  <2>5. q.id = i /\ r.id = j
    BY <2>1, <2>2 DEF TablesTyped
  <2>6. q # r => q.id < r.id \/ r.id < q.id
    BY <2>1, <2>2, <2>5
  <2>7. ~(r.block < r.block) /\ ~(r.id < r.id)
    BY <2>4, <2>5
  <2> QED BY <1>2, <2>4, <2>6, <2>7, PrecedesLists
<1>3. CASE list = "ownedNames"
  <2>1. q \in Names /\ r \in Names
    BY <1>3, RowsOfLists DEF OwnedBy
  <2>2. Rank[q] \in Int /\ Rank[r] \in Int /\ (Rank[q] = Rank[r] => q = r)
    BY <2>1, ReadsShape DEF IsInjective
  <2>3. ~(Rank[r] < Rank[r]) /\ (q # r => Rank[q] < Rank[r] \/ Rank[r] < Rank[q])
    BY <2>2
  <2> QED BY <1>3, <2>3, PrecedesLists
<1> QED BY <1>1, <1>2, <1>3 DEF Sorted

-----------------------------------------------------------------------------
(* The tables only grow.                                                   *)

LEMMA TablesInit == ReadsInit => TablesTyped
<1> SUFFICES ASSUME ReadsInit PROVE TablesTyped
  OBVIOUS
<1> USE DEF ReadsInit, NamesInit
<1>1. chain \in Chains /\ Len(chain) \in Nat \ {0} /\ 1 \in DOMAIN chain
  BY NamesShape, ReadsShape
<1>2. at \in Nat \ {0} /\ faults \in Nat /\ pc \notin {"visit", "upserted"} /\ DOMAIN rows = Names
  BY NamesShape, ReadsShape DEF First
<1>3. [end |-> 0, nodes |-> chain[1].validators] \in EpochRow
  BY <1>1 DEF EpochRow
<1>4. epochs \in Seq(EpochRow) /\ Len(epochs) = 1 /\ epochs[1].end = 0
  BY <1>3
<1>5. stakes \in Seq(StakeRow) /\ Len(stakes) = 0
  OBVIOUS
<1>6. IsFiniteSet(rewards)
  BY FS_EmptySet
<1> QED BY <1>1, <1>2, <1>4, <1>5, <1>6 DEF TablesTyped

(* The names of the rows stay, and no row becomes NoRow.                   *)
LEMMA UpsertGrows ==
    ASSUME DOMAIN rows = Names, UpsertName
    PROVE  /\ DOMAIN rows' = Names
           /\ \A n \in Names : rows[n] # NoRow => rows'[n] # NoRow
<1> DEFINE e == events[pos + 1]
<1>1. rows' = [rows EXCEPT ![e.name] = Upserted(e)]
  BY DEF UpsertName
<1>2. "last" \in DOMAIN Upserted(e)
  BY DEF Upserted
<1>3. "last" \notin DOMAIN NoRow
  BY DEF NoRow
<1>4. Upserted(e) # NoRow
  BY <1>2, <1>3
<1> HIDE DEF e
<1> QED BY <1>1, <1>4

LEMMA StakeInserted ==
    ASSUME TablesTyped, InsertStakeTransaction
    PROVE  /\ stakes' \in Seq(StakeRow) /\ \A i \in 1 .. Len(stakes') : stakes'[i].id = i
           /\ Range(stakes) \subseteq Range(stakes')
<1>1. PICK c : stakes' = Append(stakes, StakeTransactionRow(c + 1))
               /\ c = Cardinality({i \in DOMAIN stakes : stakes[i].block = at /\ stakes[i].try = faults})
  BY DEF InsertStakeTransaction
<1>2. IsFiniteSet(1 .. Len(stakes)) /\ DOMAIN stakes = 1 .. Len(stakes) /\ Len(stakes) \in Nat
  BY FS_Interval DEF TablesTyped
<1>3. c \in Nat
  <2>1. {i \in DOMAIN stakes : stakes[i].block = at /\ stakes[i].try = faults} \subseteq 1 .. Len(stakes)
    BY <1>2
  <2> QED BY <1>1, <1>2, <2>1, FS_Subset, FS_CardinalityType
<1> DEFINE row == StakeTransactionRow(c + 1)
<1>4. row \in StakeRow /\ row.id = Len(stakes) + 1
  BY <1>2, <1>3 DEF StakeTransactionRow, StakeRow, TablesTyped
<1> HIDE DEF row
<1>5. /\ stakes' \in Seq(StakeRow) /\ Len(stakes') = Len(stakes) + 1
      /\ \A i \in 1 .. Len(stakes) : stakes'[i] = stakes[i]
      /\ stakes'[Len(stakes) + 1] = row
  BY <1>1, <1>4 DEF TablesTyped, row
<1>6. ASSUME NEW i \in 1 .. Len(stakes') PROVE stakes'[i].id = i
  <2>1. CASE i \in 1 .. Len(stakes)
    BY <1>5, <2>1 DEF TablesTyped
  <2>2. CASE i = Len(stakes) + 1
    BY <1>4, <1>5, <2>2
  <2> QED BY <1>2, <1>5, <2>1, <2>2
<1>7. DOMAIN stakes' = 1 .. Len(stakes')
  BY <1>5
<1>8. Range(stakes) \subseteq Range(stakes')
  <2> SUFFICES ASSUME NEW i \in 1 .. Len(stakes) PROVE \E j \in DOMAIN stakes' : stakes[i] = stakes'[j]
    BY <1>2 DEF Range
  <2> QED BY <1>2, <1>5, <1>7
<1> QED BY <1>5, <1>6, <1>8

LEMMA EpochsSwitched ==
    ASSUME TablesTyped, at <= Len(chain), SwitchesEpoch(at)
    PROVE  LET new == EpochSwitched(at)
           IN  /\ new \in Seq(EpochRow) /\ Len(new) > 0 /\ new[Len(new)].end = 0
               /\ \A e \in DOMAIN epochs :
                    /\ e \in DOMAIN new /\ new[e].nodes = epochs[e].nodes
                    /\ epochs[e].end # 0 => new[e].end = epochs[e].end
<1> DEFINE n == Len(epochs)
           m == chain[at].epoch
           new == EpochSwitched(at)
<1>1. at \in DOMAIN chain /\ m \in Nat /\ n \in Nat \ {0} /\ n < m /\ DOMAIN epochs = 1 .. n
  BY NamesShape, ReadsShape DEF TablesTyped, SwitchesEpoch
<1>2. new = [e \in 1 .. m |->
            IF e = n THEN [epochs[e] EXCEPT !.end = at - 1]
            ELSE IF e \in 1 .. n THEN epochs[e] ELSE [end |-> 0, nodes |-> chain[at].validators]]
  BY <1>1 DEF EpochSwitched
<1>3. \A e \in 1 .. n : epochs[e] \in EpochRow
  BY <1>1 DEF TablesTyped
<1>4. at \in Int /\ epochs[n].end = 0
  BY DEF TablesTyped
<1> HIDE DEF n, m, new
<1>5. [end |-> 0, nodes |-> chain[at].validators] \in EpochRow
  BY <1>1 DEF EpochRow
<1>6. ASSUME NEW e \in 1 .. m PROVE new[e] \in EpochRow
  <2>1. CASE e = n
    <3>1. epochs[e] \in EpochRow
      BY <1>1, <1>3, <2>1
    <3>2. [epochs[e] EXCEPT !.end = at - 1] \in EpochRow
      BY <1>4, <3>1 DEF EpochRow
    <3> QED BY <1>2, <2>1, <3>2
  <2>2. CASE e # n
    BY <1>2, <1>3, <1>5, <2>2
  <2> QED BY <2>1, <2>2
<1>7. new \in [1 .. m -> EpochRow]
  BY <1>2, <1>6
<1>8. new \in Seq(EpochRow) /\ Len(new) = m /\ DOMAIN new = 1 .. m
  BY <1>1, <1>7
<1>9. new[m].end = 0
  BY <1>1, <1>2
<1>10. ASSUME NEW e \in 1 .. n
       PROVE  /\ e \in 1 .. m /\ new[e].nodes = epochs[e].nodes
              /\ epochs[e].end # 0 => new[e].end = epochs[e].end
  <2>1. e \in 1 .. m
    BY <1>1
  <2>2. CASE e = n
    <3>1. new[e] = [epochs[e] EXCEPT !.end = at - 1] /\ epochs[e] \in EpochRow
      BY <1>2, <1>3, <2>1, <2>2
    <3>2. new[e].nodes = epochs[e].nodes
      BY <3>1 DEF EpochRow
    <3> QED BY <1>4, <2>1, <2>2, <3>2
  <2>3. CASE e # n
    BY <1>2, <2>1, <2>3
  <2> QED BY <2>2, <2>3
<1> QED BY <1>1, <1>8, <1>9, <1>10 DEF new

LEMMA CommitGrows ==
    ASSUME TablesTyped, Commit
    PROVE  TablesTyped' /\ Grown
<1>1. /\ pc = "visit" /\ pc' = "idle" /\ at' = at + 1
      /\ UNCHANGED <<chain, rows, faults, stakes>>
      /\ epochs' = IF SwitchesEpoch(at) THEN EpochSwitched(at) ELSE epochs
      /\ rewards' = IF SwitchesEpoch(at) THEN rewards \cup DelegateRows(at) ELSE rewards
  BY DEF Commit, CommitBlock, nameTables
<1>2. at \in Nat \ {0} /\ at <= Len(chain) /\ at \in DOMAIN chain
  BY <1>1, NamesShape, ReadsShape DEF TablesTyped
<1>3. /\ epochs' \in Seq(EpochRow) /\ Len(epochs') > 0 /\ epochs'[Len(epochs')].end = 0
      /\ \A e \in DOMAIN epochs :
            /\ e \in DOMAIN epochs' /\ epochs'[e].nodes = epochs[e].nodes
            /\ epochs[e].end # 0 => epochs'[e].end = epochs[e].end
  <2>1. CASE SwitchesEpoch(at)
    BY <1>1, <1>2, <2>1, EpochsSwitched
  <2>2. CASE ~SwitchesEpoch(at)
    BY <1>1, <2>2 DEF TablesTyped
  <2> QED BY <2>1, <2>2
<1>4. EpochRow' = EpochRow
  BY <1>1 DEF EpochRow
<1>5. IsFiniteSet(rewards') /\ rewards \subseteq rewards'
  <2>1. IsFiniteSet(chain[at].rewarded)
    BY <1>2, NamesShape, ReadsShape DEF TablesTyped
  <2>2. IsFiniteSet(chain[at].rewarded \cap chain[at].backed)
    BY <2>1, FS_Subset
  <2>3. IsFiniteSet({Len(epochs)})
    BY FS_Singleton
  <2>4. IsFiniteSet(DelegateRows(at))
    BY <2>2, <2>3, FS_Product DEF DelegateRows
  <2>5. IsFiniteSet(rewards \cup DelegateRows(at))
    BY <2>4, FS_Union DEF TablesTyped
  <2> QED BY <1>1, <2>5 DEF TablesTyped
<1>6. TablesTyped'
  BY <1>1, <1>2, <1>3, <1>4, <1>5 DEF TablesTyped, StakeRow
<1>7. Grown
  BY <1>1, <1>3, <1>5 DEF Grown
<1> QED BY <1>6, <1>7

LEMMA IndexerGrows ==
    ASSUME TablesTyped, Indexer
    PROVE  TablesTyped' /\ Grown
<1>1. CASE InsertStakeTransaction
  <2>1. UNCHANGED <<chain, at, faults, pc, rows, epochs, rewards>>
    BY <1>1 DEF InsertStakeTransaction, namesVars
  <2>2. EpochRow' = EpochRow
    BY <2>1 DEF EpochRow
  <2>3. TablesTyped'
    BY <1>1, <2>1, <2>2, StakeInserted DEF TablesTyped, StakeRow
  <2> QED BY <1>1, <2>1, <2>3, StakeInserted DEF Grown
<1>2. CASE Commit
  BY <1>2, CommitGrows
<1>3. CASE /\ \/ BeginBlock \/ (StakesVisited /\ UpsertName) \/ InsertNameEvent
              \/ BlockFails \/ Crash \/ RestartNames
           /\ UNCHANGED <<tables, request>>
  <2>1. UNCHANGED <<chain, epochs, stakes, rewards>>
    BY <1>3 DEF tables, BeginBlock, UpsertName, InsertNameEvent, BlockFails, Crash, RestartNames
  <2>2. EpochRow' = EpochRow
    BY <2>1 DEF EpochRow
  <2>3. DOMAIN rows' = Names /\ \A n \in Names : rows[n] # NoRow => rows'[n] # NoRow
    <3>1. CASE UpsertName
      BY <3>1, UpsertGrows DEF TablesTyped
    <3>2. CASE UNCHANGED rows
      BY <3>2 DEF TablesTyped
    <3> QED BY <1>3, <3>1, <3>2
         DEF BeginBlock, InsertNameEvent, BlockFails, Crash, RestartNames, nameTables
  <2>4. /\ at' \in Nat \ {0} /\ faults' \in Nat
        /\ pc' \in {"visit", "upserted"} => at' <= Len(chain)
    BY <1>3, <2>1, NamesShape, ReadsShape
    DEF TablesTyped, BeginBlock, UpsertName, InsertNameEvent, BlockFails, Crash, RestartNames
  <2>5. TablesTyped'
    BY <2>1, <2>2, <2>3, <2>4 DEF TablesTyped, StakeRow
  <2> QED BY <2>1, <2>3, <2>5 DEF Grown
<1> QED BY <1>1, <1>2, <1>3 DEF Indexer

ListsFinite == \A list \in Lists : \A v : IsFiniteSet(RowsOf(list, v))

LEMMA ListsAreFinite == TablesTyped => ListsFinite
BY RowsFinite DEF ListsFinite

LEMMA ListsStayFinite == TablesTyped' => ListsFinite'
BY ListsAreFinite, PTL

LEMMA RowsGrow ==
    ASSUME TablesTyped, TablesTyped', Grown, NEW list \in Growing, NEW v
    PROVE  /\ RowsOf(list, v) \subseteq RowsOf(list, v)'
           /\ Cardinality(RowsOf(list, v)) <= Cardinality(RowsOf(list, v)')
           /\ Cardinality(RowsOf(list, v)) \in Nat /\ Cardinality(RowsOf(list, v)') \in Nat
<1>1. /\ RowsOf("epochRewards", v)' = {e \in DOMAIN epochs' : v \in epochs'[e].nodes}
      /\ RowsOf("delegatorRewards", v)' = rewards'
      /\ RowsOf("stakeTransactions", v)' = Range(stakes')
      /\ RowsOf("names", v)' = {n \in Names : rows'[n] # NoRow}
  BY Zenon DEF RowsOf
<1>2. RowsOf(list, v) \subseteq RowsOf(list, v)'
  <2>1. CASE list = "epochRewards"
    BY <1>1, <2>1, RowsOfLists DEF Grown
  <2>2. CASE list = "delegatorRewards"
    BY <1>1, <2>2, RowsOfLists DEF Grown
  <2>3. CASE list = "stakeTransactions"
    BY <1>1, <2>3, RowsOfLists DEF Grown
  <2>4. CASE list = "names"
    BY <1>1, <2>4, RowsOfLists DEF Grown
  <2> QED BY <2>1, <2>2, <2>3, <2>4 DEF Growing, Lists
<1>3. IsFiniteSet(RowsOf(list, v))
  BY RowsFinite DEF Growing
<1>4. IsFiniteSet(RowsOf(list, v)')
  BY ListsStayFinite DEF Growing, ListsFinite
<1> QED BY <1>2, <1>3, <1>4, FS_Subset, FS_CardinalityType

-----------------------------------------------------------------------------
(* Reward statistics.                                                      *)

LEMMA WindowFinite ==
    ASSUME TablesTyped, NEW from, NEW to
    PROVE  /\ IsFiniteSet(EndedWithin(from, to)) /\ Cardinality(EndedWithin(from, to)) \in Nat
<1>1. IsFiniteSet(1 .. Len(epochs)) /\ DOMAIN epochs = 1 .. Len(epochs)
  BY EpochsFinite
<1>2. EndedWithin(from, to) \subseteq 1 .. Len(epochs)
  BY <1>1 DEF EndedWithin
<1> QED BY <1>1, <1>2, FS_Subset, FS_CardinalityType

EndedSince == EndedWithin(request.since, Len(chain) + 1)

(* An epoch that has ended stays in its window.                            *)
LEMMA WindowGrows ==
    ASSUME TablesTyped, TablesTyped', Grown, UNCHANGED request
    PROVE  /\ Cardinality(EndedSince) \in Nat /\ Cardinality(EndedSince') \in Nat
           /\ Cardinality(EndedSince) <= Cardinality(EndedSince')
<1>1. IsFiniteSet(1 .. Len(epochs')) /\ DOMAIN epochs' = 1 .. Len(epochs')
  <2>1. epochs' \in Seq(EpochRow')
    BY DEF TablesTyped
  <2>2. Len(epochs') \in Nat /\ DOMAIN epochs' = 1 .. Len(epochs')
    BY <2>1
  <2> QED BY <2>2, FS_Interval
<1>2. EndedSince' \subseteq 1 .. Len(epochs')
  BY <1>1 DEF EndedSince, EndedWithin
<1>3. IsFiniteSet(EndedSince')
  BY <1>1, <1>2, FS_Subset
<1>4. EndedSince \subseteq EndedSince'
  BY DEF EndedSince, EndedWithin, Grown
<1> QED BY <1>3, <1>4, FS_Subset, FS_CardinalityType

LEMMA StatsKept ==
    ASSUME StatsCounted, TablesTyped, TablesTyped', Grown, UNCHANGED request
    PROVE  StatsCounted'
<1> SUFFICES ASSUME request.kind = "stats" PROVE StatsCounted'
  BY DEF StatsCounted
<1> DEFINE got == request.got
<1>1. /\ DOMAIN request = {"kind", "validator", "since", "before", "got"}
      /\ DOMAIN got \in {{}, {"active"}, {"active", "total"}, {"active", "total", "previous"}}
      /\ "active" \in DOMAIN got => got["active"] \in Nat /\ got["active"] <= Cardinality(EndedSince)
      /\ "total" \in DOMAIN got => got["total"] \in Nat /\ got["active"] <= got["total"]
  BY DEF StatsCounted, EndedSince
<1>2. "active" \in DOMAIN got => got["active"] <= Cardinality(EndedSince')
  BY <1>1, WindowGrows
<1>3. EndedSince' = EndedWithin(request.since, Len(chain) + 1)'
  BY DEF EndedSince
<1> QED BY <1>1, <1>2, <1>3 DEF StatsCounted

LEMMA StatsQueried ==
    ASSUME TablesTyped, StatsCounted, StatsQuery
    PROVE  StatsCounted' /\ request'.kind = "stats"
<1> DEFINE got == request.got
           served == Served(EndedSince)
<1>1. request.kind = "stats" /\ UNCHANGED <<namesVars, tables>>
  BY DEF StatsQuery, NextQuery
<1>2. /\ DOMAIN request = {"kind", "validator", "since", "before", "got"}
      /\ DOMAIN got \in {{}, {"active"}, {"active", "total"}, {"active", "total", "previous"}}
      /\ "active" \in DOMAIN got => got["active"] \in Nat /\ got["active"] <= Cardinality(EndedSince)
      /\ "total" \in DOMAIN got => got["total"] \in Nat /\ got["active"] <= got["total"]
  BY <1>1 DEF StatsCounted, EndedSince
<1>3. UNCHANGED <<chain, epochs>>
  BY <1>1 DEF namesVars, tables
<1>4. IsFiniteSet(EndedSince) /\ Cardinality(EndedSince) \in Nat
  BY WindowFinite DEF EndedSince
<1>5. Cardinality(served) \in Nat /\ Cardinality(served) <= Cardinality(EndedSince)
  <2>1. served \subseteq EndedSince
    BY DEF Served
  <2> QED BY <1>4, <2>1, FS_Subset, FS_CardinalityType
<1>6. ASSUME NEW query, NEW x, Returned(query, x)
      PROVE  /\ DOMAIN request' = DOMAIN request /\ request'.kind = "stats"
             /\ request'.since = request.since
             /\ request'.got = [q \in DOMAIN got \cup {query} |-> IF q = query THEN x ELSE got[q]]
  BY <1>1, <1>2, <1>6 DEF Returned
<1>7. ASSUME request'.since = request.since
      PROVE  EndedWithin(request.since, Len(chain) + 1)' = EndedSince
  BY <1>3, <1>7 DEF EndedSince, EndedWithin
<1> DEFINE n == Cardinality(DOMAIN got)
<1>8. /\ DOMAIN got = {} => n = 0
      /\ DOMAIN got = {"active"} => n = 1
      /\ DOMAIN got = {"active", "total"} => n = 2
      /\ DOMAIN got = {"active", "total", "previous"} => n = 3
  BY Sizes
<1> HIDE DEF n, served, got
<1>9. CASE NextQuery("stats", StatsQueries, "active") /\ Returned("active", Cardinality(served))
  <2>1. DOMAIN got = {}
    BY <1>2, <1>8, <1>9 DEF NextQuery, StatsQueries, n, got
  <2>2. request'.got = [q \in {"active"} |-> Cardinality(served)]
    BY <1>6, <1>9, <2>1
  <2>3. DOMAIN request'.got = {"active"} /\ request'.got["active"] = Cardinality(served)
    BY <2>2
  <2> QED BY <1>2, <1>5, <1>6, <1>7, <1>9, <2>3 DEF StatsCounted
<1>10. CASE NextQuery("stats", StatsQueries, "total") /\ Returned("total", Cardinality(EndedSince))
  <2>1. DOMAIN got = {"active"}
    BY <1>2, <1>8, <1>10 DEF NextQuery, StatsQueries, n, got
  <2>2. request'.got = [q \in {"active", "total"} |->
          IF q = "total" THEN Cardinality(EndedSince) ELSE got[q]]
    BY <1>6, <1>10, <2>1
  <2>3. /\ DOMAIN request'.got = {"active", "total"}
        /\ request'.got["active"] = got["active"] /\ request'.got["total"] = Cardinality(EndedSince)
    BY <2>2
  <2> QED BY <1>2, <1>4, <1>6, <1>7, <1>10, <2>1, <2>3 DEF StatsCounted
<1>11. CASE \E x : NextQuery("stats", StatsQueries, "previous") /\ Returned("previous", x)
  <2>1. PICK x : NextQuery("stats", StatsQueries, "previous") /\ Returned("previous", x)
    BY <1>11
  <2>2. DOMAIN got = {"active", "total"}
    BY <1>2, <1>8, <2>1 DEF NextQuery, StatsQueries, n, got
  <2>3. request'.got = [q \in {"active", "total", "previous"} |->
          IF q = "previous" THEN x ELSE got[q]]
    BY <1>6, <2>1, <2>2
  <2>4. /\ DOMAIN request'.got = {"active", "total", "previous"}
        /\ request'.got["active"] = got["active"] /\ request'.got["total"] = got["total"]
    BY <2>3
  <2> QED BY <1>2, <1>6, <1>7, <2>1, <2>2, <2>4 DEF StatsCounted
<1> QED BY <1>9, <1>10, <1>11, <1>6 DEF StatsQuery, EndedSince, served

LEMMA UptimeAnswered ==
    ASSUME StatsCounted
    PROVE  UptimeWithinOne
<1> SUFFICES ASSUME Answered("stats", StatsQueries)
             PROVE  Stats.active <= Stats.total /\ Stats.uptime <= 100
  BY DEF UptimeWithinOne
<1> DEFINE got == request.got
<1>1. request.kind = "stats" /\ DOMAIN got = Range(StatsQueries)
  BY DEF Answered
<1>2. Range(StatsQueries) = {"active", "total", "previous"}
  BY DEF StatsQueries, Range
<1>3. got["active"] \in Nat /\ got["total"] \in Nat /\ got["active"] <= got["total"]
  BY <1>1, <1>2 DEF StatsCounted
<1>4. got["total"] > 0 => (100 * got["active"]) \div got["total"] <= 100
  BY <1>3, PercentBounded
<1>5. /\ Stats.active = got["active"] /\ Stats.total = got["total"]
      /\ Stats.uptime = IF got["total"] > 0 THEN (100 * got["active"]) \div got["total"] ELSE 0
  BY DEF Stats
<1> QED BY <1>3, <1>4, <1>5

-----------------------------------------------------------------------------
(* Pages.                                                                  *)

LEMMA RowsThatComeFirst ==
    ASSUME NEW list, NEW all, IsFiniteSet(all), NEW k \in Nat, NEW first \in FirstRows(list, all, k)
    PROVE  /\ first \subseteq all /\ IsFiniteSet(first) /\ Cardinality(all) \in Nat
           /\ Cardinality(first) = IF k <= Cardinality(all) THEN k ELSE Cardinality(all)
           /\ \A r \in first, q \in all : Precedes(list, q, r) => q \in first
<1>1. Cardinality(all) \in Nat
  BY FS_CardinalityType
<1>2. Min({k, Cardinality(all)}) = IF k <= Cardinality(all) THEN k ELSE Cardinality(all)
  BY <1>1, Smaller
<1>3. /\ first \in kSubset(Min({k, Cardinality(all)}), all)
      /\ \A r \in first, q \in all : Precedes(list, q, r) => q \in first
  BY DEF FirstRows
<1>4. first \subseteq all /\ Cardinality(first) = Min({k, Cardinality(all)})
  BY <1>3 DEF kSubset
<1> QED BY <1>1, <1>2, <1>3, <1>4, FS_Subset

(* A full page, or the last one: all that its count promised are on it.    *)
LEMMA PageSizes ==
    ASSUME NEW list, NEW all, IsFiniteSet(all), NEW k \in Nat,
           NEW before \in FirstRows(list, all, k), NEW upto \in FirstRows(list, all, k + PageSize),
           before \subseteq upto
    PROVE  LET n == Cardinality(all)
               size == Cardinality(upto \ before)
           IN  /\ n \in Nat /\ size \in Nat
               /\ k + PageSize <= n => size = PageSize
               /\ k <= n /\ n < k + PageSize => size = n - k
               /\ n < k => size = 0
<1>1. PageSize \in Nat \ {0}
  BY ReadsShape
<1> DEFINE n == Cardinality(all)
<1>2. /\ IsFiniteSet(before) /\ Cardinality(before) = IF k <= n THEN k ELSE n
      /\ n \in Nat
  BY RowsThatComeFirst
<1>3. IsFiniteSet(upto) /\ Cardinality(upto) = IF k + PageSize <= n THEN k + PageSize ELSE n
  <2>1. k + PageSize \in Nat
    BY <1>1
  <2> QED BY <2>1, RowsThatComeFirst
<1>4. upto \cap before = before
  OBVIOUS
<1>5. Cardinality(upto \ before) = Cardinality(upto) - Cardinality(before)
  <2>1. Cardinality(upto \ before) = Cardinality(upto) - Cardinality(upto \cap before)
    BY <1>3, FS_Difference
  <2> QED BY <1>4, <2>1
<1> HIDE DEF n
<1>6. DEFINE size == Cardinality(upto \ before)
<1> HIDE DEF size
<1>7. size = (IF k + PageSize <= n THEN k + PageSize ELSE n) - (IF k <= n THEN k ELSE n)
  BY <1>2, <1>3, <1>5 DEF size
<1>8. /\ n \in Nat /\ size \in Nat
      /\ k + PageSize <= n => size = PageSize
      /\ k <= n /\ n < k + PageSize => size = n - k
      /\ n < k => size = 0
  BY <1>1, <1>2, <1>7
<1> QED BY <1>8 DEF n, size

(* A row with k rows ahead of it is on the page that begins at k, or has a *)
(* page of rows ahead of it more.                                          *)
LEMMA PageOrLater ==
    ASSUME TablesTyped, NEW list \in Sorted, NEW v, NEW k \in Nat,
           NEW before \in FirstRows(list, RowsOf(list, v), k),
           NEW upto \in FirstRows(list, RowsOf(list, v), k + PageSize), before \subseteq upto,
           NEW r \in RowsOf(list, v), Cardinality(Ahead(list, RowsOf(list, v), r)) >= k
    PROVE  \/ r \in upto \ before
           \/ /\ Cardinality(upto \ before) = PageSize
              /\ Cardinality(Ahead(list, RowsOf(list, v), r)) >= k + PageSize
<1> DEFINE all == RowsOf(list, v)
           n == Cardinality(all)
           ahead == Ahead(list, all, r)
<1>1. PageSize \in Nat \ {0} /\ IsFiniteSet(all)
  BY ReadsShape, RowsFinite DEF Sorted, Lists
<1>2. ahead \subseteq all /\ r \notin ahead
  BY SortedRows DEF Ahead
<1>3. IsFiniteSet(ahead) /\ Cardinality(ahead) \in Nat /\ n \in Nat
  BY <1>1, <1>2, FS_Subset, FS_CardinalityType
<1>4. r \notin before
  <2> SUFFICES ASSUME r \in before PROVE FALSE
    OBVIOUS
  <2>1. /\ IsFiniteSet(before) /\ Cardinality(before) = IF k <= n THEN k ELSE n
        /\ \A p \in before, q \in all : Precedes(list, q, p) => q \in before
    BY <1>1, RowsThatComeFirst
  <2>2. /\ IsFiniteSet(before) /\ Cardinality(before) <= k /\ Cardinality(before) \in Nat
        /\ ahead \subseteq before
    <3>1. ahead \subseteq before
      BY <2>1 DEF Ahead
    <3> HIDE DEF n
    <3> QED BY <1>3, <2>1, <3>1
  <2>3. ahead \cup {r} \subseteq before
    BY <2>2
  <2>4. Cardinality(ahead \cup {r}) = Cardinality(ahead) + 1
    BY <1>2, <1>3, FS_AddElement
  <2>5. Cardinality(ahead \cup {r}) <= Cardinality(before)
    BY <2>2, <2>3, FS_Subset
  <2> QED BY <1>3, <2>2, <2>4, <2>5
<1>5. CASE r \in upto
  BY <1>4, <1>5
<1>6. CASE r \notin upto
  <2>1. /\ IsFiniteSet(upto) /\ upto \subseteq all
        /\ Cardinality(upto) = IF k + PageSize <= n THEN k + PageSize ELSE n
        /\ \A p \in upto, q \in all : Precedes(list, q, p) => q \in upto
    BY <1>1, RowsThatComeFirst
  <2>2. upto \subseteq ahead
    <3> SUFFICES ASSUME NEW q \in upto PROVE Precedes(list, q, r)
      BY <2>1 DEF Ahead
    <3>1. ~Precedes(list, r, q) /\ q # r /\ q \in all
      BY <1>6, <2>1
    <3> QED BY <3>1, SortedRows
  <2>3. Cardinality(upto) <= Cardinality(ahead)
    BY <1>3, <2>2, FS_Subset
  <2>4. Cardinality(upto) < n
    <3>1. Cardinality(upto) <= n /\ (Cardinality(upto) = n => upto = all)
      BY <1>1, <2>1, FS_Subset
    <3>2. Cardinality(upto) # n
      BY <1>6, <3>1
    <3>3. Cardinality(upto) \in Nat
      BY <2>1, FS_CardinalityType
    <3> HIDE DEF n
    <3> QED BY <1>3, <3>1, <3>2, <3>3
  <2>5. k + PageSize <= n /\ Cardinality(upto) = k + PageSize
    BY <1>1, <1>3, <2>1, <2>4
  <2>6. Cardinality(upto \ before) = PageSize
    BY <1>1, <2>5, PageSizes
  <2> QED BY <1>1, <1>3, <2>3, <2>5, <2>6
<1> QED BY <1>5, <1>6

(* Which rows come first does not depend on the tables.                    *)
LEMMA SameOrder ==
    ASSUME NEW list \in Sorted, NEW q, NEW r
    PROVE  Precedes(list, q, r)' <=> Precedes(list, q, r)
<1>1. /\ Precedes("epochRewards", q, r)' <=> q > r
      /\ Precedes("stakeTransactions", q, r)' <=>
           q.block < r.block \/ (q.block = r.block /\ q.id < r.id)
      /\ Precedes("ownedNames", q, r)' <=> Rank[q] < Rank[r]
  BY Zenon DEF Precedes
<1> QED BY <1>1, PrecedesLists DEF Sorted

LEMMA PagesKept ==
    ASSUME PagesRead, TablesTyped, TablesTyped', Grown, UNCHANGED request
    PROVE  PagesRead'
<1> SUFFICES ASSUME request.kind \in Lists PROVE PagesRead'
  BY DEF PagesRead
<1> DEFINE list == request.kind
           v == request.validator
           now == RowsOf(list, v)
<1>1. /\ DOMAIN request = PageFields
      /\ request.offset \in Nat \cup {-1} /\ request.total \in Nat \cup {-1}
      /\ list \in Growing =>
            /\ request.before \subseteq now /\ request.total <= Cardinality(now)
            /\ request.stayed /\ request.kept
      /\ list \in Sorted /\ request.stayed => StillToCome
  BY DEF PagesRead
<1>2. now' = RowsOf(list, v)'
  OBVIOUS
<1>3. list \in Growing =>
        /\ now \subseteq now' /\ Cardinality(now) <= Cardinality(now')
        /\ Cardinality(now) \in Nat /\ Cardinality(now') \in Nat
  <2> SUFFICES ASSUME list \in Growing
               PROVE  /\ now \subseteq now' /\ Cardinality(now) <= Cardinality(now')
                      /\ Cardinality(now) \in Nat /\ Cardinality(now') \in Nat
    OBVIOUS
  <2> QED BY RowsGrow
<1>4. list \in Growing => request.before \subseteq now' /\ request.total <= Cardinality(now')
  <2> HIDE DEF now
  <2> QED BY <1>1, <1>3
<1>5. list \in Sorted /\ StillToCome => StillToCome'
  <2> SUFFICES ASSUME list \in Sorted, StillToCome PROVE StillToCome'
    OBVIOUS
  <2>1. ASSUME NEW set, NEW r PROVE {q \in set : Precedes(list, q, r)'} = Ahead(list, set, r)
    BY SameOrder DEF Ahead
  <2>2. ASSUME NEW r
        PROVE  Ahead(request.kind, request.before, r)' = {q \in request.before : Precedes(list, q, r)'}
    BY DEF Ahead
  <2>3. ASSUME NEW r
        PROVE  Ahead(request.kind, request.before, r)' = Ahead(request.kind, request.before, r)
    BY <2>1, <2>2
  <2> QED BY <2>3 DEF StillToCome
<1> QED BY <1>1, <1>4, <1>5 DEF PagesRead

LEMMA SameRows ==
    ASSUME UNCHANGED <<namesVars, tables>>, NEW list \in Lists, NEW v
    PROVE  RowsOf(list, v)' = RowsOf(list, v)
<1>1. UNCHANGED <<rows, stakes, epochs, rewards>>
  BY DEF namesVars, nameTables, tables
<1>2. /\ RowsOf("epochRewards", v)' = {e \in DOMAIN epochs' : v \in epochs'[e].nodes}
      /\ RowsOf("delegatorRewards", v)' = rewards'
      /\ RowsOf("stakeTransactions", v)' = Range(stakes')
      /\ RowsOf("ownedNames", v)' = OwnedBy(v)'
      /\ RowsOf("names", v)' = {n \in Names : rows'[n] # NoRow}
  BY Zenon DEF RowsOf
<1>3. OwnedBy(v)' = OwnedBy(v)
  BY <1>1 DEF OwnedBy
<1> QED BY <1>1, <1>2, <1>3, RowsOfLists DEF Lists

LEMMA ListAsked ==
    ASSUME TablesTyped, NEW list \in Lists, NEW v, AskList(list, v)
    PROVE  PagesRead' /\ request'.kind \in Lists
<1> DEFINE all == RowsOf(list, v)
<1>1. request' = [kind |-> list, validator |-> v, offset |-> 0, total |-> -1,
                  begin |-> all, before |-> all, seen |-> {}, kept |-> TRUE, stayed |-> TRUE]
      /\ UNCHANGED <<namesVars, tables>>
  BY DEF AskList, Ask
<1>2. IsFiniteSet(all) /\ Cardinality(all) \in Nat
  BY RowsFinite, FS_CardinalityType
<1>3. RowsOf(list, v)' = all
  BY <1>1, SameRows
<1> HIDE DEF all
<1>4. /\ DOMAIN request' = PageFields /\ request'.kind = list /\ request'.validator = v
      /\ request'.offset = 0 /\ request'.total = -1 /\ request'.begin = all
      /\ request'.before = all /\ request'.kept /\ request'.stayed
  BY <1>1 DEF PageFields
<1>5. RowsOf(request.kind, request.validator)' = all
  BY <1>3, <1>4
<1>6. list \in Sorted => StillToCome'
  <2> SUFFICES ASSUME list \in Sorted, NEW r \in all
               PROVE  Cardinality({q \in all : Precedes(list, q, r)'}) >= 0
    BY <1>4 DEF StillToCome, Ahead
  <2>1. {q \in all : Precedes(list, q, r)'} \subseteq all
    OBVIOUS
  <2>2. Cardinality({q \in all : Precedes(list, q, r)'}) \in Nat
    BY <1>2, <2>1, FS_Subset, FS_CardinalityType
  <2> QED BY <2>2
<1>7. -1 <= Cardinality(all)
  BY <1>2
<1> QED BY <1>4, <1>5, <1>6, <1>7 DEF PagesRead

LEMMA RowsCounted ==
    ASSUME TablesTyped, PagesRead, CountRows
    PROVE  PagesRead' /\ request'.kind \in Lists
<1>1. PICK list, v : list = request.kind /\ v = request.validator
  OBVIOUS
<1> DEFINE now == RowsOf(list, v)
<1>2. /\ list \in Lists /\ request' = [request EXCEPT !.total = Cardinality(now)]
      /\ UNCHANGED <<namesVars, tables>>
  BY <1>1 DEF CountRows, Paging
<1>3. /\ DOMAIN request = PageFields
      /\ request.offset \in Nat \cup {-1}
      /\ list \in Growing => request.before \subseteq now /\ request.stayed /\ request.kept
      /\ list \in Sorted /\ request.stayed => StillToCome
  BY <1>1, <1>2 DEF PagesRead
<1>4. Cardinality(now) \in Nat
  BY <1>2, RowsFinite, FS_CardinalityType
<1>5. RowsOf(list, v)' = now
  BY <1>2, SameRows
<1> HIDE DEF now
<1>6. /\ DOMAIN request' = PageFields /\ request'.kind = list /\ request'.validator = v
      /\ request'.offset = request.offset
      /\ request'.total = Cardinality(now) /\ request'.begin = request.begin
      /\ request'.before = request.before /\ request'.seen = request.seen
      /\ request'.kept = request.kept /\ request'.stayed = request.stayed
  BY <1>1, <1>2, <1>3 DEF PageFields
<1>7. RowsOf(request.kind, request.validator)' = now
  BY <1>5, <1>6
<1>8. list \in Sorted /\ StillToCome => StillToCome'
  <2> SUFFICES ASSUME list \in Sorted, StillToCome PROVE StillToCome'
    OBVIOUS
  <2>1. ASSUME NEW r
        PROVE  Ahead(request.kind, request.before, r)' = Ahead(request.kind, request.before, r)
    BY <1>1, <1>6, SameOrder DEF Ahead
  <2> QED BY <1>6, <2>1 DEF StillToCome
<1> QED BY <1>2, <1>3, <1>4, <1>6, <1>7, <1>8 DEF PagesRead

LEMMA PageRead ==
    ASSUME TablesTyped, PagesRead, ReadPage
    PROVE  PagesRead' /\ request'.kind \in Lists
<1>1. PICK list, v : list = request.kind /\ v = request.validator
  OBVIOUS
<1> DEFINE all == RowsOf(list, v)
           k == request.offset
<1>2. PICK before \in FirstRows(list, all, k), upto \in FirstRows(list, all, k + PageSize) :
        /\ before \subseteq upto
        /\ request' = [request EXCEPT
             !.seen = request.seen \cup (upto \ before),
             !.offset = IF Cardinality(upto \ before) = PageSize THEN k + PageSize ELSE -1,
             !.total = -1,
             !.before = all,
             !.stayed = request.stayed /\ request.before \subseteq all,
             !.kept = /\ request.kept
                      /\ Cardinality(upto \ before) >= Min({PageSize, request.total - k})]
  <2>1. PICK before \in FirstRows(request.kind, RowsOf(request.kind, request.validator), request.offset),
             upto \in FirstRows(request.kind, RowsOf(request.kind, request.validator),
                               request.offset + PageSize) :
          /\ before \subseteq upto
          /\ request' = [request EXCEPT
               !.seen = request.seen \cup (upto \ before),
               !.offset = IF Cardinality(upto \ before) = PageSize
                          THEN request.offset + PageSize ELSE -1,
               !.total = -1,
               !.before = RowsOf(request.kind, request.validator),
               !.stayed = /\ request.stayed
                          /\ request.before \subseteq RowsOf(request.kind, request.validator),
               !.kept = /\ request.kept
                        /\ Cardinality(upto \ before) >= Min({PageSize, request.total - request.offset})]
    BY Zenon DEF ReadPage
  <2>2. /\ before \in FirstRows(list, all, k) /\ upto \in FirstRows(list, all, k + PageSize)
        /\ before \subseteq upto
        /\ request' = [request EXCEPT
             !.seen = request.seen \cup (upto \ before),
             !.offset = IF Cardinality(upto \ before) = PageSize THEN k + PageSize ELSE -1,
             !.total = -1,
             !.before = all,
             !.stayed = request.stayed /\ request.before \subseteq all,
             !.kept = /\ request.kept
                      /\ Cardinality(upto \ before) >= Min({PageSize, request.total - k})]
    BY <1>1, <2>1, Zenon
  <2> QED BY <2>2, Zenon
<1>3. /\ list \in Lists /\ k >= 0 /\ request.total # -1 /\ UNCHANGED <<namesVars, tables>>
  BY <1>1 DEF ReadPage, Paging
<1>4. /\ DOMAIN request = PageFields /\ k \in Nat /\ request.total \in Nat
      /\ list \in Growing =>
            /\ request.before \subseteq all /\ request.total <= Cardinality(all)
            /\ request.stayed /\ request.kept
      /\ list \in Sorted /\ request.stayed => StillToCome
  BY <1>1, <1>3 DEF PagesRead
<1>5. RowsOf(list, v)' = all
  BY <1>3, SameRows
<1>6. IsFiniteSet(all) /\ Cardinality(all) \in Nat /\ PageSize \in Nat \ {0}
  BY <1>3, RowsFinite, FS_CardinalityType, ReadsShape
<1> DEFINE page == upto \ before
           n == Cardinality(all)
<1>7. /\ Cardinality(page) \in Nat
      /\ k + PageSize <= n => Cardinality(page) = PageSize
      /\ k <= n /\ n < k + PageSize => Cardinality(page) = n - k
      /\ n < k => Cardinality(page) = 0
  BY <1>2, <1>4, <1>6, PageSizes
<1> HIDE DEF all, page, n
<1>8. /\ DOMAIN request' = PageFields /\ request'.kind = list /\ request'.validator = v
      /\ request'.begin = request.begin /\ request'.seen = request.seen \cup page
      /\ request'.offset = IF Cardinality(page) = PageSize THEN k + PageSize ELSE -1
      /\ request'.total = -1 /\ request'.before = all
      /\ request'.stayed <=> (request.stayed /\ request.before \subseteq all)
      /\ request'.kept <=> (request.kept /\ Cardinality(page) >= Min({PageSize, request.total - k}))
  BY <1>1, <1>2, <1>4 DEF PageFields, page
<1>9. request'.offset \in Nat \cup {-1} /\ request'.total \in Nat \cup {-1}
  BY <1>4, <1>6, <1>8
<1>10. list \in Growing => Cardinality(page) >= Min({PageSize, request.total - k})
  <2>1. Min({PageSize, request.total - k}) =
          IF PageSize <= request.total - k THEN PageSize ELSE request.total - k
    BY <1>4, <1>6, Smaller
  <2> QED BY <1>4, <1>6, <1>7, <2>1 DEF n
<1>11. list \in Sorted /\ request'.stayed => StillToCome'
  <2> SUFFICES ASSUME list \in Sorted, request.stayed, request.before \subseteq all,
                      NEW r \in request.begin \ request'.seen
               PROVE  /\ request'.offset \in Nat /\ r \in all
                      /\ Cardinality({q \in all : Precedes(list, q, r)'}) >= request'.offset
    BY <1>8 DEF StillToCome, Ahead
  <2>1. /\ r \notin page /\ r \in request.before
        /\ Cardinality(Ahead(list, request.before, r)) >= k
    BY <1>1, <1>4, <1>8 DEF StillToCome
  <2>2. r \in all
    BY <2>1
  <2>3. {q \in all : Precedes(list, q, r)'} = Ahead(list, all, r)
    BY SameOrder DEF Ahead
  <2>4. Cardinality(Ahead(list, all, r)) >= k
    <3>1. Ahead(list, request.before, r) \subseteq Ahead(list, all, r)
      BY DEF Ahead
    <3>2. Ahead(list, all, r) \subseteq all
      BY DEF Ahead
    <3>3. /\ Cardinality(Ahead(list, request.before, r)) <= Cardinality(Ahead(list, all, r))
          /\ Cardinality(Ahead(list, request.before, r)) \in Nat
          /\ Cardinality(Ahead(list, all, r)) \in Nat
      BY <1>6, <3>1, <3>2, FS_Subset, FS_CardinalityType
    <3> QED BY <1>4, <2>1, <3>3
  <2>5. Cardinality(page) = PageSize /\ Cardinality(Ahead(list, all, r)) >= k + PageSize
    BY <1>2, <1>4, <2>1, <2>2, <2>4, PageOrLater DEF all, page
  <2>6. request'.offset = k + PageSize
    BY <1>8, <2>5
  <2>7. request'.offset \in Nat
    BY <1>4, <1>6, <2>6
  <2>8. Cardinality({q \in all : Precedes(list, q, r)'}) >= request'.offset
    BY <2>3, <2>5, <2>6
  <2> QED BY <2>2, <2>7, <2>8
<1>12. RowsOf(request.kind, request.validator)' = all
  BY <1>5, <1>8
<1>13. list \in Growing =>
        /\ request'.before \subseteq all /\ request'.total <= Cardinality(all)
        /\ request'.stayed /\ request'.kept
  <2>1. -1 <= Cardinality(all)
    BY <1>6
  <2> QED BY <1>4, <1>8, <1>10, <2>1
<1> QED BY <1>3, <1>8, <1>9, <1>11, <1>12, <1>13 DEF PagesRead

-----------------------------------------------------------------------------
(* Histories of names.                                                     *)

LEMMA DirectoryNext ==
    ASSUME TablesTyped, Directory, Indexer
    PROVE  Directory'
<1>1. chain \in Chains /\ DOMAIN rows = Names
  BY DEF TablesTyped
<1>2. CASE InsertStakeTransaction
  BY <1>1, <1>2, DirectorySame DEF InsertStakeTransaction
<1>3. CASE Commit
  BY <1>1, <1>3, DirectoryCommits DEF Commit
<1>4. CASE BeginBlock \/ UpsertName \/ InsertNameEvent \/ BlockFails \/ Crash \/ RestartNames
  BY <1>1, <1>4, DirectoryBegins, DirectoryUpserts, DirectoryEnters, DirectoryAnew
<1> QED BY <1>2, <1>3, <1>4 DEF Indexer

(* No field of a row and no entry of the log is lost.                      *)
LEMMA DirectoryGrows ==
    ASSUME TablesTyped, Directory, Indexer
    PROVE  /\ chain' = chain /\ Range(log) \subseteq Range(log')
           /\ \A n \in Names : DOMAIN rows[n] \subseteq DOMAIN rows'[n]
<1>1. CASE UpsertName
  <2> DEFINE x == events[pos + 1]
  <2>1. rows' = [rows EXCEPT ![x.name] = Upserted(x)] /\ UNCHANGED <<chain, log>>
    BY <1>1 DEF UpsertName
  <2>2. DOMAIN rows[x.name] \subseteq DOMAIN Upserted(x)
    BY DEF Upserted
  <2> HIDE DEF x
  <2> QED BY <2>1, <2>2 DEF TablesTyped
<1>2. CASE InsertNameEvent
  <2>1. log' = Append(log, events[pos + 1]) /\ UNCHANGED <<chain, rows>>
    BY <1>2 DEF InsertNameEvent
  <2>2. log \in Seq(Events)
    BY DEF Directory, DirectoryTyped
  <2> DEFINE x == events[pos + 1]
  <2> HIDE DEF x
  <2>3. /\ Len(log) \in Nat /\ DOMAIN log = 1 .. Len(log) /\ DOMAIN Append(log, x) = 1 .. Len(log) + 1
        /\ \A i \in 1 .. Len(log) : Append(log, x)[i] = log[i]
    BY <2>2
  <2>4. Range(log) \subseteq Range(Append(log, x))
    BY <2>3 DEF Range
  <2> QED BY <2>1, <2>4 DEF x
<1>3. CASE UNCHANGED <<chain, rows, log>>
  BY <1>3
<1> QED BY <1>1, <1>2, <1>3
     DEF Indexer, InsertStakeTransaction, Commit, CommitBlock, BeginBlock, BlockFails, Crash,
         RestartNames, namesVars, nameTables

LEMMA HistoryKept ==
    ASSUME HistoryAsked, UNCHANGED request, chain' = chain, Range(log) \subseteq Range(log'),
           \A n \in Names : DOMAIN rows[n] \subseteq DOMAIN rows'[n]
    PROVE  HistoryAsked'
<1> SUFFICES ASSUME request.kind = "history" PROVE HistoryAsked'
  BY DEF HistoryAsked
<1>1. PICK n, got : n = request.name /\ got = request.got
  OBVIOUS
<1> DEFINE all == History(n, First, Len(chain))
<1>2. /\ DOMAIN request = {"kind", "name", "got"} /\ n \in Names
      /\ DOMAIN got \in {{}, {"row"}, {"row", "events"}} /\ "label" \in DOMAIN rows[n]
      /\ "row" \in DOMAIN got => RowLogged(got["row"], all, Range(log)) /\ "last" \in DOMAIN got["row"]
      /\ "events" \in DOMAIN got => RowLogged(got["row"], all, got["events"])
  BY <1>1 DEF HistoryAsked
<1>3. History(n, First, Len(chain))' = all
  BY DEF History, First
<1>4. "row" \in DOMAIN got => RowLogged(got["row"], all, Range(log'))
  BY <1>2 DEF RowLogged
<1>5. n = request'.name /\ got = request'.got
  BY <1>1
<1> HIDE DEF all
<1> QED BY <1>2, <1>3, <1>4, <1>5 DEF HistoryAsked

LEMMA HistorySizes ==
    Cardinality({}) = 0 /\ Cardinality({"row"}) = 1 /\ Cardinality({"row", "events"}) = 2
<1>1. IsFiniteSet({"row"}) /\ Cardinality({"row"}) = 1
  BY FS_Singleton
<1>2. Cardinality({"row"} \cup {"events"}) = 2
  BY <1>1, FS_AddElement
<1>3. {"row"} \cup {"events"} = {"row", "events"}
  OBVIOUS
<1> QED BY <1>1, <1>2, <1>3, FS_EmptySet

(* The row is read before the log: what it tells of is entered already.    *)
LEMMA HistoryQueried ==
    ASSUME Directory, HistoryAsked, HistoryQuery
    PROVE  HistoryAsked' /\ request'.kind = "history"
<1>1. PICK n, got : n = request.name /\ got = request.got
  OBVIOUS
<1> DEFINE all == History(n, First, Len(chain))
<1>2. request.kind = "history" /\ UNCHANGED <<chain, rows, log>>
  BY DEF HistoryQuery, NextQuery, namesVars, nameTables
<1>3. /\ DOMAIN request = {"kind", "name", "got"} /\ n \in Names
      /\ DOMAIN got \in {{}, {"row"}, {"row", "events"}} /\ "label" \in DOMAIN rows[n]
      /\ "row" \in DOMAIN got => RowLogged(got["row"], all, Range(log)) /\ "last" \in DOMAIN got["row"]
      /\ "events" \in DOMAIN got => RowLogged(got["row"], all, got["events"])
  BY <1>1, <1>2 DEF HistoryAsked
<1>4. History(n, First, Len(chain))' = all
  BY <1>2 DEF History, First
<1>5. ASSUME NEW query, NEW x, Returned(query, x)
      PROVE  /\ DOMAIN request' = {"kind", "name", "got"} /\ request'.kind = "history"
             /\ request'.name = n
             /\ request'.got = [q \in DOMAIN got \cup {query} |-> IF q = query THEN x ELSE got[q]]
  BY <1>1, <1>2, <1>3, <1>5 DEF Returned
<1>6. CASE NextQuery("history", HistoryQueries, "row") /\ Returned("row", rows[n])
  <2>1. DOMAIN got = {}
    BY <1>1, <1>3, <1>6, HistorySizes DEF NextQuery, HistoryQueries
  <2>2. RowLogged(rows[n], all, Range(log)) /\ "last" \in DOMAIN rows[n]
    BY <1>3 DEF Directory, RowRight, RowTold
  <2> HIDE DEF all
  <2>3. request'.got = [q \in DOMAIN got \cup {"row"} |-> IF q = "row" THEN rows[n] ELSE got[q]]
    BY <1>5, <1>6
  <2>4. DOMAIN request'.got = {"row"} /\ request'.got["row"] = rows[n]
    BY <2>1, <2>3
  <2> QED BY <1>2, <1>3, <1>4, <1>5, <1>6, <2>2, <2>4 DEF HistoryAsked
<1>7. CASE NextQuery("history", HistoryQueries, "events") /\ Returned("events", Timeline(n))
  <2>1. DOMAIN got = {"row"}
    BY <1>1, <1>3, <1>7, HistorySizes DEF NextQuery, HistoryQueries
  <2>2. \A e \in all : e \in Range(log) => e \in Timeline(n)
    BY DEF Timeline, History
  <2>3. RowLogged(got["row"], all, Timeline(n))
    BY <1>3, <2>1, <2>2 DEF RowLogged
  <2> HIDE DEF all
  <2>4. request'.got = [q \in {"row", "events"} |-> IF q = "events" THEN Timeline(n) ELSE got[q]]
    BY <1>5, <1>7, <2>1
  <2>5. /\ DOMAIN request'.got = {"row", "events"}
        /\ request'.got["row"] = got["row"] /\ request'.got["events"] = Timeline(n)
    BY <2>4
  <2> QED BY <1>2, <1>3, <1>4, <1>5, <1>7, <2>1, <2>3, <2>5 DEF HistoryAsked
<1> QED BY <1>1, <1>5, <1>6, <1>7 DEF HistoryQuery

LEMMA HistoryBegun ==
    ASSUME NEW n \in Names, AskHistory(n)
    PROVE  HistoryAsked' /\ request'.kind = "history"
<1>1. /\ "label" \in DOMAIN rows[n] /\ UNCHANGED <<chain, rows, log>>
      /\ request' = [kind |-> "history", name |-> n, got |-> NothingYet]
  BY DEF AskHistory, Ask, namesVars, nameTables
<1>2. /\ DOMAIN request' = {"kind", "name", "got"} /\ request'.kind = "history"
      /\ request'.name = n /\ DOMAIN request'.got = {}
  BY <1>1 DEF NothingYet
<1> QED BY <1>1, <1>2 DEF HistoryAsked

LEMMA HistoryAnswered ==
    ASSUME HistoryAsked
    PROVE  TimelineReachesRow
<1> SUFFICES ASSUME Answered("history", HistoryQueries),
                    NEW e \in History(request.name, First, Len(chain)),
                    Earlier(e, request.got["row"].last)
             PROVE  e \in request.got["events"]
  BY DEF TimelineReachesRow, Earlier
<1>1. request.kind = "history" /\ DOMAIN request.got = Range(HistoryQueries)
  BY DEF Answered
<1>2. HistoryQueries[1] = "row" /\ HistoryQueries[2] = "events" /\ DOMAIN HistoryQueries = {1, 2}
  BY DEF HistoryQueries
<1>3. "row" \in DOMAIN request.got /\ "events" \in DOMAIN request.got
  BY <1>1, <1>2 DEF Range
<1> QED BY <1>1, <1>3 DEF HistoryAsked, RowLogged

-----------------------------------------------------------------------------
(* Every step.                                                             *)

LEMMA TablesSame ==
    ASSUME TablesTyped, UNCHANGED <<namesVars, tables>>
    PROVE  TablesTyped' /\ Grown
<1>1. UNCHANGED <<chain, at, faults, pc, rows, stakes, epochs, rewards>>
  BY DEF namesVars, nameTables, tables
<1>2. EpochRow' = EpochRow
  BY <1>1 DEF EpochRow
<1> QED BY <1>1, <1>2 DEF TablesTyped, Grown, StakeRow

LEMMA InitReads == ReadsInit => Reading
<1> SUFFICES ASSUME ReadsInit PROVE Reading
  OBVIOUS
<1>1. request.kind = "none"
  BY DEF ReadsInit, NoRequest
<1>2. Directory
  BY DirectoryInit DEF ReadsInit
<1> QED BY <1>1, <1>2, TablesInit DEF Reading, HistoryAsked, StatsCounted, PagesRead, Lists

LEMMA IndexerReads ==
    ASSUME Reading, Indexer
    PROVE  Reading'
<1>1. UNCHANGED request
  BY DEF Indexer, InsertStakeTransaction, Commit
<1>2. TablesTyped' /\ Grown
  BY IndexerGrows DEF Reading
<1>3. StatsCounted' /\ PagesRead'
  BY <1>1, <1>2, StatsKept, PagesKept DEF Reading
<1>4. Directory' /\ HistoryAsked'
  BY <1>1, DirectoryNext, DirectoryGrows, HistoryKept DEF Reading
<1> QED BY <1>2, <1>3, <1>4 DEF Reading

LEMMA ReaderReads ==
    ASSUME Reading, Reader
    PROVE  Reading'
<1>1. UNCHANGED <<namesVars, tables>>
  BY DEF Reader, AskHistory, HistoryQuery, AskStats, StatsQuery, AskList, Ask, NextQuery,
         CountRows, ReadPage
<1>2. TablesTyped /\ TablesTyped' /\ Directory'
  BY <1>1, TablesSame, DirectorySame DEF Reading, TablesTyped
<1>3. CASE \E n \in Names : AskHistory(n)
  <2>1. HistoryAsked' /\ request'.kind = "history"
    BY <1>3, HistoryBegun
  <2> QED BY <1>2, <2>1 DEF Reading, StatsCounted, PagesRead, Lists
<1>4. CASE HistoryQuery
  <2>1. HistoryAsked' /\ request'.kind = "history"
    BY <1>4, HistoryQueried DEF Reading
  <2> QED BY <1>2, <2>1 DEF Reading, StatsCounted, PagesRead, Lists
<1>5. CASE \E v \in Validators, since, before \in 1 .. Len(chain) :
             before <= since /\ AskStats(v, since, before)
  <2>1. PICK v, since, before : AskStats(v, since, before)
    BY <1>5
  <2>2. /\ request'.kind = "stats"
        /\ DOMAIN request' = {"kind", "validator", "since", "before", "got"}
        /\ request'.got = NothingYet
    BY <2>1 DEF AskStats, Ask
  <2>3. DOMAIN request'.got = {}
    BY <2>2 DEF NothingYet
  <2> QED BY <1>2, <2>2, <2>3 DEF Reading, HistoryAsked, StatsCounted, PagesRead, Lists
<1>6. CASE StatsQuery
  <2>1. StatsCounted' /\ request'.kind = "stats"
    BY <1>6, StatsQueried DEF Reading
  <2> QED BY <1>2, <2>1 DEF Reading, HistoryAsked, PagesRead, Lists
<1>7. CASE \E list \in Lists : \E v \in IF list = "ownedNames" THEN Owners ELSE Validators : AskList(list, v)
  <2>1. PagesRead' /\ request'.kind \in Lists
    BY <1>2, <1>7, ListAsked
  <2> QED BY <1>2, <2>1 DEF Reading, HistoryAsked, StatsCounted, Lists
<1>8. CASE CountRows \/ ReadPage
  <2>1. PagesRead' /\ request'.kind \in Lists
    BY <1>8, RowsCounted, PageRead DEF Reading
  <2> QED BY <1>2, <2>1 DEF Reading, HistoryAsked, StatsCounted, Lists
<1> QED BY <1>3, <1>4, <1>5, <1>6, <1>7, <1>8 DEF Reader

(* The inductive invariant: what the tables are, what the statistics have  *)
(* counted and which rows of a list are still to come, at any moment of    *)
(* any request (controllers/rewards.ts, stakeTransactions.ts, names.ts).   *)
THEOREM ReadingAlways == ReadsSpec => []Reading
<1>1. ReadsInit => Reading
  BY InitReads
<1>2. ASSUME Reading, [ReadsNext]_readsVars PROVE Reading'
  <2>1. CASE Indexer
    BY <1>2, <2>1, IndexerReads
  <2>2. CASE Reader
    BY <1>2, <2>2, ReaderReads
  <2>3. CASE UNCHANGED readsVars
    <3>1. UNCHANGED <<namesVars, tables>> /\ UNCHANGED request
      BY <2>3 DEF readsVars
    <3>2. TablesTyped' /\ Grown
      BY <1>2, <3>1, TablesSame DEF Reading
    <3>3. StatsCounted' /\ PagesRead'
      BY <1>2, <3>1, <3>2, StatsKept, PagesKept DEF Reading
    <3>4. Directory'
      BY <1>2, <3>1, DirectorySame DEF Reading, TablesTyped
    <3>5. HistoryAsked'
      <4>1. UNCHANGED <<chain, rows, log, request>>
        BY <3>1 DEF namesVars, nameTables
      <4> QED BY <1>2, <4>1, HistoryKept DEF Reading
    <3> QED BY <3>2, <3>3, <3>4, <3>5 DEF Reading
  <2> QED BY <1>2, <2>1, <2>2, <2>3 DEF ReadsNext
<1> QED BY <1>1, <1>2, PTL DEF ReadsSpec

(* No validator is reported active in more epochs than ended, whatever is  *)
(* committed between the queries of the request (rewards.ts 261-333 and    *)
(* 399-500).                                                               *)
THEOREM UptimeAlwaysWithinOne == ReadsSpec => []UptimeWithinOne
<1>1. Reading => UptimeWithinOne
  BY UptimeAnswered DEF Reading
<1> QED BY <1>1, ReadingAlways, PTL

(* Who pages to the end has seen all rows of the start, and no page is     *)
(* shorter than its count promises, for any size of a page and any blocks  *)
(* that are imported meanwhile (rewards.ts 127-167, stakeTransactions.ts   *)
(* 71-103 and 139-171, names.ts 125-171).                                  *)
THEOREM PagesAlwaysMissNothing == ReadsSpec => []PagesMissNothing
<1>1. ASSUME Reading PROVE PagesMissNothing
  <2>1. CASE request.kind \in Lists
    <3>1. /\ request.kind \in Growing => request.stayed /\ request.kept
          /\ request.kind \in Sorted /\ request.stayed => StillToCome
      BY <1>1, <2>1 DEF Reading, PagesRead
    <3>2. ASSUME request.kind \in {"epochRewards", "stakeTransactions", "ownedNames"},
                 request.offset = -1, request.stayed, NEW r \in request.begin
          PROVE  r \in request.seen
      <4>1. StillToCome
        BY <3>1, <3>2 DEF Sorted
      <4>2. request.offset \notin Nat
        BY <3>2
      <4> QED BY <3>2, <4>1, <4>2 DEF StillToCome
    <3> QED BY <3>1, <3>2 DEF PagesMissNothing, Growing, Lists
  <2>2. CASE request.kind \notin Lists
    BY <2>2 DEF PagesMissNothing, Lists
  <2> QED BY <2>1, <2>2
<1> QED BY <1>1, ReadingAlways, PTL

(* However often blocks fail or are repeated and wherever the process      *)
(* dies: once every block that was begun is through, the row of each name  *)
(* is what the chain tells of it (contractManager.ts 391-585,              *)
(* database-persistent.ts 1075-1185).                                      *)
THEOREM RowsAlwaysTellChain == ReadsSpec => []RowsTellChain
<1>1. Reading => RowsTellChain
  BY RowsTold DEF Reading, TablesTyped
<1> QED BY <1>1, ReadingAlways, PTL

(* The timeline of a name lacks no event before the last that its row      *)
(* tells of, in the middle of whatever block it is asked for (names.ts     *)
(* 41-76, eventsVisitor.ts 549-748).                                       *)
THEOREM TimelineAlwaysReachesRow == ReadsSpec => []TimelineReachesRow
<1>1. Reading => TimelineReachesRow
  BY HistoryAnswered DEF Reading
<1> QED BY <1>1, ReadingAlways, PTL
=============================================================================
