------------------------------- MODULE Rewards -------------------------------
(***************************************************************************)
(* The rewards of an epoch: what the contracts pay to the validators, what *)
(* the first block of the next epoch stores of it (runFillDb.ts,           *)
(* contractManager.ts), and what the API makes of the rows (rewards.ts).   *)
(*                                                                         *)
(* The indexer may be epochs behind the chain, fails and dies in the       *)
(* middle of the reads, and keeps a cache of percentages in memory.  Most  *)
(* reads name the block they mean; two of them ask the newest one.         *)
(***************************************************************************)
EXTENDS Integers, Sequences, FiniteSetsExt

CONSTANTS
    RewardPools,  \* the pools there are at the beginning
    Stakers,
    Own,          \* what the owner of a pool has staked in it
    MaxStake,     \* bound: stake of one staker in one pool
    MaxMoves,     \* bound: movements of stake
    MaxEpochs,    \* bound: epochs that end
    Payments,     \* [RewardPools -> Nat], what an epoch may pay its validators
    MinPercent,   \* [epoch -> 0 .. 100], validatorMinRewardPercent
    Gaps,         \* days between the ends of two epochs
    Window,       \* length of the windows, in days
    MaxFaults     \* bound: failures and deaths of the indexer

ASSUME RewardShape ==
    /\ {Own, MaxStake, MaxMoves, MaxEpochs, MaxFaults} \subseteq Nat
    /\ Payments \subseteq [RewardPools -> Nat]
    /\ MinPercent \in [0 .. MaxEpochs - 1 -> 0 .. 100]
    /\ Window \in Nat \ {0} /\ Gaps \subseteq Nat

VARIABLES
    stake,      \* [RewardPools -> [Stakers -> Nat]], newest block
    active,     \* the pools there are, newest block
    epoch,      \* the current epoch: its validators, and what was staked as it began
    past,       \* what the chain knows of the epochs that are over
    moves,
    today,      \* the current day
    db,         \* posdao_epoch_node and delegate_reward, as they are committed
    work,       \* as the transaction sees them
    stored,     \* number of epochs that are closed in the tables
    pc, todo,   \* where the process is, and the pools it has still to reward
    collected,  \* delegatedRewards
    percents,   \* cachedValidatorMinRewardPercent
    faults

chain == <<stake, active, epoch, past, moves, today>>
indexer == <<db, work, stored, pc, todo, collected, percents, faults>>
rewardVars == <<chain, indexer>>

Total(f, S) == MapThenSumSet(LAMBDA x : f[x], S)
TotalStake(p) == Own + Total(stake[p], Stakers)
Snapshot(V) == [p \in RewardPools |-> IF p \in V THEN TotalStake(p) ELSE 0]

(* A row of a validator before its epoch is over.                          *)
NewRow(e, p) ==
    [epoch |-> e, pool |-> p, computed |-> FALSE, owner |-> 0, total |-> 0,
     delegators |-> 0, staked |-> 0]

NewRows(e, S) == {NewRow(e, p) : p \in S}

RewardsInit ==
    /\ stake = [p \in RewardPools |-> [s \in Stakers |-> 0]]
    /\ active = RewardPools
    /\ \E V \in SUBSET RewardPools \ {{}} :
        /\ epoch = [validators |-> V, staked |-> Snapshot(V), grown |-> {}]
        /\ db = [nodes |-> NewRows(0, V), rewards |-> {}]
    /\ past = <<>> /\ moves = 0 /\ today = 0
    /\ work = db /\ stored = 0 /\ pc = "idle" /\ todo = {} /\ collected = {}
    /\ percents = [e \in {} |-> 0]
    /\ faults = 0

-----------------------------------------------------------------------------
(* The staking and reward contracts.                                       *)

MoveStake(p, s) ==
    \E x \in 0 .. MaxStake \ {stake[p][s]} :
        /\ moves < MaxMoves /\ p \in active
        /\ moves' = moves + 1
        /\ stake' = [stake EXCEPT ![p][s] = x]
        /\ epoch' = IF x > stake[p][s] THEN [epoch EXCEPT !.grown = @ \cup {p}] ELSE epoch
        /\ UNCHANGED <<active, past, today, indexer>>

(* The last block of an epoch and the first one of the next.  Days are     *)
(* counted from the end of the first epoch.                                *)
EndEpoch ==
    /\ Len(past) < MaxEpochs
    /\ \E paid \in Payments, days \in IF past = <<>> THEN {0} ELSE Gaps,
          gone \in SUBSET active, V \in SUBSET active \ {{}} :
        /\ Cardinality(gone) <= 1 /\ V \cap gone = {}
        /\ past' = Append(past,
               [validators |-> epoch.validators, staked |-> epoch.staked, grown |-> epoch.grown,
                pools |-> active \ gone, stakes |-> stake,
                paid |-> [p \in RewardPools |->
                            IF p \in epoch.validators THEN paid[p] ELSE 0],
                day |-> today + days])
        /\ epoch' = [validators |-> V, staked |-> Snapshot(V), grown |-> {}]
        /\ active' = active \ gone
        /\ today' = today + days
    /\ UNCHANGED <<stake, moves, indexer>>

-----------------------------------------------------------------------------
(* The first block of an epoch closes the one before it.                   *)

Closing == past[stored + 1]

(* Mutant: one percentage for all epochs.                                  *)
PercentKey_One(e) == 0

(* The cache is a map from epochs.                                         *)
PercentKey(e) == e

CachePercent ==
    LET k == PercentKey(stored) IN
    IF k \in DOMAIN percents THEN percents
    ELSE [e \in DOMAIN percents \cup {k} |-> IF e = k THEN MinPercent[stored] ELSE percents[e]]

BeginBlock ==
    /\ pc = "idle" /\ stored < Len(past)
    /\ pc' = "pools" /\ todo' = Closing.pools /\ collected' = {}
    /\ percents' = CachePercent
    /\ UNCHANGED <<chain, db, work, stored, faults>>

(* Mutant: what is staked when the block is imported.                      *)
PoolTotal_Newest(p) == TotalStake(p)

(* snapshotPoolTotalStakeAmount is asked of the newest block, by epoch.    *)
PoolTotal(p) == Closing.staked[p]

(* The shares of those who are delegators in the last block of the epoch,  *)
(* by what each has staked then.                                           *)
DelegateRewards(p, amount) ==
    {[epoch |-> stored, pool |-> p, staker |-> s,
      amount |-> IF PoolTotal(p) = 0 THEN 0
                 ELSE (amount * Closing.stakes[p][s]) \div PoolTotal(p)] :
        s \in {t \in Stakers : Closing.stakes[p][t] > 0}}

ValidatorReward(p) == (Closing.paid[p] * percents[PercentKey(stored)]) \div 100

Rewarded(r) ==
    [r EXCEPT !.computed = TRUE, !.owner = ValidatorReward(r.pool), !.total = Closing.paid[r.pool],
              !.delegators = Closing.paid[r.pool] - ValidatorReward(r.pool),
              !.staked = PoolTotal(r.pool)]

(* The update of a pool that was not a validator meets no row.             *)
RewardPool(p) ==
    /\ pc = "pools" /\ p \in todo
    /\ todo' = todo \ {p}
    /\ work' = [work EXCEPT !.nodes =
           {IF r.epoch = stored /\ r.pool = p THEN Rewarded(r) ELSE r : r \in @}]
    /\ collected' = IF Closing.paid[p] = 0 THEN collected
                    ELSE collected \cup DelegateRewards(p, Closing.paid[p] - ValidatorReward(p))
    /\ UNCHANGED <<chain, db, stored, pc, percents, faults>>

ValidatorsNow == IF stored + 1 < Len(past) THEN past[stored + 2].validators ELSE epoch.validators

(* The rewards in bulk, and the rows of the validators of the new epoch.   *)
OpenEpoch ==
    /\ pc = "pools" /\ todo = {}
    /\ pc' = "commit"
    /\ work' = [nodes   |-> work.nodes \cup NewRows(stored + 1, ValidatorsNow),
                rewards |-> work.rewards \cup collected]
    /\ UNCHANGED <<chain, db, stored, todo, collected, percents, faults>>

Commit ==
    /\ pc = "commit"
    /\ pc' = "idle" /\ db' = work /\ stored' = stored + 1
    /\ UNCHANGED <<chain, work, todo, collected, percents, faults>>

(* A failing statement or read rolls back; the cache stays, unless the     *)
(* process dies.                                                           *)
Fails ==
    /\ pc # "idle" /\ faults < MaxFaults
    /\ faults' = faults + 1
    /\ pc' = "idle" /\ work' = db /\ todo' = {} /\ collected' = {}
    /\ percents' \in {percents, [e \in {} |-> 0]}
    /\ UNCHANGED <<chain, db, stored>>

RewardsNext ==
    \/ \E p \in RewardPools, s \in Stakers : MoveStake(p, s)
    \/ EndEpoch
    \/ BeginBlock \/ (\E p \in RewardPools : RewardPool(p)) \/ OpenEpoch \/ Commit
    \/ Fails

-----------------------------------------------------------------------------
(* What the API answers, each request by one query.                        *)

Day(e) == past[e + 1].day
TotalOf(field, S) == MapThenSumSet(LAMBDA r : r[field], S)

(* Rows whose epoch has its last block.                                    *)
RowsOf(p) == {r \in db.nodes : r.pool = p /\ r.epoch < stored}
RowsIn(p, days) == {r \in RowsOf(p) : Day(r.epoch) \in days}
Newest(S) == CHOOSE r \in S : \A q \in S : q.epoch <= r.epoch

(* listValidatorDailyEpochRewards: the days first, then the window.        *)
LastSnapshot(p, d) ==
    LET S == {r \in RowsIn(p, {d}) : r.staked > 0} IN IF S = {} THEN 0 ELSE Newest(S).staked

RollingDays(d) == d - Window + 1 .. d

FilledSnapshot(p, d) ==
    LET D == {x \in RollingDays(d) : LastSnapshot(p, x) > 0}
    IN  IF D = {} THEN 0 ELSE LastSnapshot(p, Max(D))

DailySeries(p) ==
    [d \in {Day(r.epoch) : r \in RowsOf(p)} |->
        [total      |-> TotalOf("total", RowsIn(p, {d})),
         epochs     |-> Cardinality(RowsIn(p, {d})),
         delegators |->
             MapThenSumSet(LAMBDA x : TotalOf("delegators", RowsIn(p, {x})), RollingDays(d)),
         staked     |-> FilledSnapshot(p, d)]]

(* getValidatorRewardStats: the last window, and the one before it.        *)
ThisWindow == today - Window .. today
WindowBefore == today - 2 * Window .. today - Window - 1

Aggregate(S) ==
    [owner |-> TotalOf("owner", S), delegators |-> TotalOf("delegators", S),
     staked |-> TotalOf("staked", S), epochs |-> Cardinality(S)]

EpochsInWindow == Cardinality({e \in 0 .. stored - 1 : Day(e) \in ThisWindow})

ValidatorStats(p) ==
    [now |-> Aggregate(RowsIn(p, ThisWindow)), before |-> Aggregate(RowsIn(p, WindowBefore)),
     all |-> EpochsInWindow]

(* batchValidatorRewardStats: zeros, and over them the groups that this    *)
(* window has; without one, the window before is not told either.          *)
BatchValidatorStats(S) ==
    LET groups == {r.pool : r \in UNION {RowsIn(p, ThisWindow) : p \in S}}
        none == [now |-> Aggregate({}), before |-> Aggregate({}), all |-> EpochsInWindow]
    IN  [p \in S |-> IF p \in groups THEN ValidatorStats(p) ELSE none]

(* getDelegatorRewardStats, and the same for each of a list.               *)
StakerStats(s) ==
    LET S == {r \in db.rewards : r.staker = s /\ r.epoch < stored /\ Day(r.epoch) \in ThisWindow}
    IN  [total |-> TotalOf("amount", S), pools |-> Cardinality({r.pool : r \in S})]

BatchStakerStats(S) == [s \in S |-> StakerStats(s)]

-----------------------------------------------------------------------------
(* What an epoch should leave in the tables, from the contracts alone.     *)

Over == 0 .. stored - 1
Rewards(e, p) ==
    LET old == past[e + 1]
        owner == (old.paid[p] * MinPercent[e]) \div 100
    IN  [epoch |-> e, pool |-> p, computed |-> TRUE, owner |-> owner, total |-> old.paid[p],
         delegators |-> old.paid[p] - owner, staked |-> old.staked[p]]

Told(e, p) ==
    IF e < stored /\ p \in past[e + 1].pools THEN Rewards(e, p) ELSE NewRow(e, p)

EpochValidators(e) == IF e = Len(past) THEN epoch.validators ELSE past[e + 1].validators

(* Each validator of each epoch has its row; the rows of the epochs that   *)
(* are over have what was paid, in the shares of their own epoch.          *)
RowsTold ==
    db.nodes = UNION {{Told(e, p) : p \in EpochValidators(e)} : e \in 0 .. stored}

(* Whoever had stake in the end has one share.  If nobody added stake      *)
(* during the epoch, the part of the owner's own stake is left.            *)
SharesTold ==
    \A e \in Over, p \in RewardPools :
        LET R == {r \in db.rewards : r.epoch = e /\ r.pool = p}
            old == past[e + 1]
        IN  /\ {r.staker : r \in R} =
                  {s \in Stakers : p \in old.pools /\ old.paid[p] > 0 /\ old.stakes[p][s] > 0}
            /\ \A q, r \in R : q.staker = r.staker => q = r
            /\ p \notin old.grown =>
                  TotalOf("amount", R) * old.staked[p]
                      <= Rewards(e, p).delegators * (old.staked[p] - Own)

(* The series by days, against the epochs it stands for.                   *)
SeriesTold ==
    \A p \in RewardPools : \A d \in DOMAIN DailySeries(p) :
        LET E == {e \in Over : p \in EpochValidators(e) /\ Day(e) \in RollingDays(d)}
            paid == {e \in E : Told(e, p).staked > 0}
        IN  /\ DailySeries(p)[d].delegators = MapThenSumSet(LAMBDA e : Told(e, p).delegators, E)
            /\ DailySeries(p)[d].staked = IF paid = {} THEN 0 ELSE Told(Max(paid), p).staked
            /\ DailySeries(p)[d].epochs = Cardinality({e \in E : Day(e) = d})

(* The list answers as the single request does, if this window has rows;   *)
(* the stakers do not get more than the validators left to them.           *)
StatsTold ==
    /\ \A p \in RewardPools :
          BatchValidatorStats(RewardPools)[p] =
              IF ValidatorStats(p).now.epochs > 0 THEN ValidatorStats(p)
              ELSE [ValidatorStats(p) EXCEPT !.before = Aggregate({})]
    /\ (\A e \in Over : past[e + 1].grown = {}) =>
          MapThenSumSet(LAMBDA s : BatchStakerStats(Stakers)[s].total, Stakers)
              <= MapThenSumSet(LAMBDA p : ValidatorStats(p).now.delegators, RewardPools)

(* The rewards of every closed epoch are told as the contracts paid them,  *)
(* however far the chain has gone on, whatever failed between two reads    *)
(* and whichever percentages the process remembers; and the API sums them  *)
(* up in the windows it names (runFillDb.ts 311-394, rewards.ts).          *)
RewardsTold == RowsTold /\ SharesTold /\ SeriesTold /\ StatsTold
=============================================================================
