------------------------------ MODULE ApiReads ------------------------------
(***************************************************************************)
(* The handlers of the REST API that answer from several queries           *)
(* (src/db/express/src/controllers/) while the indexer writes.  No handler *)
(* opens a transaction: each query sees the tables as they are when it     *)
(* runs.  Epochs and rewards appear with the commit of a block; names and  *)
(* stake transactions appear one statement at a time and stay when their   *)
(* block is rolled back.                                                   *)
(*                                                                         *)
(* One request is followed from any moment on: handlers only read and do   *)
(* not disturb each other.  Rewards are present or absent, their sums are  *)
(* left out; times are those of the blocks.                                *)
(***************************************************************************)
EXTENDS DmdNames, FiniteSetsExt

CONSTANTS
    Validators,
    Owners,      \* owners of names
    Rank,        \* place of each name in the alphabet
    PageSize     \* rows of a page

ASSUME ReadsShape ==
    /\ Rank \in [Names -> Int] /\ IsInjective(Rank) /\ PageSize \in Nat \ {0}
    /\ \A c \in Chains : \A b \in DOMAIN c : c[b].epoch \in Nat /\ IsFiniteSet(c[b].rewarded)

VARIABLES
    stakes,    \* stake_transactions in the order of their ids
    epochs,    \* posdao_epoch with posdao_epoch_node: nodes, end (0: not ended)
    rewards,   \* delegate_reward of one delegator: <<epoch, pool>>
    request    \* the request and what its queries have returned

tables == <<stakes, epochs, rewards>>
readsVars == <<namesVars, tables, request>>

NoRequest == [kind |-> "none"]

ReadsInit ==
    /\ NamesInit
    /\ stakes = <<>> /\ rewards = {}
    /\ epochs = <<[end |-> 0, nodes |-> chain[1].validators]>>
    /\ request = NoRequest

-----------------------------------------------------------------------------
(* The indexer.  Stake events come before naming events (getAllEvents).    *)

(* A row of stake_transactions: the event nr of the block, written by the  *)
(* attempt try; the other columns are those of the event.                  *)
StakeTransactionRow(nr) == [block |-> at, nr |-> nr, try |-> faults, id |-> Len(stakes) + 1]

InsertStakeTransaction ==
    /\ pc = "visit" /\ pos = 0
    /\ LET here == {i \in DOMAIN stakes : stakes[i].block = at /\ stakes[i].try = faults}
       IN  /\ Cardinality(here) < chain[at].stakes
           /\ stakes' = Append(stakes, StakeTransactionRow(Cardinality(here) + 1))
    /\ UNCHANGED <<namesVars, epochs, rewards, request>>

StakesVisited ==
    pc = "visit" => Cardinality({i \in DOMAIN stakes : stakes[i].block = at /\ stakes[i].try = faults})
        = chain[at].stakes

(* endStakingEpoch, updateValidatorReward, insertDelegateRewardsBulk,      *)
(* insertStakingEpoch, insertEpochNode; invisible until the commit.        *)
SwitchesEpoch(b) == chain[b].epoch > Len(epochs)

EpochSwitched(b) ==
    [e \in 1 .. chain[b].epoch |->
        IF e = Len(epochs) THEN [epochs[e] EXCEPT !.end = b - 1]
        ELSE IF e \in DOMAIN epochs THEN epochs[e]
        ELSE [end |-> 0, nodes |-> chain[b].validators]]

(* getDelegateRewards: a row for each delegator of a pool that was         *)
(* rewarded, whatever its share.                                           *)
DelegateRows(b) == {Len(epochs)} \X (chain[b].rewarded \cap chain[b].backed)

Commit ==
    /\ StakesVisited /\ CommitBlock
    /\ epochs' = IF SwitchesEpoch(at) THEN EpochSwitched(at) ELSE epochs
    /\ rewards' = IF SwitchesEpoch(at) THEN rewards \cup DelegateRows(at) ELSE rewards
    /\ UNCHANGED <<stakes, request>>

Indexer ==
    \/ InsertStakeTransaction \/ Commit
    \/ /\ \/ BeginBlock \/ (StakesVisited /\ UpsertName) \/ InsertNameEvent
          \/ BlockFails \/ Crash \/ RestartNames
       /\ UNCHANGED <<tables, request>>

-----------------------------------------------------------------------------
(* A handler runs its queries in turn and then answers.                    *)

NothingYet == [query \in {} |-> 0]

Ask(r) ==
    /\ request = NoRequest
    /\ request' = r
    /\ UNCHANGED <<namesVars, tables>>

Returned(query, x) ==
    LET got == request.got
    IN  request' = [request EXCEPT !.got =
            [q \in DOMAIN got \cup {query} |-> IF q = query THEN x ELSE got[q]]]

NextQuery(kind, queries, query) ==
    /\ request.kind = kind
    /\ Cardinality(DOMAIN request.got) < Len(queries)
    /\ query = queries[Cardinality(DOMAIN request.got) + 1]
    /\ UNCHANGED <<namesVars, tables>>

Answered(kind, queries) == request.kind = kind /\ DOMAIN request.got = Range(queries)

(* GET /name/:label/history.                                               *)

(* Mutant: the events are read before the row.                             *)
HistoryQueries_EventsFirst == <<"events", "row">>

HistoryQueries == <<"row", "events">>

AskHistory(n) == "label" \in DOMAIN rows[n] /\ 
    Ask([kind |-> "history", name |-> n, got |-> NothingYet])

(* Its rows; their order is left out.                                      *)
Timeline(n) == {e \in Range(log) : e.name = n}

HistoryQuery ==
    \/ /\ NextQuery("history", HistoryQueries, "row")
       /\ Returned("row", rows[request.name])
    \/ /\ NextQuery("history", HistoryQueries, "events")
       /\ Returned("events", Timeline(request.name))

(* GET /node/:address/reward-stats and POST /nodes/reward-stats, over      *)
(* windows that are fixed at the start.                                    *)

(* Mutant: the denominator is read first.                                  *)
StatsQueries_TotalFirst == <<"total", "active", "previous">>

StatsQueries == <<"active", "total", "previous">>

EndedWithin(from, to) ==
    {e \in DOMAIN epochs : from <= epochs[e].end /\ epochs[e].end < to /\ epochs[e].end # 0}

Served(es) == {e \in es : request.validator \in epochs[e].nodes}

AskStats(v, since, before) ==
    Ask([kind |-> "stats", validator |-> v, since |-> since, before |-> before, got |-> NothingYet])

StatsQuery ==
    LET window == EndedWithin(request.since, Len(chain) + 1)
    IN  \/ /\ NextQuery("stats", StatsQueries, "active")
           /\ Returned("active", Cardinality(Served(window)))
        \/ /\ NextQuery("stats", StatsQueries, "total")
           /\ Returned("total", Cardinality(window))
        \/ /\ NextQuery("stats", StatsQueries, "previous")
           /\ Returned("previous", Cardinality(Served(EndedWithin(request.before, request.since))))

(* The answer: previous is null when the earlier window has no epoch.      *)
Stats ==
    LET active == request.got["active"]
        total == request.got["total"]
    IN  [active |-> active, total |-> total,
         uptime |-> IF total > 0 THEN (100 * active) \div total ELSE 0,
         previous |-> IF request.got["previous"] > 0 THEN "a number" ELSE "null"]

-----------------------------------------------------------------------------
(* Lists in pages.  A page is two queries: how many rows there are, and    *)
(* the rows from its offset on.  The client asks for the next page until   *)
(* one comes back short.                                                   *)

Lists == {"epochRewards", "delegatorRewards", "stakeTransactions", "ownedNames", "names"}

OwnedBy(v) == {n \in Names : "owner" \in DOMAIN rows[n] /\ rows[n].owner = v}

RowsOf(list, v) ==
    CASE list = "epochRewards" -> {e \in DOMAIN epochs : v \in epochs[e].nodes}
      [] list = "delegatorRewards" -> rewards
      [] list = "stakeTransactions" -> Range(stakes)
      [] list = "ownedNames" -> OwnedBy(v)
      [] OTHER -> {n \in Names : rows[n] # NoRow}

Created(n) == IF "created" \in DOMAIN rows[n] THEN rows[n].created ELSE 0

(* Mutant: the rows of a block come in any order.                          *)
Precedes_BlockOnly(list, q, r) ==
    CASE list = "epochRewards" -> q > r
      [] list = "delegatorRewards" -> q[1] > r[1]
      [] list = "stakeTransactions" -> q.block < r.block
      [] list = "ownedNames" -> Rank[q] < Rank[r]
      [] OTHER -> Created(q) > Created(r)

(* ORDER BY.                                                               *)
Precedes(list, q, r) ==
    CASE list = "epochRewards" -> q > r
      [] list = "delegatorRewards" -> q[1] > r[1]
      [] list = "stakeTransactions" -> q.block < r.block \/ (q.block = r.block /\ q.id < r.id)
      [] list = "ownedNames" -> Rank[q] < Rank[r]
      [] OTHER -> Created(q) > Created(r)

(* The sets of k rows that may come first; rows that ORDER BY does not     *)
(* tell apart are in an order of the day.                                  *)
FirstRows(list, set, k) ==
    {first \in kSubset(Min({k, Cardinality(set)}), set) :
        \A r \in first, q \in set : Precedes(list, q, r) => q \in first}

AskList(list, v) ==
    Ask([kind |-> list, validator |-> v, offset |-> 0, total |-> -1,
         begin |-> RowsOf(list, v), before |-> RowsOf(list, v), seen |-> {},
         kept |-> TRUE, stayed |-> TRUE])

Paging == request.kind \in Lists /\ request.offset >= 0

CountRows ==
    /\ Paging /\ request.total = -1
    /\ request' = [request EXCEPT !.total = Cardinality(RowsOf(request.kind, request.validator))]
    /\ UNCHANGED <<namesVars, tables>>

(* History.  kept: no page was shorter than its count made expect.         *)
(* stayed: no row left the list from one page to the next.                 *)
ReadPage ==
    /\ Paging /\ request.total # -1
    /\ LET all == RowsOf(request.kind, request.validator)
       IN  \E before \in FirstRows(request.kind, all, request.offset),
              upto \in FirstRows(request.kind, all, request.offset + PageSize) :
              LET page == upto \ before
              IN  /\ before \subseteq upto
                  /\ request' = [request EXCEPT
                         !.seen = @ \cup page,
                         !.offset = IF Cardinality(page) = PageSize THEN @ + PageSize ELSE -1,
                         !.total = -1,
                         !.before = all,
                         !.stayed = @ /\ request.before \subseteq all,
                         !.kept = @ /\ Cardinality(page) >= Min({PageSize, request.total - request.offset})]
    /\ UNCHANGED <<namesVars, tables>>

Reader ==
    \/ \E n \in Names : AskHistory(n)
    \/ HistoryQuery
    \/ \E v \in Validators, since, before \in 1 .. Len(chain) :
           before <= since /\ AskStats(v, since, before)
    \/ StatsQuery
    \/ \E list \in Lists : \E v \in IF list = "ownedNames" THEN Owners ELSE Validators : AskList(list, v)
    \/ CountRows \/ ReadPage

ReadsNext == Indexer \/ Reader

ReadsSpec == ReadsInit /\ [][ReadsNext]_readsVars

-----------------------------------------------------------------------------
(* Properties.                                                             *)

(* The timeline of a name lacks none of the events that led to its row but *)
(* the last, although the row is written before its event and both stay    *)
(* when the block is rolled back (names.ts 41-76, eventsVisitor.ts 549).   *)
TimelineReachesRow ==
    Answered("history", HistoryQueries) =>
        LET last == request.got["row"].last
        IN  \A e \in History(request.name, First, Len(chain)) :
                e.block < last[1] \/ (e.block = last[1] /\ e.index < last[2])
                    => e \in request.got["events"]

(* A validator was never active in more epochs than there were: aep30 and  *)
(* uptime stay within 1 and 100 although epochs end between the queries    *)
(* (rewards.ts 261-333 and 399-500).                                       *)
UptimeWithinOne ==
    Answered("stats", StatsQueries) => Stats.active <= Stats.total /\ Stats.uptime <= 100

(* Who pages to the end through the rewards of a validator, the stake      *)
(* transactions or the names of an owner has seen every row that was there *)
(* at the start, also when blocks add rows before, between and after those *)
(* of earlier pages; of the names, unless one of the owner's was passed on *)
(* meanwhile.  And no page lacks a row that its count promises             *)
(* (rewards.ts 127-167, stakeTransactions.ts 71-103 and 139-171,           *)
(* names.ts 125-171).                                                      *)
PagesMissNothing ==
    /\ request.kind \in {"epochRewards", "stakeTransactions", "ownedNames"} /\ request.offset = -1 /\ request.stayed
           => request.begin \subseteq request.seen
    /\ request.kind \in {"epochRewards", "stakeTransactions"} => request.stayed
    /\ request.kind \in Lists \ {"ownedNames"} => request.kept
=============================================================================
