# A TLA+ model of diamond-dev-tools

Specifications, model-checking runs and proofs for the tools of the DMD Diamond
network in this repository. The centre of the code is the *block indexer*
(`src/src/db/runFillDb.ts`), a long-running process that imports the chain into
Postgres and must survive failures, restarts and lost answers. Beside it stand the
REST API that reads its tables, the manager and watchdog of local networks, and the
scripts that send transactions.

Run a check with `tlc -config IndexerMirror.cfg MCIndexer` and the proofs with
`tlapm IndexerProofs.tla`. `PROJECT.json` maps every definition to its source
lines, and lists the runs, the mutants, the findings, the hazards and the theorems.

## The system

| Component | Source | State | Operations | Modules |
|---|---|---|---|---|
| Block indexer | `db/runFillDb.ts` | current block, last epoch, known nodes, time of the last block; the tables | startup, bootstrap, one transaction per block, rewards of an epoch, retry, poll, stop | `Indexer`, `Bootstrap`, `Rewards` |
| Database manager | `db/database-persistent.ts` | pool, open transaction, retry counters; the tables with their keys | statements, transactions, reconnect | `DbConnection`; statements in the modules of their callers |
| Event processor | `eventProcessor.ts`, `contractManager.ts` | events of the block | fetch by kind, sort, visit | `StakeLedger`, `Indexer`, `DmdNames` |
| Event visitor, staking | `eventsVisitor.ts` | stake_history, ordered_withdrawal, stake_delegators, available_event, stake_transactions | one visitor per event kind | `StakeLedger`, `Indexer` |
| Event visitor, names | `eventsVisitor.ts` 549-748 | dmd_names, dmd_name_events | one visitor per event kind | `DmdNames` |
| Validator observer | `db/validatorObserver.ts` | remembered lists, round, epoch; validator records | initialize, updateValidators | `ValidatorObserver` |
| Bonus score processor | `db/bonusScoreProcessor.ts`, `bonusScoreReasonDetector.ts` | score cache; score history, reasons | init, registerNewNode, processBonusScore | `BonusScores` |
| REST API, limits and keys | `db/express/src/middleware`, `routes`, `utils/keygen.ts` | API keys, counters in Redis and in memory | authenticate, limit, manage keys | `RateLimiter` |
| REST API, reads | `db/express/src/controllers`, `models` | none of its own | requests of several queries, sums of rewards | `ApiReads`, `BonusScores`, `Rewards` |
| Node manager | `net/nodeManager.ts` | child processes, flags | start, stop, restart after a death | `NodeManager` |
| Watchdog | `watchdog.ts` | last block and epoch seen, validators | poll | `Watchdog` |
| Test scenarios | `localnet/tests`, `regression/testAvailabilityHandling.ts` | the command they are at | boot, checkpoint, stop, start, wait | `Localnet` |
| Transaction senders | `tools/FastTxSender.ts`, `tools/awaitTransactions.ts`, `continuousTransactionsSender.ts`, `tests/performanceTest.ts` | nonces, pool size, batches | sign, post, repeat, await | `TxPool`, `FastTxSender`, `ContinuousSender` |
| Staking scripts | `net/stakeOnValidators.ts`, `net/runAddOneValidatorEachEpoch.ts`, `awaitEpochSwitch.ts` | place in the lists, epoch at start | add a pool, wait for the epoch | `AddValidators` |
| Contract upgrade | `contracts/runUpgradeContracts.ts` | proxies to update, new addresses | compare, deploy, switch, initialise | `UpgradeContracts` |
| Remote networks, delta pot server, older database manager, reports | `remotenet`, `net/netDeltaPotServer.ts`, `db/database.ts`, `server`, `analysis` | files, hosts or one variable | shell, ssh, polling, output | not modelled |

How they interact. The indexer owns everything that is written: it reads blocks and
contract state over RPC, opens a transaction, inserts the header, the new nodes and the
epoch, lets the event processor visit the events, and calls the validator observer and
the bonus score processor, all inside that transaction. `DbManager.getDbContext` routes a
statement to the open transaction; some statements (stake_transactions, names, epoch
lookups) use the connection pool instead and are not part of it. The observer, the score
processor and the loop keep caches in memory that no rollback touches. The REST API and
the Grafana dashboards read the tables, one query after the other, without transactions;
before a handler stand the limiters, whose counters live in Redis or in memory, and the
authentication by API keys, which an operator changes from the command line. On a
developer's machine a script commands the node manager, which owns the processes of a
network and restarts them from their close events, while watchdogs poll the RPC node.
The senders share nothing but the node they send to.

What is hard: the process dies between two statements or between commit and the next
block; a statement fails and memory is ahead of the rolled-back rows; a failing statement
is swallowed while Postgres has aborted the transaction; the answer of a COMMIT is lost;
the poll for new blocks fails after the commit; events of a block are visited in another
order than they happened; a statement is repeated on a new connection while its
transaction belongs to the old one; a page is read while rows move; Redis fails between
two counters; a child process dies while it is being stopped; answers of one batch of
transactions meet the next; an epoch switches between two reads; a bootstrap ends between two of
its statements; the rewards of an epoch are read when the chain is epochs ahead. `PROJECT.json` lists
these hazards line by line.

What makes each component correct:

- indexer: the tables are always the image of a prefix of the chain; no block is skipped,
  repeated or half stored; every block is imported in the end, but for named states that cannot
  be left; nothing above the stop block; an import that begins in the middle of the chain has
  what its first block needs; the rewards of an epoch are those the contracts paid;
- database manager: a repeated statement never leaves a part of a block; the import
  outlives every outage that does not come at a moment after which its keys refuse the repetition;
- stake visitors: history rows, open orders and delegated totals agree with the contract
  at every block;
- validator observer: records do not overlap and tell who was pending and current;
- score processor: the rows of a pool tile the blocks, tell its scores and have a reason each;
- names: the directory converges to what the chain tells however often a block is repeated;
- API: a reader who pages to the end misses no row, and sees no uptime above 100 per cent;
  who is refused has asked more often than the limit without a pause of one window; a key in
  force is needed; sums of rewards by day and by window are those of the epochs in them;
- networks: a node runs at most once, comes back when it dies, and is silent while its
  directory is copied; epoch switches are noticed;
- senders and scripts: nonces are used once, batches end, the pool size covers what is
  pending, one pool is added per epoch, a proxy is switched once but for transactions that a run
  has abandoned.

## Modules

| Module | What it is |
|---|---|
| `Chain` | the chain as the indexer sees it: events, epochs, validators and pools of every block (constants, with their assumptions) |
| `ChainMirror` | abstract specification: the rows a database of the first `n` blocks holds, appearing one whole block at a time |
| `Indexer`, `MCIndexer`, `IndexerProofs` | the loop of `runFillDb`; a chain of seven blocks and three epochs; theorems about headers and epochs, and about the rows of all tables |
| `Bootstrap` | the start of an import in the middle of the chain, statement by statement |
| `Rewards` | the rewards of an epoch, from the contracts to the answers of the API |
| `Import`, `MCImport` | composes the last two: a behaviour is of one of them |
| `DbConnection`, `MCDbConnection`, `DbConnectionProofs` | retries and reconnection of the `DbManager` under the import |
| `StakeLedger`, `MCStakeLedger`, `StakeLedgerProofs` | the staking contract as a source of events, and the visitors with their rows; theorems about these rows |
| `ValidatorObserver`, `MCValidatorObserver`, `ValidatorObserverProofs` | the validator set contract, the observer's memory and records |
| `BonusScores`, `MCBonusScores`, `BonusScoresProofs` | scores on the chain, cache, rows and reasons, and the handlers that list them |
| `DmdNames` | visitors of the naming service, whose statements survive a rollback |
| `ApiReads`, `MCApiReads`, `ApiProofs` | extends `DmdNames` by the other tables the handlers read, and by one request; theorems about the whole API |
| `RateLimiter`, `MCRateLimiter`, `ApiProofs` | middleware, both stores of counters, keys and their operator |
| `NodeManager` | processes of a network; its own `Spec` lets any caller start and stop in any order |
| `Watchdog` | the polling loop |
| `Localnet`, `MCLocalnet`, `LocalnetProofs` | composes `NodeManager`, `Watchdog` and the scripts that use them; theorems about the node manager and its scripts |
| `TxPool` | what a sender sees of a node: pool, nonces, blocks (external) |
| `FastTxSender`, `ContinuousSender` | the two senders |
| `AddValidators` | the script that adds one pool each epoch |
| `UpgradeContracts` | the upgrade of the proxies |
| `Tools`, `MCTools`, `ToolsProofs` | composes the last four: one of the scripts runs against the node; theorems about each |

### Indexer

Committed tables are `db`, the tables as the open transaction sees them are `work`, and
`aborted` says that Postgres has aborted that transaction. `stakeTx` counts the rows of
stake_transactions, which are committed on their own. `cur`, `latest`, `lastEpoch`, `known`
and `before` are the variables `currentBlockNumber`, `latest_known_block`,
`lastInsertedPosdaoEpoch`, `knownNodes` and `blockBeforeTimestamp`; a time is represented by
the block it belongs to. `pc` follows the loop:

    down -> init -> loop -> header -> nodes -> epoch -> validators -> events -> observe
         -> commit -> poll -> loop ...            (done: regular exit; down: dead)

Each transaction step has a twin that fails and rolls back (`RollBack`): the transaction is
discarded and memory stays as it is, which is where the real failures come from. Rows that
repeat a key make the failing twin the only step, so that keys are guards. The faults are
`crash` (the process dies anywhere and is restarted), `fail` (an RPC or statement error in a
block), `poll` (an error while waiting for a block), `commitack` (stored, but the answer is
lost) and `swallow` (an error that `processBatch` catches). A run chooses which of them occur.
The observer and the score processor are one step here; all the model needs of them is that
they can fail, be refused or swallow. Stake history is counted per pool and block.
`MemoryAhead` names what a rollback may leave behind for good: a node that is known without a row,
or a block in hand that is stored already. Retrying one block for ever with such a memory is the only
way in which `ImportsOrExits` lets the import stop.

### DbConnection

Five statements are told apart, by how they are run and by what their repetition meets: the
`header` is ignored when it is there, a `node` that is in `known` is left out, an `epoch` has a
key, `stakeTx` is written beside the transaction, and a `movement` needs the node of its block and
is taken twice by its keys. The first three go through `executeWithRetry` (`Retried`), whose
`Context` is `getDbContext`, asked again by every attempt. The server goes down and comes back
between any two steps; a statement that meets a lost connection goes through `handle`, `dispose`
and `test` of `reconnect`. Two moments leave something behind: a COMMIT that was stored while its
answer is lost (`CommitAnswerLost`), after which the block is taken again, and a rollback that
keeps `known`. `Wedged` names the repetitions that are then refused until the process is restarted.
Whether `ConnectionPool.dispose` waits for connections in use is the library's business:
`disposeWaits` follows both, and `Hangs` names the state in which a statement inside a transaction
waits for a pool that waits for the transaction. The process ends when a read at its start fails,
or when it is `Killed`; docker compose starts it again (`Restart`).

### Bootstrap and Rewards

`Bootstrap` is `bootstrapAtBlock` with the test that calls it. Each statement is committed by
itself and may be the last one of a process: by a crash, or by a key (`EpochRowRefused`,
`EpochNodeRefused`), an error that nobody catches. The next process looks at the tables alone
(`NeedsBootstrap`), then begins at `DB_FILL_START_BLOCK` again, whatever is stored. An earlier
import may have filled the tables with the blocks below or above it. `seeded` and `missed` are
history: a process has bootstrapped, and what one that ended may have left undone for good. Of the
block loop only headers, epochs, nodes and validators are there.

`Rewards` follows an epoch's rewards. Its contracts are external: stakes move, epochs end and pay
their validators, pools disappear. The indexer may be epochs behind. The first block of the next
epoch takes the pools one by one (`RewardPool`) by reads that name the last block of the epoch;
the snapshot of a pool's stake is asked of the newest block, but for the epoch it names, and the
percentage comes from a cache that a rollback does not touch. The answers of the API are operators
over the committed rows: sums by day with their window, statistics of a window and of the one
before it, single and for a list. Payments divide without a rest, so that rounding, which the
contracts and the indexer do alike, is left out. The shares of the delegators use the stakes of the
epoch's last block over the total at its beginning; that they do not exceed what is to be shared
holds for pools whose stake did not grow in between (`grown`).

### StakeLedger

The staking contract is external and nondeterministic: any account may place, withdraw, move,
order and claim, and pools may be gathered, by one unit at a time. `emitted` holds the events of
the block in one list for each kind, as they are fetched; at the end of the block the lists are
joined as `getStakeUpdateEvents` joins them, and visited one by one. A visitor
is an operator from tables to the set of possible next tables; the empty set is a refusal by
a key, after which the block is retried for ever (`pc = "refused"`). `past` remembers what the
pools held at the end of every block, which is what stake_history claims to say.

`crossed` records the two ways in which visiting by kind differs from the order of the block:
an order after a claim of the same staker (`Claimed`) is merged with the claimed one and closed
with it; a withdrawal (`WithdrawsBeforeMove`) of stake that a move of the same block brought to a pool without a row starts the
history with a positive amount. The properties exclude just these blocks.

### ValidatorObserver

`chain` grows lazily by what the validator set contract can do: keep its state, select a
pending set, fail a key generation round and select again, or finish an epoch. The observer's
call is three steps (`ReadValidators` with the early return, `UpdatePending`,
`UpdateCurrent`), so that a failure can fall between them. `ahead` says that a rolled-back
block updated the memory, `lost` collects the blocks stored while it was so. A restart reads
the lists from the open records, in any order. Assumptions about the contract: key generation
rounds count from 1, and the current set changes only with the epoch.

### BonusScores

The cache `currentBonusScores` changes at once and survives a rollback; it is read from the
contract, not from the rows, when the process starts. The promises of a batch are settled in
any order. A failed read is swallowed; a failed statement is swallowed too and aborts the
transaction, so that COMMIT becomes a rollback without an error. `hidden` and `missed` record
which changes such a fault hid, and until which block: the property about the scores excludes
just them. The tables hold the rows of posdao_epoch, which a block writes with its transaction
(`WithEpoch`) and may refuse (`EpochRefused`), and a swallowed loss of an epoch's first block takes
for good. `EpochByBlock` looks among the committed ones, beside the transaction, finds the newest
that covers the block, or none, which becomes epoch 0, as a failing query does. A reason whose
INSERT fails (`ReasonStatementFails`) is swallowed as well and aborts the transaction. The two
handlers that list scores and reasons are operators over the committed tables.

### DmdNames and ApiReads

`DmdNames` follows the two statements of each visitor, which go past the transaction: a block
that fails leaves them, and its repetition, also the one that every restart at
`DB_FILL_START_BLOCK` makes, begins with the first event again. `ApiReads` adds the tables
that appear with the commit (epochs, rewards) and stake_transactions, which appear before it,
and follows one request, from any moment on, query by query. One request is enough: handlers
only read. The pages of a list are read offset by offset. What a block fetched is a set that is
then put in the order of the log indices, and the entries of a timeline are a set: in which order
an answer lists them is left out.

### RateLimiter

A request passes the middleware of its route in the order in which `app.use` and `router.use` line
it up: a throttle per address, the public limiter, authentication, and the minute and day limits
of the key. A key has the limits that were `given` when it was made; for the others it keeps the
default, and the limit by minute alone decides whether both are skipped (`Unlimited`). `redis` and `memory` hold the counters of both stores and the ticks they have left,
`connected` is the flag the code keeps about Redis, `reachable` what is true. `passes` and `run`
are the history the properties speak about: what a counter let pass within its last window, and
for how long somebody has asked without a pause; what is remembered of a request is named by its
place in that run. `inForce` collects for a request the keys that were enabled at any moment since
it came; the operator's commands of `keygen.ts` change them while a slow comparison of hashes is
under way.

### NodeManager, Watchdog, Localnet

A `NodeState` owns one child. That a process ends (`Dies`, `Terminates`) and that its `close`
event is handled (`Close`) are two steps, between which the script may act; `alive` counts the
processes. A watchdog's turn reads the block, then the epoch, remembers the epoch, and reads the
validators before it tells its listener (`told`), while the chain goes on; a failing read ends the
loop, also between the two. A script that waits for an epoch switch reads the epoch when the wait
begins and waits for another one; a wait that times out ends the script where the code throws. `Localnet` carries out a script, one command after the other: nine
scripts are written down from the scenarios, each on a network booted afresh, booted with a
checkpoint or restored from one. `StopTargets` is `stopAllNodes` as it is written: without
`force` its filter returns nothing and stops no node.

### TxPool, senders and scripts

A transaction is a sender, a nonce and an identity that stands for its hash in a block. The pool takes any
nonce that is not used up; blocks take the transactions of an account in order. In
`FastTxSender` requests are answered, refused, repeated after a pause nobody awaits, or lost,
in any order and across batches, since each batch has a sender of its own. The hash that the
signature computed may be another than that of the network; an answer replaces it by the hash the
node reports, or by none. `awaitTransactions` first looks at the list itself, and after its
first filter at a copy that later answers do not reach: `LookedFor` is what it looks for, `Mislaid`
says that some transaction will not be found under it. `ContinuousSender`
counts what it sent; turns overlap while they sign. `AddValidators` reads pools and epoch in
separate calls while other operators add pools and epochs switch; a pool without an address is
skipped, and a transfer or an addPool that fails ends the script. In `UpgradeContracts` code
is a body and a tail of 114 characters, as the comparison cuts it. Posting a transaction and its
mining are two steps, and a crash or a lost connection ends the run also between them; the next
run compares again while the abandoned transaction may be mined at any moment.

## Runs

| Run | Expect | Distinct states | Question |
|---|---|---|---|
| `IndexerMirror` | pass | 17,770 | Are the tables always a prefix of the chain, with crashes, failing blocks, failing polls and lost commit answers? Do they implement `ChainMirror`? Is every block imported, or the regular exit taken, but for the two named states? |
| `IndexerLoss` | pass | 39,563 | When swallowed errors lose whole blocks, are the durations of the rest and the stake ledger still right? |
| `IndexerStaleNodes` | violation | | A node known in memory but rolled back wedges the indexer. |
| `Import` | pass | 735,537 | Is an import that begins in the middle of the chain whole, whatever statement was the last one of a process? Are the rewards of an epoch told as they were paid? |
| `DbConnection` | pass | 29,141 | Is no block stored in part by repeated statements, and does the import outlive every outage unless the pool hangs or the block is wedged? |
| `StakeLedger` | pass | 357,498 | Do the rows follow the contract for every sequence of events? |
| `ValidatorObserver` | pass | 1,142,629 | Do the records tell who validated, through failures and restarts? |
| `BonusScores` | pass | 1,464,094 | Do the score rows tile the blocks, tell the scores and agree with the reasons and their epochs, through every fault? |
| `ApiReads` | pass | 290,870 | Does the directory of names converge, and what does a request see that is answered while blocks are imported, fail and repeat? |
| `RateLimiter` | pass | 1,755,599 | What do the limiters let pass and refuse, through outages and restarts? Which keys admit a request? |
| `Localnet` | pass | 517,048 | Do nodes run once and come back, is a checkpoint quiet, are epochs noticed? |
| `Tools` | pass | 314,588 | Are nonces fresh, do batches end, does the pool size cover what is pending, is one pool added per epoch, a proxy switched once? |

The violation run checks one sentence of a comment against the code; the finding
in `PROJECT.json` quotes it. Every property of a passing run has a mutant: a plausible bug,
written beside the definition it replaces (`..._Skips`, `..._Late`), that breaks the property.

Bounds and why they are enough:

- `MCIndexer`: block 1 brings a pool by its first stake, block 2 a validator that no event has
  named, block 3 two movements of one pool, and a pool is gone when its epoch is rewarded; the
  stop block lies inside the chain in `IndexerMirror`; the middle epoch has three blocks, so
  that a jump need not meet an epoch switch, which refuses it. Two faults cover a failure during
  the recovery from another; `IndexerLoss` has three, a lost block needing one by itself. It leaves
  the fault `poll` out: a poll that fails after a lost block makes the repetition measure its
  duration from itself (see below).
- `MCImport`: seven blocks and three epochs, so that a start lies before, at, after or far inside
  an epoch, or in the first one; at most four blocks of an earlier import, so that it ends below,
  at or above the start; two deaths meet one bootstrap. For the rewards two pools, two stakers, two
  movements of stake and two epochs that end, 0, 1 or 3 days apart against windows of 2, with a
  percentage of their own; one fault.
- `DbConnection`: a block with a node, one that a repetition cannot meet, and one that opens an
  epoch; two reads, three attempts as in the code, two failed reconnections where the code allows
  ten, four outages and two other errors or deaths: enough to use up the retries of a statement,
  then those of the process, and to go on.
- `StakeLedger`: three blocks and five events. A row is closed and closed again, three
  movements of a pool meet in a block, an order is placed, claimed and placed again, and a pool
  is emptied and refilled. Amounts are units, as the visitors only add and subtract.
- `ValidatorObserver`: six blocks hold a failed key generation round, an epoch switch and a
  second selection; one failure and one crash suffice for the memory to run ahead and to be
  repaired, in either order. Two nodes give sets that overlap, differ in order only, or differ.
- `BonusScores`: two pools with a batch size of one take the path of many pools, which
  swallows failed loads; four blocks let a pool join, change, meet a fault and change again;
  two faults meet.
- `ApiReads`: two histories of two names bring every event kind, a name that is minted again,
  transferred and blocked before it exists; one row per page makes every page boundary count;
  restarts begin at block 1 again. That one fault is enough is what `ApiProofs` proves: its
  theorems hold for any number of them.
- `RateLimiter`: one address, two keys and two requests in flight; limits of one or two and
  windows of one to three ticks let a window lapse, overlap and be renewed; one outage and one
  restart fall anywhere.
- `Localnet`: five validators, because the scripts name nodes 1 to 5; one death at any moment;
  two blocks, two epoch switches, two watchdogs.
- `Tools`: a node that holds three transactions against batches of four and two, so that
  refusals and repetitions happen; a sender limited to two; three candidates, a fourth without an address, a wallet of
  four and foreign pools; two proxies, one of them the one that is initialised.

Deadlock is not checked where the modelled history simply ends: `CHECK_DEADLOCK FALSE` is
commented in each configuration. Symmetry is used for invariants and action properties only.

Fairness, and why the code justifies it:

- `IndexerMirror` and `IndexerStaleNodes`: weak fairness of the process. The event loop
  runs every awaited continuation, and `docker-compose-with-sync.yml` restarts the container
  on failure. Faults and the chain's growth are not fair.
- `DbConnection`: weak fairness of the process, as above, and of the server coming back.
  Outages and other errors are not fair, and bounded.
- `Localnet`: close events are handled and a process that was sent SIGTERM ends; timers of the
  watchdogs fire. The commands of a script, deaths and blocks are not fair.
- `Tools`: a script goes on, the node answers and mines. Refusals, lost answers, errors and the
  end of the test's time are not fair.

## Proofs

Eight modules prove theorems for every value of the constants. Each states an inductive
invariant, lemmas for the actions or groups of actions, and the theorems that follow from it. The
assumptions are the named `ASSUME`s of the modules, which TLC evaluates in every run, and the
hypotheses named below.

`IndexerProofs`, for every chain that satisfies the assumptions of `Chain`, every set of
faults and every bound:

- `TypeCorrect`, `Typing`: `[]TypeOK`. The strengthening `Working` says that a transaction works
  on an existing block and, after the header step, with that block's epoch.
- `PrefixAlways`: `[]PrefixInv`. This is the inductive invariant: there is an `m` such that `db`
  holds exactly the headers below `m` and the epochs they open, the caches are those of block
  `m - 1` or of `m` when the process has not yet noticed a commit, and `work` holds the block in
  hand on top. The property of interest alone (no block skipped) is not inductive: whether the
  next commit extends the prefix depends on what the caches believe.
- `NoBlockSkipped`: a consequence of the invariant.
- `DurationsRight`: `[]DurationFromParent`, lost blocks included. With swallowed errors the tables
  are no prefix, and the invariant (`CacheInv`) relates `before` to the block in hand alone. It
  assumes that the faults `swallow` and `poll` do not come together.
- `StopsThere`: `[]StopsAtFillStop`, from an invariant that bounds the headers of both table
  sets and, inside a transaction, the block in hand.
- `NodesKnown`: `[]KnownCoversDatabase`; the strengthening says that the tables are the
  committed ones whenever the process is down or starting.

`PrefixAlways` and `NoBlockSkipped` assume `NoSwallow` (`"swallow" \notin Faults`): with it a block
can be lost (see below).

The module goes on to the rows of all tables.

- `DatabaseAlwaysMirrors` and the refinement `Implements` (`Spec => ImplementsMirror`). The
  invariant `MirrorInv` says that the committed tables are those of the first `m` blocks and,
  in three phases (`Collecting` nodes, `Opening` the epoch, `Telling` the events one by one),
  what the transaction holds of block `m`. When block `m - 1` is taken again after a lost answer
  or a failed poll, it adds nothing (`SameRows`). Commit is the abstract step, all others stutter.
  Both theorems assume `NoSwallow` and `GenesisPools`: a pool of the genesis block is a
  validator of the first epoch or moves stake in that block. Any other is lost for good when
  block 0 fails after its `insertNode`, as `knownNodes` keeps it (`runFillDb.ts` 134, 280-297).
- `StakeTransactionsAlways`, under all faults. `VisitInv` says how far the events of the block
  are visited, `RecordedInv` that the visited ones have a row; no step takes a row back.
- `LedgerAlwaysExact`, swallowed errors included. `Counted` says that of the block in hand the
  transaction holds just the movements visited so far (a cardinality, by induction on the events
  step by step), `Ahead` that the next block is not stored yet. It assumes
  `NothingLostAfterCommit` (no fault `poll` or `commitack`), because a stored block that is taken
  again is counted twice; see below.

`StakeLedgerProofs`, for any pools, any finite set of stakers and any sequence of events (the
bounds are parameters):

- `LedgerAlways`: `[]Ledger`. The properties speak of moments between two blocks, and the visits
  of a block pass through tables that none of them describes, in an order that is not that of the
  block. What stays true is a sum: what a table says and the weights of the events still to be
  counted (`PoolWeight`, `StakerWeight`, `OrderWeight`) make what the contract has, along the
  queue during the visits (`Leads`) and kind by kind before them (`AllLead`). A sum does not say
  that a visitor finds the row it takes from; `Grounded` adds that each event that takes is of a
  pool with a row, or of one that an earlier visit gives a row (`Sourced`).
- `HistoryAlwaysFollows`: each table has one newest row of a pool, which says the sum so far,
  and what was told of past blocks stays told (`Telling`).
- `OrdersAlwaysFollow`: a claim is of all that is open and stands alone in its block for its
  account (`Matched`), so that the open row follows through orders and claim (`Ordering`).
  Both need that the visits of no block `crossed`.
- `DelegatedAlwaysFollows`, crossed blocks included (`Delegating`).

There is one lemma for each visitor, and `EventVisited` joins them. The sums over the stakers of a
pool are bounded and changed by induction over finite sets, proved here for these sums.

`ValidatorObserverProofs`, for any nodes, chain of validator sets and number of failures and
crashes: `RecordsDisjointAlways`, `RecordsTellHistoryAlways`, `PendingRoundsAlways`. That the
records tell the history is not inductive, since what is written next depends on the memory.
`ObserverInv` (theorem `ObserverAlways`) adds that each block of the chain follows from the one before (`ChainInv`), that the
records of a validator lie one after the other and those of the transaction are the committed
ones until it writes (`WorkInv`), and, moment by moment of the call, that a memory which is
not ahead knows exactly the open records and the lists of the block it has compared (`MemoryInv`).

`BonusScoresProofs`, for any pools and scores and every fault:

- `RowsTileAlways`. The committed tables tile the blocks up to the newest one stored, those of the
  open transaction the blocks up to its own (`Tiled`). What makes a change keep the tiling is that
  the row it closes does not begin in the same block, and this rests on the cache: what was
  written in this block is in the cache (`WrittenAreCached`), so that it is not seen as a change
  again, while a rollback takes back the rows that begin in the block. That pools are not
  registered twice rests on `known` covering the tables.
- `HistoryTellsAlways`. `PoolsInv`: pools only grow, so that every node in a table is one whose
  score the next block reads. `HistoryInv`: closed rows tell the chain's scores and open ones
  the cache's, in the committed tables and in the transaction, but for the pools whose change a
  fault hid; the pools whose promise has settled are in the cache with the block's score (`Settled`).
- `ReasonsMatchAlways`. `HiddenInv` says what the cache of a hidden pool can be. `ReasonInv`: each
  row after the first of its pool has one reason, or waits for it among the changes of this
  block (`RowsReasoned`), each reason leads from the score told before to that of its row
  (`ReasonsTell`), and so will those that wait (`ChangesTell`).
- `FiledUnderEpochAlways`. `EpochInv`: a committed row of an epoch covers only blocks of it or none
  after its last, the rows of older epochs were there when a reason asked (`OlderRowsStored`), and
  what was found for the reasons of the block in hand is right (`LookedUp`).

`DbConnectionProofs`: `BlocksWhole`, `[]AllOrNothing`, for any blocks. `WorkSoFar` says that the
open transaction holds exactly the statements before the one under way, also while that one is
repeated and its connection is lost, but for nodes that were left out because memory knows them
(`LeftOut`). Such a node is either stored already, when the answer of the block's COMMIT was lost,
or missed by the first movement that refers to it, so that the transaction never gets to its COMMIT
without it (`Complete`).

`LocalnetProofs`, for any nodes, any number of deaths and every script of `ScriptsShape`:

- `OneProcess` and `ObjectsAgree`, for callers in any order. The count of processes is not
  inductive; `Agreement` ties the child of each object to the processes and says that an object
  which is not started has none, `Listening` that a node which waits for its stop does not
  restart.
- `ScriptsUseNodeManager`: `LocalSpec => Spec`, the composition implements the node
  manager's own specification; a script starts only nodes that exist, and replaces the RPC node
  only when none runs and none is being stopped. `ScriptsKeepOneProcess` follows.
- `CheckpointAlwaysQuiet`. `QuietInv` follows the two stops before a save: a node whose stop was
  called is `Ending`, after the stop has returned it is `Gone`, and no close event is left that
  would start it again. `ScriptsShape` says that a save comes after a forced stop of all
  nodes and a stop of the RPC node, as in every scenario; TLC checks it of the nine scripts.

`ApiProofs`, for any routes, limits, windows and keys and any number of requests:

- `OnlyKeysInForce`. `Checked`: until a request is authenticated, the keys enabled now and
  those that were read for it are among those in force since it came.
- `LimitAlwaysKept` and `NobodyRefusedForNothing`, from `StoresWell`. Neither is inductive: a
  count is right because of what the stores hold of the present run of requests. By `RedisOK` and
  `MemoryOK` what a store remembers lies in that run and lapses no later; by `PassesOK` what Redis
  let pass is within its count, and what this life of the server let pass is still in its memory;
  `Sound` says that a request counts in counters that exist.

And for the names, and the requests that read while blocks are imported, for any chains, names,
size of a page and number of faults (`NamesShape`: a log has its block, a kind that is queried and
an index of its own in it; `ReadsShape`):

- `ReadingAlways`: the tables only grow (`Grown`, a fact of each step: rows and ends of epochs stay
  as they are), the rows of the names are right (`Directory`), and at any moment of a request
  `HistoryAsked`, `StatsCounted` and `PagesRead` hold.
- `RowsAlwaysTellChain`. That a row tells the chain is not inductive: while blocks are repeated
  it is ahead of them. `RowTold` relates a row to three sets of events. Each of its fields was said
  by an event of some block that was begun; no event that this pass has applied (`Applied`) comes
  later, so that a repetition overwrites what it has reached and nothing else; and what is set
  once was said by the first event of the whole chain (from `First` on), which is why a repetition cannot change it.
  With all blocks through, the first two sets are equal (`RowComplete`). An upsert keeps this
  because the events of a block are visited in the order of their logs (`RowUpserted`,
  `DirectoryUpserts`).
- `TimelineAlwaysReachesRow`. `RowLogged`: each event before the last that a row tells of is in
  the log, also when this pass has not reached it again; the log only grows, and the row is read
  first (`HistoryAsked`).
- `UptimeAlwaysWithinOne`. The active epochs were counted in a window that has no more epochs than
  it has now, so that the total counted later is no less; the order of the queries matters.
- `PagesAlwaysMissNothing`. `StillToCome`: a row of the start that was not seen yet is still in
  the list, with at least as many rows ahead of it as the offset of the next page. Each page either
  has that row or is full and ahead of it (`PageOrLater`), because the ORDER BY of these lists
  tells all rows apart (`SortedRows`). A page is as long as its count promises because no row
  leaves the list in between.

`ToolsProofs`, for the composition: `ToolsAlways` proves the conjunction of the scripts'
invariants; the steps of one leave the others' variables alone.

- `NoncesAlwaysFresh`. In `FastInv` the nonces of an account count up through a batch and from one
  batch to the next (`NoncesCountUp`), all transactions of earlier batches are mined
  (`EarlierMined`), and the node takes an account's nonces in order (`NodeTakesInOrder`). It rests
  on `BatchesShape`.
- `OnePoolAlways`. `EpochsOver`: the epochs in which pools were added are over while the next
  node is looked for, and known to the script while it waits.
- `SwitchedOnceAlways`, for any number of crashes at any moment of a transaction. `UpgradeInv`: a
  proxy that was switched runs the build (`SwitchedRunBuild`); what the run has posted or is still
  to post for a proxy, and what earlier runs have abandoned, account for every switch
  (`SwitchesCounted`, with `Due` and `Posted`); a transaction is pending once (`PendingOnce`), the
  proxies that wait are those found out of date (`Waiting`), and what is deployed for them is the
  build (`BuildDeployed`).
- `PoolSizeCovers`. The pool size is the number of calls between signature and receipt
  (`SenderInv`); each transaction in the pool belongs to one, because a receipt is seen only for
  what is mined, and nothing is in the pool and in a block.

Model-checked only: liveness (`ImportsOrExits`, `ImportGoesOn`, `DeadComeBack`, `SwitchesNoticed`,
`BatchesEnd`, `SenderGoesOn`), which is out of the prover's reach, and the two properties of
`Import` (`SeedWhole`, `RewardsTold`). Every other invariant and action property of a passing run
is stated by a theorem.

## What the code does otherwise than it says

The models follow the code; these are the places where that shows. The first is a run; the
others are excluded by the conditions the properties name, or described here only.

- A node added inside a transaction stays in `knownNodes` after the rollback
  (`runFillDb.ts:134`), and every retry meets a foreign key: run `IndexerStaleNodes`.
- stake_transactions are written by autocommit (`database-persistent.ts:1043`) and survive the
  rollback that the comment at `runFillDb.ts:240` promises for partial data.
- `processBatch` swallows a failed statement (`bonusScoreProcessor.ts:226`); the COMMIT that
  follows is a rollback without an error, and the block is lost without a trace.
- A poll that fails after the commit (`runFillDb.ts:437`) repeats the stored block, whose
  movements of stake are applied again.
- Three movements of one pool in a block repeat a key of stake_history
  (`eventsVisitor.ts:413`): the block is retried for ever. A row closed in the block it begins
  keeps the mark of the newest row, and the dashboard `staking.json:159` counts it twice.
- The observer's memory is not rolled back (`validatorObserver.ts:128`): the block is stored
  without its validators, which `network_stat.json:497` then shows.
- The score cache is filled at the block to resume with, so a change in just that block is
  never written; the epoch of a change in an epoch's first block is that of the block before.
  When that block is lost, its epoch has no row, and the reasons of the whole epoch are filed under
  an older one, or 0, until the process is restarted (`runFillDb.ts` 428-431).
- A swallowed loss followed by a failing poll: the block is repeated with its own time as that of
  its parent, and its header gets a duration of zero.
- `isValidatorInActiveSet` looks for a lower-case address among checksummed ones, so that
  nearly every penalty is told as `NoStandByPenalty`.
- A COMMIT that was stored while its answer is lost: the block is taken again, an epoch or a
  further repetition of a movement meets its key, and the block is retried until the process is
  restarted by hand. So is a block whose node is in `knownNodes` without a row.
- A statement inside a transaction that reconnects disposes of the pool whose connection its own
  transaction holds; if `dispose` waits for it, nothing ends the wait (`Hangs`).
- `connectionRetries` is reset by a successful reconnection only; after the limit every error
  is thrown at once. A retry inside a transaction cannot help, since its connection is gone.
- `stopAllNodes(false)` (`nodeManager.ts:440`) filters with a callback without `return` and
  stops nothing, against its comment at line 434; `runTestSteps` leaves the validators running.
  `isShuttingDown` is never reset, so that a node once stopped does not come back; a stop of a
  child that is already dead waits for ever.
- `router.use(publicRateLimiter)` in `routes/supply.ts:11` has no path, so it also counts
  requests to /stake-transactions, /rewards and /names, against `rateLimiter.ts:216`.
- INCR and EXPIRE in one transaction renew the window with each request: steady traffic below
  the limit per minute is refused in the end, although `003-add-api-keys-table.sql:27` speaks of a
  maximum per minute. The memory store also logs refused requests, and a
  request refused by the minute still uses the day's budget. A key made with `--rate-day` alone
  keeps the minute's default, which `rateLimiter.ts:113` takes for no limit at all.
- An error of a send never counts down the continuous sender's pool size and leaves a gap of
  nonces; errors other than -32010 in `FastTxSender` drop the transaction, and
  `awaitTransactions` waits for it for ever. It does so too for a transaction whose hash in its list is
  not the one it is mined under: the node reported another hash after the list was copied, or none.
- A crash, or a "no", between `upgradeTo` of RandomHbbft and `initialize`
  (`runUpgradeContracts.ts` 343-357) is not repaired by the next run, which finds the proxy up
  to date.
- A run of the upgrade that ends while an `upgradeTo` is pending leaves it to be mined after the next
  run has compared the old code: the proxy is switched a second time.
- The header of an epoch's first block is seeded only above block 0 (`runFillDb.ts:157`): an import
  that begins inside epoch 0, above block 1, meets the foreign key of posdao_epoch at every start,
  against the comment at line 156. Otherwise that header measures its duration from its grandparent
  (158-160). A bootstrap that ended after its first node is taken for complete; one that jumps over
  the beginning of an epoch records the start block as the epoch's first. Every restart takes the
  blocks from `DB_FILL_START_BLOCK` again.
- `batchValidatorRewardStats` does not tell the window before for a pool without rows in this one,
  which `getValidatorRewardStats` does. The shares of the delegators may exceed what is to be shared
  when stake was added during the epoch.
- Rewards of a delegator are ordered by epoch only, and the directory of names by creation
  (`names.ts:207`): rows that the order does not tell apart may change places between pages, which
  is why `PagesMissNothing` does not say of these two lists that no row is missed.

## Not modelled

- `deleteDataFromBlock`, which nothing calls. What restarts repeat from `DB_FILL_START_BLOCK` is in
  `DmdNames` for the names, in `Bootstrap` for headers and epochs, and left out for the other tables.
- Genesis stakes that appear without an event; partial claims and cancelled orders, which the
  contract may offer, are not generated.
- Numbers: amounts have no width, and payments divide without a rest.
- RPC results are those of the block asked for; a node that answers from another fork is not
  considered, as the chain has instant finality.
- The stand-by factor, which only feeds a log. Endpoints that answer from a single query
  (supply, blacklists).
- Remote nodes, `deactivate` and `restoreDB` of the node manager; the watchdog's restarts
  (`watchdog.ts` 97-216), which no caller enables; its plugins, which report.
- The builders of local networks and forks, which write configuration files once; remote
  operations, which are shell commands; the delta pot server and the other polling scripts, which
  keep one variable each; feeding and unstaking scripts, loops of independent transactions; the
  random actions of `runTestEpoch22`; `runTxsLimitFinder`, whose signings run concurrently and may
  take a nonce twice, as nothing awaits them.
- `db/database.ts`, the older manager of single statements without transactions.
- Logs, reports and HTML.

## What is left

The refinement of `NodeManager` by `Localnet` carried over to the watchdogs; proofs of the two
properties of `Import`.
