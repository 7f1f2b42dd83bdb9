# ATOM trading platform: models, checks and proofs

TLA+ modules for the Rust workspace in `src/crates` (domain, application,
infrastructure, cli), the TLC configurations that check them on small
instances, and proofs that TLAPS checks for every value of the constants. File
and line numbers refer to `src/`. `PROJECT.json` is the index: which definition
stands for which lines, which run checks what, which seeded fault each property
detects, where the code and its tests disagree, and the hazards.

## 1. The system

| Component | State | Operations |
|---|---|---|
| Entities, values (`domain/src`) | status, quantity and filled quantity of an order; side, quantity, prices and profits of a position; value objects | constructors, `update_status`, `fill`, `cancel`, `reject`, position updates, checked arithmetic |
| TradingService (`application/src/trading_service.rs`) | none of its own; one activation per call, the order repository, the gateway | `place_order`, `cancel_order` |
| OrderLifecycleManager (`application/src/order_lifecycle.rs`) | running flag, two task handles, `processed_fills`, dead letters, repositories | `start`, `stop`, fill task, order update task |
| RiskEngine, risk metrics (`application/src/risk`) | kill switch, circuit breaker, equity and its peak, daily profit, decision history | `check_pre_trade`, nine methods that report or reset, pure metrics |
| DataPipeline (`application/src/data_pipeline.rs`) | state, buffer, circuit breaker, shutdown channel, three tasks | `run`, `pause`, `resume`, `shutdown`, `health` |
| Use cases (`application/src/*_use_cases.rs`) | none; rows of the repositories | create, fill and cancel orders, close positions |
| Repositories (`infrastructure/src/database`) | tables | statements, decoding of rows, `with_retry` |
| Paper trading gateway (`infrastructure/src/providers`) | orders, positions, trades, subscribers | place, cancel, modify, subscribe |
| IB client, market data, execution (`infrastructure/src/external/ib`) | connection state, backoff, event channel, subscriptions, order id maps | connect, reconnect, subscribe, place, cancel |
| Event bus (`infrastructure/src/messaging`) | broadcast ring, cursors, metrics, dead letters | publish, three ways to subscribe, receive |
| Redis cache (`infrastructure/src/cache`) | circuit breaker | every operation through it |
| Health, metrics (`infrastructure/src`) | statuses of components, counters, a rate | `check_health`, `update_component`, the rate task |
| Ingest command (`cli/src/commands/ingest.rs`) | a buffer of bars, counters | subscribe, save in batches, stop |
| Trading commands (`cli/src/commands/trading.rs`) | none that outlives a command: each builds mock repositories of its own | place, cancel, list |

How they interact. `place_order` validates an order, reads the open positions,
asks the risk engine, stores the order and calls the gateway. The gateway sends
executions and order updates through channels that `start` of the lifecycle
manager subscribed to; the manager's two tasks write the *same* order
repository, the positions and the fills, and publish events. Nothing in the
command line wires the service to the manager. The data pipeline (provider,
event bus, buffer, repository) and the ingest command (IB provider, repository)
are two separate ways of bars into the database. The IB gateway and the IB
provider share the client's connection.

What is hard. Every `await` is a point where another task runs, and almost
every handler reads an aggregate, changes its copy and writes it back. Two
tasks and any number of callers write one order; retries repeat handlers and
statements that have already had effects; answers of gateway and database may
be lost after they took effect; `stop` and `shutdown` cut tasks off at any
`await`; three circuit breakers are read and changed at different times; locks
are released between a check and what depends on it; buffers, rings and
channels drop or block at their limits.

What makes each part correct. *Orders*: never filled beyond their quantity,
filled by no more than what was written to them. *Service*: nothing at the market
that is not stored, nothing stored or sent that was refused, events only for what
happened. *Manager*: the effects of a fill in order, a fill dropped only for its
key, every fill settled, no task left after `stop`. *Risk*: what must stop trading
stops it, limits exceeded by no more than what was on the way. *Pipeline and
ingest*: each bar saved in order and again only for a lost answer, losses only
where the code accepts them and never unnoticed, a shutdown that ends.
*Connection*: one manager task, an established connection watched, calls that wait
for nothing but the event channel. *IB orders*: ids never shared, what was placed
reachable. *Event bus*: in order, once, lost only for lag. *Breakers*: no
transition missed, closed again once commands stop failing. *Use cases*: stored,
sent and reported agree. *Rate*: no bar escapes it.

## 2. The modules

| Module | Models | Shape |
|---|---|---|
| `OrderEntity` | status machine and mutators of `Order` | operators |
| `PositionEntity` | `Position`, `Fill`, their aggregation, order quantities with averages, the position service | operators, laws |
| `Values` | value objects, `Bar`, `Tick`, with refusals, overflow and panics | operators |
| `OrderLifecycle` | the lifecycle manager, its repositories and the gateway as it sees it | one action per repository call of each task |
| `TradingService` | `place_order`, `cancel_order`, with a repository that others write too | one action per `await` |
| `TradingFlow` | service, manager and market on one order repository | composition, and a refinement |
| `RiskEngine` | pre-trade checks, the engine's other methods, and the orders that callers leave at the gateway | one action per locked section |
| `RiskMetrics` | exposure, drawdown, value at risk, Sharpe ratio, square root | operators, laws |
| `DataPipeline` | the three tasks, `run`, `shutdown`, the breaker | one action per `await` |
| `PipelineHealth` | `health`, metrics, configuration, error classes | operators, laws |
| `EventBus` | the broadcast ring, its subscriptions and metrics | one action per publication or step of `recv` |
| `EventDelivery` | what an event bus promises its subscribers | abstract specification |
| `DeadLetterQueue` | `add`, `clear` and the storage behind them | operators, a law |
| `IBClient` | callers, manager task and event channel of the connection | one action per `await` |
| `IBExecution` | the gateway's calls, id counter and maps | one action per `await` |
| `IBMessages` | conversions between the domain and Interactive Brokers, configuration, errors | operators, laws |
| `Ingest` | the ingest loop, one symbol's subscription, the upsert of bars | one action per `await` |
| `PaperGateway` | the operations of the paper gateway up to its panic | one action per operation |
| `PaperLedger` | what that gateway computes behind the panic | operators, laws |
| `RedisCache` | the cache's circuit breaker around every operation | one action per access to the breaker |
| `UseCases` | creating, filling, cancelling, closing | one action per port or repository call |
| `Repositories` | what the use cases see of the tables | operators |
| `OrderTable`, `PositionTable`, `FillTable`, `SeriesTable` | the SQL statements as functions of a table, and the decoding of rows | operators, laws |
| `Retry` | `with_retry` and the errors it repeats | operators, a law |
| `HealthChecker` | overlapping probes of the health checker | one action per check and write |
| `Metrics` | the processing rate and the tasks of the servers that compute it | one action per atomic access |
| `TradingCommand` | the trading commands of the command line: what they print and what they place | operators, laws |
| `FiniteSums` | nothing of the code: what a sum over a finite set obeys | theorems |
| `MC*` | finite instances | constants |
| `*_proofs` | theorems; those about `TradingService` are in `TradingFlow_proofs`, those about `UseCases`, `HealthChecker`, `Metrics`, `RedisCache`, `Ingest` and `IBClient` in `Services_proofs` | |

**State and code.** In `OrderLifecycle` a *generation* is one call of `start`:
its receivers (`fillQ`, `orderQ`) and its two tasks (`fillTask`, `orderTask`),
each a program counter, the event it is handling, the retry count and the copy
that it is about to write. `FillSave`, `FillGetOrder`, `FillPutOrder`,
`FillGetPosition`, `FillPutPosition`, `FillAnnounce`, `FillPublish` and
`FillMark` are the awaits of `handle_fill` and `process_fill` in their order; a
write may fail after it took effect (`Fault`). `Decoding` says what the
repository returns: the stored order, or the `Created` order that
`row_to_order` of the Timescale repository rebuilds. The counters `rows`,
`orderWrites`, `positionWrites`, `filledEvents` and `failures` record what was
done per execution; no guard reads them.

In `TradingService`, `placing[o]` is the call in progress for an order and how
the last one ended, `cancelling[c]` a call of `cancel_order`. The risk engine's
answer is left open. `WrittenElsewhere` is the assumption about the rest of the
system: others rewrite orders that exist, and neither add nor remove any.
`TradingFlow` replaces that assumption by the lifecycle manager itself and a
market that executes at most what it accepted; that the composition implements
`TradingService!Spec` (`ServiceInterface`) is checked and proved.

What a fill task gives up is recorded in `givenUp`, not as a dead letter: the
queue is optional (`new()` sets none) and an error of its `send()` is only logged.
A task also ends when its channel closes (`FillChannelEnds`, `OrderChannelEnds`).
`ExecKey` is the deduplication key of an execution, which several may share.

In `RiskEngine` each caller is between sections of `check_pre_trade` that take
the lock anew, with the copy of the positions that `place_order` made. An order
that the gateway accepts is added to `working` and its caller is free again, as
`place_order` returns; the market fills and cancels what works, in parts and in
any order. `blocked` is a history variable of each call: what has been blocking
trading ever since the call began. `overlap` is one too: the most that was on its
way to a position, working or allowed, when some check found room.

In `DataPipeline` bars are numbered by arrival, and `bus`, `held`, `buffer`,
`batch`, `flushing` are where a bar can wait. `saved` lists the bars in the order
in which the repository executed their saves, and `told` the places of those that
it answered: a save whose answer is lost (`AnswerLost`) has been executed, and
`FlushFails` puts its bars back all the same. A shutdown signal is the set of
receivers that have yet to read it, since a broadcast reaches only those that
exist when it is sent; `RunSpawn` starts the tasks one by one, each with its own
subscription. `pause` and `resume` write the state, which no task reads.

`EventBus` keeps the whole log and computes what the ring still has (`Oldest`);
each subscription has a cursor, as tokio's receivers do. The ghosts `got` and
`lost` are what a subscriber was given and what it skipped. `EventDelivery`
knows neither ring nor cursors: a subscriber is given the next event it wants,
and may be spared one only if as many newer ones were published as the bus
keeps. `DeliverySpec` maps the last event given to `mark`.

In `IBClient` the place of each caller and of each manager task names the next
`await` (`checkFlag`, `setConnecting`, `tellConnecting`, ...); `tell*` are sends
on the event channel, which wait for room. Managers are identities that are
reused, so that a task nobody holds the handle of can be told from the current
one. In `IBExecution` a caller holds the mutex of the id counter from `Lock` to
`Allocate`, the request to the broker included, which the client may never answer
(`NeedsClient`). Nothing in the code keeps an order from being placed twice; the
ghost `repeated` remembers for which it was. In `Ingest` one bar is in the
channel, the buffer, the batch being saved, the table, or accounted for by
`givenUp`; `owner` is whose sender the subscription map holds. The command is one
with `output_db`: without a repository it drops every batch and there is nothing
to say of it. In `RedisCache` every read of the breaker's state, every counter and
every transition is a step of its own; `alive` is the one `MultiplexedConnection`
that all commands share, which, once lost, is never made again. In `Metrics` each
server that was started has a task, and all of them update one global collector. In `UseCases` a caller carries the draft it read and changed to the
write; `sent` and `withdrawn` are what the market was asked. Orders that are being
created or do not exist are asked for too.

**Tables.** `OrderTable`, `PositionTable`, `FillTable` and `SeriesTable` write
each statement as a function from a table and its parameters to a table or a
result, with the columns that the *statements* name. The schema under
`src/` lacks some of them (`positions` has no `side` or `is_open`, `fills` no
`exchange`) and its `CHECK` on `orders.status` refuses the JSON that is written,
so the tables are those the code expects, not those the migrations create.
`position_repo` also names an error variant that does not exist; the conversion
is modelled as it is meant.

**Harness.** `MCServices` puts six services that share nothing side by side: the
use cases, the health checker, the processing rate, the cache's breaker, the
ingest command and the IB client. A behaviour is one of the six, so that their
states add up instead of multiplying.

**Naming of faults.** A definition marked *seeded fault* is used by no
specification. Each replaces the definition after it, by a slip one could make
there, in order to show that some property notices.

## 3. What TLC checks

| Run | Question | Properties |
|---|---|---|
| `LC_fills` | the fill task with duplicates, forgotten keys and two failing calls | `NeverOverfilled`, `FillEffectsInOrder`, `ProcessedOnlyAfterEffects`, `OrderAccountsForFills` |
| `LC_races` | both tasks on one order, start, stop, channels that end, a fault, two executions under one key (fair) | `StopLeavesNoTask`, `FilledIsBacked`, `FillsSettle`, `UpdatesSettle` |
| `TF_orders` | placing twice, cancelling, lost answers, fills, updates | `KnownAtMarket`, `FailedPlacementIsClosed`, `ServiceInterface` |
| `RE_checks` | two callers that check, leave orders at the gateway and check again while everything they read changes | `BlockedNeverAllowed`, `BreakerAgrees`, `OvershootBounded` |
| `DP_pipeline` | four bars, three failing saves or lost answers, a shutdown at any moment (fair) | `EachBarOnce`, `ArrivalOrder`, `BufferBounded`, `LostOnlyWhenFull`, `BatchesDrain`, `ShutdownEndsAll` |
| `EB_bus` | a ring of two, four events, a slow filtered and a slow resumable subscription, the bus dropped (fair) | `EveryEventAccountedFor`, `RecvEnds`, `DeliverySpec` |
| `IB_client` | two callers and up to two managers over a channel with room for one event (fair) | `CallsReturn` |
| `GW_ib` | two callers place, retry, cancel, modify, subscribe while connections, id requests and sends fail (fair) | `IdsNotShared`, `PlacedIsReachable`, `CallsReturn` |
| `IB_watch` | one caller that disconnects and connects again | `EveryConnectionWatched`, **violated** |
| `RC_cache` | three callers of one breaker on a connection that may be lost (fair) | `ClosesAfterFailures` |
| `UC_store` | use cases on the repositories; probes; servers that compute the rate; the breaker, the ingest command and the client | `StoredThenSubmitted`, `CancelledAtMarket`, `LoneProbeTellsTruth`, `RatesAddUp`, `NoTransitionMissed`, `ReceivedIsAccountedFor`, `SavedCountIsStored`, `AddedOncePerAnswer`, `OneManager`, `ConnectedIsWatched`, `ReplacedOnlyByOverlap` |
| `PGV_place` | one placement on the paper gateway | `PlacedMeansFilled`, **violated** |

Two runs show disagreements:

- `PGV_place`: `place_order` of the paper gateway builds its first update with
  `Quantity::new(Decimal::ZERO).unwrap()` (`paper_trading.rs:948`), which panics
  after the order was stored, although `test_place_market_order` (:1382) expects a
  filled order.
- `IB_watch`: `disconnect` sets `shutdown_signal` (`client.rs:675`) and nothing
  clears it, so the manager of a later `connect` ends at its first tick and the
  connection is neither monitored nor re-established, against `client.rs:10` and
  :829-833 ("This task runs continuously while the client is active").
  `ConnectedIsWatched`, which holds, therefore speaks of clients that were never
  shut down.

What some properties permit because the code does it:

- `FilledIsBacked` and `OrderAccountsForFills` count a fill as often as it was
  written; that a retry writes it twice, or that a stale write of the other task
  loses it, is no violation of the first, and the second is for one writer.
- `FillsSettle` is content if some execution with the same key was carried
  through: the code drops a new fill that shares order, second and quantity.
- `EachBarOnce`, `ArrivalOrder`, `AddedOncePerAnswer` allow a bar to be saved again,
  and its volume to be added again, once for each answer lost after a commit.
- `LostOnlyWhenFull` allows what the flush of `shutdown` loses, counts bars left in
  the bus or the buffer as on their way, and knows only bars that had a receiver.
- `OvershootBounded` sets no limit of its own to what works at the gateway.
- `CallsReturn` of the client names the one way in which a call hangs: waiting to
  send on an event channel that stays full. It does hang so, since the ingest
  command never receives (`ingest.rs:180-181`). That of `IBExecution` names a call
  of the client that does not return, and callers that wait for the mutex it holds.
- `ClosesAfterFailures` says nothing of a lost connection: on one the circuit never
  closes again.
- `RatesAddUp` is exact while one task updates alone; several may count twice.

Some sentences of the documentation do not hold of the code. The definitions
that state them are kept beside the others, each with its quotation, and no run
lists them:

- `TerminalIsFinal` (`order_lifecycle.rs:33` "Order state transitions are
  validated before applying"): one task validates a transition on its copy and
  overwrites what the other wrote. `FilledNeverShrinks` fails in the same way: a
  fill that was stored is lost.
- `AppliedAtMostOnce` (:32 "Duplicate fills are detected and ignored"): on a flat
  account the fill fills the order, fails to open the position
  (`Quantity::new(ZERO)`, :735), is classed as retryable and is applied again.
- `PositionAccountsForFills` (:808): a partial reduction computes the remaining
  quantity and does not store it.
- `RolledBackIsNotWorking` (`trading_service.rs:366`): a lost answer rejects the
  stored order and nobody cancels the one at work.
- `LossNeverAllowed` (`risk/engine.rs:7`): `Money::new` refuses negative amounts,
  so a loss is never recorded and the daily loss limit never rejects.
- `BreakerLeavesOpen` (`data_pipeline.rs:8`): a save that succeeds while the
  breaker is `Open` forgets the last failure and keeps `Open` for ever.
- `FullCloseCloses` (`position_use_cases.rs`, "Closes a position (full or
  partial)"): closing books the profit and leaves quantity and row open.

**Laws.** Pure computations are operators with named `ASSUME`s over bounded
inputs, which TLC evaluates in the run whose module extends them. `MCServices`
evaluates those of the tables: a status comes back from its JSON except for two
kinds of partial fills (`StatusRoundTrip`); one unreadable row fails a whole
query (`OneRowFailsTheQuery`); the queries that compare a status with the name of
a variant find no order (`NothingIsFoundOpen`); an update needs a row where a save
does not (`UpdateNeedsARow`); fills are stored once more for each lost answer and
come back latest first (`FillsStoredForEachExecution`, `FillsAreLatestFirst`);
positions come back without their profits, reopen under the old id, and are
divided by side (`PositionIsReadWithoutProfits`, `ReopenedUnderTheOldId`,
`SidesDivideTheOpen`); and a statement is executed again only after a lost answer
(`ExecutedForEachLostAnswer`). It also evaluates those of the time series
(`VolumeOfEveryExecution`, `LatestIsTheEndOfTheRange`, `TlsIsTransientForSeries`).
`MCRiskEngine` evaluates those of `RiskMetrics` and `PositionEntity` (averages
agree however fills come, profits account for the deals) and of `PaperLedger`:
the default slippage is rounded away, a fill is never worse than its limit, the
ledger accounts for the cash unless a position is reduced, the summary adds up.
`MCIBExecution` evaluates those of `IBMessages`: nothing is lost in the
order that is sent, the two copies of each conversion agree but for reason and
commission, an order ends only when IB says so, no tick is routed, a future is
ordered as a stock. `MCDataPipeline` evaluates those of `PipelineHealth`: a
recovery looks worse than the outage, and snapshots are torn. `MCEventBus`
evaluates `MemoryIsIndependent` of the dead letter queue. `MCRiskEngine` also
evaluates those of `TradingCommand`: placing an order never places one, since
`Order::new` builds it `Pending` and the service wants `Created`; the time in force
is dropped; the filters of a listing see only open orders; every position is
shown long; and no command sees what another did.

**Bounds.** One order and two executions of different quantities are enough for
the races of `OrderLifecycle`: the two tasks meet on an order, an order can be
filled partially, exactly and too much, a position can grow, shrink and flip,
and duplicates, a trimmed set of keys and a fill that is given up all occur. Two faults
let a retry fail as well. `LC_races` gives both executions one key, and starts from
an order that is known or not. `TF_orders` has one order of two units, two
executions, two placements, one cancellation and two mishaps: a lost answer and
a failing rollback. `RE_checks` has two callers that are alike (hence the
symmetry) on one symbol, with orders of one unit, a size limit of 2 and room for
two working orders: a caller overshoots alone by checking again while its orders
work, and both do together. The exposure limits leave room for one unit more than
the size limit, so that either can decide; the breaker opens at two failures,
and equity has a value on either side of the drawdown limit.
`DP_pipeline` has a buffer of 2, a configured limit of 3 and batches of 2, so
that both limits drop bars, and three failures or lost answers against a threshold
of 2, so that the breaker opens, half-opens and opens again. `EB_bus` lets a subscriber lag by
two events at once and again; its subscribers are the two kinds that count in
the metrics, since a plain receiver is tokio's own. `IB_client` has a channel
with room for one event, so that every send can block, one attempt per
connection and links that may fail at each. `GW_ib` has four operations and two
faults: a placement that fails and is retried beside another, and a failing id
request while the other caller waits for the mutex. `RC_cache` has three callers and thresholds of two: two callers pass a
threshold between a read and a transition of the third. `UC_store` has three
use cases, three faults and two attempts at a write, orders of two units that are
filled by up to three, two servers, and four bars in batches of two, two of one
time, with two attempts at each and three faults, so that a batch can lose an
answer, be repeated, and be given up; its breaker and client have the bounds of
`RC_cache` and `IB_client`, which check what needs fairness. `IB_watch` needs one
caller that calls twice, and links that do not fail. The bounds are marked
*bound* where the modules declare them. Symmetry is used in `RE_checks` only: the
other sets are too small to need it, and liveness would forbid it. Except for `RE_checks` the
runs disable the deadlock check: each model ends when its bounds are used up or
the program has stopped.

**Fairness.** Weak fairness of a task's own steps says that tokio polls a
future that can go on and that calls to a repository, a broker or Redis return.
- `OrderLifecycle`: each generation's fill task and update task. Nothing is
  assumed of the gateway, `start` or `stop`.
- `DataPipeline`: the three tasks, `run`, a `shutdown` that was called, the
  passing of time, and the half-open tick, an interval of its own that the
  flush's, polled first, does not keep from being polled when only it is due.
  Nothing is assumed of the provider.
- `EventBus`: a `recv` that can go on. Not publishing, subscribing or dropping.
- `IBClient`: steps of callers; strong fairness of a caller's send, because
  tokio's bounded channel hands out its room in the order it was asked for.
  Nothing of the managers, and nothing of whoever receives events: the only
  production caller keeps the receiver and never reads it.
- `IBExecution`: sends, which end or time out; strong fairness of taking the mutex,
  because tokio's mutex is first come, first served. Nothing of the client's
  calls, which report on its bounded channel without a time-out.
- `RedisCache`: time, the steps of a call, and that calls keep being made; strong
  fairness that a command is carried out while the connection stands, since a
  caller whose every value fails to be serialized never tells the breaker that
  Redis is back. No time-out is set on the connection (the configured one is not
  applied), so that a command on a lost one need not return.

Safety properties are checked without use of fairness.

## 4. What is proved

The proofs are for all constants that satisfy the named assumptions of each
module: any sets of orders, executions, callers and symbols, any bounds and
either decoding. Where a theorem needs more it says so before `=>`.

| Module | Theorem | Statement |
|---|---|---|
| `OrderLifecycle_proofs` | `TypeCorrect` | `Spec => []TypeOK` |
| | `OrdersNeverOverfilled` | `Spec => []NeverOverfilled` |
| | `OrdersOnlyRewritten` | `Spec => [][StoresKnown]_vars` |
| | `OnlyReportedRewritten` | `Spec => [][WritesAreReports]_vars` |
| | `FillEffectsAlwaysInOrder` | `Spec => []FillEffectsInOrder` |
| | `ProcessedKeysHandled` | `Spec => []ProcessedOnlyAfterEffects` |
| | `DroppedForAKey` | `Spec => [][DroppedByKey]_vars` |
| | `NoTaskLeft` | `SerialControl`; `Spec => []StopLeavesNoTask` |
| | `OneConsumer` | `SerialControl` or one start; `Spec => []OneFillConsumer` |
| | `FillsAreBacked` | `Spec => []FilledIsBacked` |
| `TradingFlow_proofs` | `TypeCorrect` | `Spec => []TypeOK` of the service |
| | `MarketOrdersAreKnown` | `Spec => []KnownAtMarket` |
| | `RefusalsLeaveNoTrace` | `Spec => []RefusedLeavesNoTrace` |
| | `PublishedEventsAreTrue` | `Spec => []EventsAreTrue` |
| | `FlowImplementsService` | `FlowSpec => ServiceInterface` |
| | `FlowNeverOverfills` | `FlowSpec => []NeverOverfilled` |
| | `FlowOrdersAreKnown` | `FlowSpec => []KnownAtMarket` |
| | `FailedPlacementsAreClosed` | `FlowSpec => []FailedPlacementIsClosed` |
| `RiskEngine_proofs` | `TypeCorrect` | `Spec => []TypeOK` |
| | `BlockedChecksReject` | `Spec => []BlockedNeverAllowed` |
| | `BreakerNeverStuck` | `Spec => []BreakerAgrees` |
| | `PeakIsNeverBelow` | `Spec => []PeakIsPeak` |
| | `OvershootIsBounded` | `Spec => []OvershootBounded` |
| `DataPipeline_proofs` | `TypeCorrect` | `Spec => []TypeOK` |
| | `ClosedMeansBelow` | `Spec => []ClosedBelowThreshold` |
| | `BufferKeepsItsLimits` | `Spec => []BufferBounded` |
| | `NoBarTwice` | `Spec => []EachBarOnce` |
| | `BarsKeepTheirOrder` | `Spec => []ArrivalOrder` |
| | `BarsAreLostOnlyWhenFull` | `Spec => LostOnlyWhenFull` |
| `EventBus_proofs` | `BusIsTyped` | `Spec => []TypeOK` |
| | `PassedIsGivenOrLost` | `Spec => []GivenOrLost` |
| | `EventsAreAccountedFor` | finitely many subscribers; `Spec => []EveryEventAccountedFor` |
| | `BusImplementsDelivery` | `Spec => DeliverySpec` |
| `IBExecution_proofs` | `EveryIdHasOneOwner` | `Spec => []IdsNotShared` |
| | `PlacedStaysReachable` | `Spec => []PlacedIsReachable` |
| | `OneCallerAllocates` | `Spec => []OneAllocates` |
| `Services_proofs` | `UseCasesAreTyped` | `Spec => []TypeOK` |
| (of `UseCases`) | `CreationsStoreFirst` | `Spec => []StoredThenSubmitted` |
| | `CancellationsReachMarket` | `Spec => []CancelledAtMarket` |
| (of `HealthChecker`) | `LoneProbesAreRight` | `Spec => []LoneProbeTellsTruth` |
| (of `Metrics`) | `NoBarEscapesTheRate` | `Spec => []RatesAddUp` |
| (of `Ingest`) | `IngestIsTyped` | `Spec => []TypeOK` |
| | `ReceivedBarsAreKept` | `Spec => []ReceivedIsAccountedFor` |
| | `SavedBarsAreStored` | `Spec => []SavedCountIsStored` |
| | `BarsAreAddedOnce` | `Spec => []AddedOncePerAnswer` |
| | `OnlyOverlapsReplace` | `Spec => ReplacedOnlyByOverlap` |
| (of `IBClient`) | `ClientIsTyped` | `Spec => []TypeOK` |
| | `OneManagerAlone` | `Spec => []OneManager` |
| | `ConnectionsAreWatched` | `Spec => []ConnectedIsWatched` |
| (of `RedisCache`) | `NoThresholdIsMissed` | `Spec => []NoTransitionMissed` |
| (of the harness) | `ServicesBehave` | a behaviour of `MCServices` is one of each service |
| `FiniteSums` | `SumType`, `SumRemove`, `SumInsert`, `SumChange`, `SumSame`, `SumZero`, `SumSubset` | sums over finite sets |

The services that `MCServices` instantiates have their properties defined there
too, so that one run and one proof module speak of the same definitions. An
instance brings no assumptions with it: `MCServices` assumes those of its
instances once, `InstancesAssumption`, which TLC evaluates in `UC_store`. In the
theorems of `Services_proofs` `Spec` is that of the component in question;
`ServicesBehave` carries each of them over to the harness.

### The manager and the service

*Never overfilled.* The stored orders alone do not carry the induction, since a
task overwrites them with the copy it holds. `QuantityInv` adds that every copy
held by a fill task or an update task respects its own quantity. A fill is
checked against the copy it is applied to, so a write keeps the invariant however
stale the copy is: what races lose is accuracy, never this bound.

*Backed.* What survives of that accuracy is `FilledIsBacked`: no interleaving makes
a fill up. `BackedInv` says so of the copies too: a copy was taken of an order that
was backed, what has been written only grows, and a fill task about to write
is backed with the fill it holds. The initial orders are a choice, so the invariant
has them as a parameter, and the theorem picks the ones a behaviour began with.
Nothing is supposed of keys, consumers, updates or the decoding. The equality
`OrderAccountsForFills` is checked for one writer only; with order updates beside
it the code loses fills.

*Only rewritten.* A task holds a copy only of an order it found (`KnownInv`), so
what it writes back replaces an order; nothing writes `NoOrder`. `ToldInv` follows
executions and updates from the gateway through the queues to the tasks: an order
that changes is one that the gateway has reported on.

*Effects in order.* The counters of a generation and an execution keep their
order once it is added where the fill task stands: at `putPosition` the order has
been written more often than the position, at `publish` the position more often
than the event, and so on. This survives retries because a retry starts again
at the row, and aborts because nothing is undone.

*Duplicates.* A fill task at `mark` has published the event of the execution that
it holds, and events are never withdrawn, so a key in `processed_fills` stands for
a fill that was carried through. A fill is discarded only when its queue gets
shorter while the task stays where it is; no other step of any task does both,
which the proof sees from the lengths. `DroppedForAKey` supposes nothing of keys;
that the discarded fill itself was handled would need executions to have different
keys, which the code's key (order, second, quantity) does not ensure.

*No task left.* `HandlesInv`: at most one generation is being started, the stored
handles are those of the tasks that live, except between the spawn and the two
stores, and each handle is empty once `stop` is past it. With overlapping calls
the first part fails, and the property with it.

*Trading service.* An order at the market is stored because a call that may
execute has saved it (an invariant of the calls at `execute` and later) and
others do not remove orders. Refusals and events follow from invariants on where
each call stands.

*The flow.* `TradingFlow_proofs` instantiates the proofs of the manager beside
those of the service. `FlowInv` is the conjunction of both components'
invariants and of one that neither has, that the copies held by `place_order`
and `cancel_order` are within their quantities. A step of the service leaves the
manager's state alone and keeps known orders known and bounded; a step of the
manager or the market is, by `OrdersOnlyRewritten`'s lemma, a step of
`WrittenElsewhere`. So the assumption of the service is discharged, every step
of the flow is a step of the service or stutters, and `KnownAtMarket` carries
over. The first lemmas show that the manager's steps as `TradingFlow` names them
are those that the proofs are about.

*Failed placements.* A failed call has rejected the stored order, but the manager
writes it too. `ReportInv` brings in `OnlyReportedRewritten`: the market reports
only on orders that it accepted, so nobody writes an order that it did not
except calls of the service, and a cancellation of such an order is refused.

### The other components

*Risk engine.* `CallsInv` says that what has been blocking a call since it began
is blocking now, and that a call past the first section has neither the kill
switch nor the open breaker in that set; the drawdown is ruled out in the last.
The overshoot is not bounded by what is held alone, since an allowed order is
not yet a position. `RoomInv` bounds the position together with all that is on its
way by the limit and `overlap`: a check that finds room does so beside the position
it copied, and what was on the way then is what `overlap` remembers; fills,
cancellations and refusals add nothing to the sum.

*Data pipeline.* `EachBarOnce` speaks of one long sequence, on which no step is
local. `OnceInv` says the same queue by queue: none holds a bar twice, no two share
a bar, and none has a bar that has not been ingested, so that a new bar is new to
all of them. `ArrivalInv` does it for the order: each queue increases, and the last
bar of one is before the first of the next until a shutdown takes the buffer.
Both allow for bars whose save was not answered: `NeverAgain` says that a told bar
is not saved later, `Behind` that a bar which waits is newer than all that were saved
or has been saved itself, and `FirstsInOrder` that first saves come in order.
`LostOnlyWhenFull` is then a matter of sets: each step either keeps their union
or drops bars under one of the three conditions.

*Ingest.* `CommandInv` makes the buffer the run of numbers after the settled ones,
which ties it to the counters. `TableInv` distinguishes bars by whether they are
settled: an unsettled bar is in its row exactly as often as an answer about it was
lost, which is one less than what the property allows, and the save that settles
it uses that up. `ProviderInv`: whoever recorded a subscription since another
looked is in the set that the other noted.

*Event bus.* `CountInv` (fewer subscriptions are open than the bus counts, so an
uncounted publication finds none) and `MarkInv` (between the last event given
and the cursor is nothing the subscriber wants, but what has left the ring) give
the refinement: a delivery skips only events that `EventDelivery` lets it skip.
For the metrics the counters equal sums over the subscriptions, and an event in
`lost` is behind its cursor, so that a skip adds as many elements as it counts.

*IB orders.* An id in use is below the counter (`BelowInv`), and between `ask` and
`allocate` a caller holds the mutex (`LockInv`), so a new id is nobody's.
`ProgressInv` says which of the maps each call has written, and `OnePlacing` that
an order outside `repeated` is placed by one call at a time and was not placed
before: the cleanup of one failed placement can take out the entries of another.

*IB client.* `OneManager` needs that the manager of the handle has not been
aborted (`CoreInv`), since otherwise a new one beside it would not be alone.
`WatchInv` describes the time before a shutdown: the manager of the handle lives,
no manager lives without a handle, and a connection has one or a call on its way
to start it.

*Use cases, health, rate, cache.* A creation has its order to itself until it
returns (`OneCreator`, `ChangingInv`), so its row stays what it wrote; a draft that
says cancelled was withdrawn (`CancelInHand`). A probe that has not overlapped is
the only one that runs (`AloneInv`), so what it wrote and has yet to ask agree with
what it was told. The swaps of all update tasks form a chain, so that what they reported
and are about to report is at least its last link (`Lower`); of a task that is
alone its place says which part of `ingested` is not in a rate yet (`Lone`). In
the cache's breaker `NoTransitionMissed` is inductive with the types: the step
that brings a counter to its threshold is the one that sends its caller to the
transition, and what takes a caller away from it leaves the state or resets.

*Sums.* `MapThenSumSet` is a fold over a recursive function on the subsets.
`FiniteSums` shows that this function exists and that the choice of the next
element does not matter. The induction is by a smallest counterexample:
`FS_StrictSubsetOrderingWellFounded` and `WFMin` of the library take sets and not
operators as parameters, so the provers can instantiate them.

The theorems on types and `RefusalsLeaveNoTrace`, `PublishedEventsAreTrue`,
`ClosedMeansBelow`, `PeakIsNeverBelow`, `OrdersOnlyRewritten`, `OnlyReportedRewritten`,
`DroppedForAKey`, `OneConsumer`, `OneCallerAllocates`, `PassedIsGivenOrLost`, `ServicesBehave` and `FlowNeverOverfills` state what no run
lists: parts of the arguments above, or properties that runs would show less of
than the proofs.

Checked by TLC only. *Liveness* (`FillsSettle`, `UpdatesSettle`, `BatchesDrain`,
`ShutdownEndsAll`, `RecvEnds`, both `CallsReturn`, `ClosesAfterFailures`) needs fairness
and `ENABLED`, which are out of the prover's reach.
`OrderAccountsForFills` is for one writer and not proved; `PlacedMeansFilled` and
`EveryConnectionWatched` are violated. What the laws say of recursive or folded
computations is for their bounded inputs only. Every other property that a run
lists is also a theorem.

## 5. What is not modelled

- *Data.* Prices, times, reasons and the text of events are abstract where no
  property is about them; decimals are integers in units of their last place.
- *Channels.* The gateway's channels are unbounded for `OrderLifecycle`; in the
  code slow consumers may miss updates (`domain/src/execution.rs:226`).
- *The deduplication key* is order, timestamp and quantity
  (`order_lifecycle.rs:599`); executions share keys as the constant `ExecKey` says,
  and times are not modelled.
- *Dead letters of the manager*: whether one arrives depends on a queue that need
  not be there and on a `send` whose error is ignored, so none is promised.
- *Overlapping calls of `start` and `stop`* are in the model, but not in what
  `StopLeavesNoTask` says: `SerialControl` is TRUE where it is checked and a
  hypothesis where it is proved; with FALSE it fails, since `stop` finds no handle.
- *An ingest command without a repository*, which drops each batch.
- *One symbol* in the pipeline and in ingestion: several interleave like the
  bars of one. An empty list of symbols is not an instance.
- *A pipeline that is run again* after it returned; *clocks* that step back,
  which `risk/engine.rs:819` would misread.
- *Stubs.* Sends to Interactive Brokers and `do_connect` are placeholders in the
  code; the broker answers in the models in every way the callers handle. What
  the event processor of `IBExecution` does with messages is operators, since the
  loop ends before it receives any. Historical requests return nothing.
- *The paper gateway behind its panic*, except for what it computes
  (`PaperLedger`): no call gets there.
- *Dead letters*: nothing in the code calls `DeadLetterQueue.add()`, so the queue
  is operators. *Contents of the Redis cache*: keys and values pass through.
- *Configuration, logging, argument parsing, containers, schema*: read once,
  written only, or no program logic. Of the command line's
  `trading` the commands are operators, with the service and the mock repositories
  they wrap (which no longer implement their traits); `main.rs`, which parses the
  arguments, is left out. Account use cases have no repository behind them.

## 6. Plan

1. *Proofs.* `FilledIsBacked` bounds what an order is filled with; that it is the
   sum of *some* of the fills written to it needs a history of what each write
   contained. `RiskEngine`: the overshoot of the exposure limits. `UseCases`: that a
   row of a filled order agrees with the rows of its fills. `PaperGateway`: its type
   invariant.
2. *One abstract circuit breaker* that the breakers of `RiskEngine`, `DataPipeline`
   and `RedisCache` are related to.
3. *One abstract gateway* for `PaperGateway` and `IBExecution`, between
   `TradingFlow`'s market and the broker.
4. *Several symbols* in `Ingest`, and `IBClient` in place of its external link.

To run a model: `tlc -config LC_fills.cfg MCOrderLifecycle`, and likewise for the
other rows of `PROJECT.json`; to check a proof: `tlapm RiskEngine_proofs.tla`.
