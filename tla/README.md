# Verification of Lehman_Cousins in TLA+

Lehman_Cousins is a trading engine in Rust: it keeps an order book in step with
an exchange, lets strategies trade on it, and passes their orders through risk,
rate and nonce checks. This directory holds TLA+ models of its parts, TLC
configurations that check them on small instances, and TLAPS proofs that hold
for every instance. File names below are relative to the repository's `src/`.

To check a model, `tlc -config <cfg> <module>`; to check proofs,
`tlapm <module>Proofs.tla`. `PROJECT.json` lists the runs, the source lines of
every definition, the hazards and the findings.

## 1. Inventory

| Part | State | Operations | Correct when |
|---|---|---|---|
| Order book (`core/orderbook.rs`) | two sorted vectors, a sequence number | `apply`, best price queries | it holds the levels the applied updates describe, sorted, without duplicates |
| Book synchronizer (`exchange_clients/book_sync.rs`, `core/feed_state.rs`) | feed state, book, delta buffer, generation, watch channel | `on_ws_connected`, `push_delta`, `on_snapshot_received`, `on_ws_disconnected` | a Live book is the exchange's book, and an open stream gets to Live |
| Order manager (`order_manager/manager.rs`) | owns the risk manager, the bucket, the nonce generator, a watch receiver | `submit_order` | nothing is sent off a Live feed, over the cap, over the rate, or with a stale nonce |
| Risk manager (`risk_manager/manager.rs`, `checks.rs`) | atomic open-order count, position tracker | `validate_order`, `on_order_opened`, `on_order_closed`, `on_execution_report` | the count is the number of open orders |
| Token bucket (`order_manager/rate_limiter.rs`) | level, time of last update, two mutexes | `consume`, `available_tokens` | grants in every window stay under burst plus inflow; `retry_after` is honest |
| Nonce generator (`order_manager/nonce.rs`) | an atomic counter | `next` | nonces increase, for all callers together |
| In-flight tracker (`order_manager/in_flight.rs`) | map of pending orders with filled quantity | `register_order`, `process_execution`, reaper | each fill counts once, no order is leaked or forgotten |
| Position tracker (`risk_manager/inventory.rs`) | map of positions | `apply_execution`, `set_position` | a position is the account's but for the fills not reported yet |
| Engine (`engine.rs`) | broadcast bus, order channel, tasks | `run` | events reach strategies, orders reach the worker, shutdown leaves none open |
| WebSocket client (`exchange_clients/websocket_client.rs`) | attempt count, time of last pong | `run`, `connect_and_stream` | a dropped connection is noticed and re-established |
| Configuration (`config.rs`) | the environment | `from_env` | nobody trades without credentials, or with others than the operator named |
| Entry point (`main.rs`, `telemetry.rs`) | none | `main`, `init`, `start_metrics_exporter` | each step comes before what needs it |
| Retry helper (`utils/retry.rs`) | attempt count, delay | `retry_exponential` | bounded attempts, growing delays |
| Backtest (`bin/backtest.rs`) | cash, position | `execute`, `calculate_mtm` | the profit reported is what the market moved, less spread and fees |
| Instrument (`core/instrument.rs`) | tick and lot sizes | `round_*`, `format_order` | the result is a multiple, not above the input |

Interaction. The synchronizer publishes its feed state on a `watch` channel;
`submit_order` reads the receiver once per order. The order manager calls the
risk manager, the bucket and the nonce generator synchronously, then awaits the
exchange. Strategies get events from a `broadcast` channel and put orders into
an `mpsc` channel; the execution worker takes them out, validates and registers
them in the in-flight map, which the reaper task scans. Nothing in the
repository yet connects the WebSocket client to the synchronizer, the engine to
the order manager, or the in-flight tracker to the position tracker: the models
put the drivers that the doc comments describe (capture `generation()`, spawn
the REST task, hand back the answer; hand a report's delta on) into the
environment.

Hard behaviour: snapshot and deltas racing (`BookSync`), late answers of dead
connections, overflow on an open stream, check-then-act on shared counters
(`OrderManager`), unanswered requests, lock-free counters under a stepped clock
(`NonceGenerator`), restarts that lose the counter, lost and repeated execution
reports with the Reaper in between (`InFlight`), a timer racing the frames it
judges (`WebSocketFeed`), a lagging bus and a full channel (`Engine`), a read
under two locks taken one after the other (`RateMetrics`), binary searches in
vectors that the search itself keeps sorted (`OrderBookSlab`), a signal before
its handler (`Startup`).

## 2. Modules

| Module | Models | Proofs |
|---|---|---|
| `OrderBook` | `OrderBook::new`, `apply`, `apply_batch` as operators on values | used by `BookSync`, `BookFeed`, `LevelBook` |
| `LevelBook` | abstract: a call of `apply` takes the book's value to what `OrderBook` says | - |
| `OrderBookSlab` | the sorted vectors, `apply_batch` level by level, the queries | `OrderBookSlabProofs` |
| `BookFeed` | abstract: what a synchronised book promises its readers | - |
| `BookSync` | `BookSynchronizer` with the stream, the REST tasks and the driver | `BookSyncProofs` |
| `TokenBucket`, `RateLimiter` | `TokenBucket::consume`; a bucket in use by any number of callers | `RateLimiterProofs` |
| `RateMetrics` | `RateLimiter` with a reader of `available_tokens` | `RateLimiterProofs` |
| `NonceGenerator` | `NonceGenerator::next`, step by step | `OrderManagerProofs` |
| `OrderManager` | `submit_order` by many tasks; composes `TokenBucket`, the risk checks, the nonce and the exchange | `OrderManagerProofs` |
| `InFlight` | `InFlightTracker` and the Reaper against the exchange's private stream | `InFlightProofs` |
| `Inventory` | `InFlight` composed with `PositionTracker` | `InFlightProofs` |
| `OrderFates` | abstract: what becomes of the orders that strategies make | - |
| `Engine` | `Engine::run`: strategies, bus, order channel, worker, shutdown | `EngineProofs` |
| `Startup` | `Engine` inside the process: `main`, `from_env`, telemetry, signal handlers | `EngineProofs` |
| `WebSocketFeed` | `WebSocketFeedClient`: `run`, `connect_and_stream`, and the peer | `WebSocketFeedProofs` |
| `Backtest` | the backtest runner: records, `DummyStatArb`, `PaperTrader` | `BacktestProofs` |

The `MC` modules give the constants their values for TLC.

### OrderBook

A level is a side with a price. The two vectors of the code are abstracted to
the function from levels to quantities they stand for, 0 meaning no entry.
`Apply` has the code's rule that an update not newer than the book is dropped.

### OrderBookSlab, LevelBook

`slab` is the pair of vectors `bids` and `asks`. `StartApply` or `DiscardStale`
begins a call of `apply`, `ApplyLevel` is one iteration of `apply_batch` (search,
then remove, replace or insert), `FinishApply` the return, `Renew` the new book of
`reset`. `partition_point` is specified as the library documents it: on a vector
that is not partitioned it may return any index, so that a loss of order shows.
The comment of `apply_batch` has it "re-sort once"; it never sorts, and relies on
each insertion keeping the order, which is what `SlabsAreSorted` checks.
`LevelBook` is the promise: between the begin and the end of a call the value is
the old one, after it what `Apply` of `OrderBook` gives. `before` is the history
variable that the refinement shows as the value. An update that lists a price
twice leaves it with the last quantity (`ChangesOf`).

### BookSync

`state` and `snapshotSeq` are `FeedState` (the payload of `Syncing` split off);
`book`, `buffer`, `generation` are the fields of the same names. One action per
method outcome: `OnWsConnected`; `PushDelta` with `DiscardDelta`, `BufferDelta`
(overflow included) and `ApplyDelta`; `OnSnapshotReceived` with
`SnapshotDiscarded` (stale generation or wrong state), `SnapshotTooOld` (the gap
guard) and `SnapshotApplied`; `OnWsDisconnected`. Methods take `&mut self`, so
none starts while another runs. The drain is nevertheless modelled as
iterations (`DrainDelta`, `FinishDrain`): the watch channel already shows
`Syncing`, and the exchange and the REST tasks go on meanwhile.

The environment: the exchange publishes numbered updates (`deltas`) and `truth`
records its book after each; a stream delivers in order what is published after
it opened, and dies with what is undelivered; REST tasks capture the generation
and their answers arrive in any order, however late, or never. `RestLag` is how
many updates an answer may be behind the exchange when it is made.

`BookFeed` says what the readers get: when live, the exchange's book at some
sequence, moving one update at a time. `ImplementsBookFeed` is the refinement,
with the book shown as empty while the feed is not Live.

### RateLimiter

`consume` holds its first lock from beginning to end, so a call is one step. The
`f64` level is counted in units (`TokenUnit` per token, `FillRate` per tick);
the rounding of the level is left out. A tick is the resolution of a `Duration`, a
nanosecond: `retry_after` goes through `from_secs_f64`, which rounds to the
nearest one, so `RetryAfter` rounds to the nearest tick, a tie to the even one,
and can bring a caller back up to half a tick before its token is there.
`grants` and `promises` are history variables: when tokens were granted, and
the times that the callers refused since the last grant were told to come back
at.

### RateMetrics

`available_tokens` releases its first lock before it takes the second and reads
the clock after both: `ReadTokens`, `ReadLastUpdate` and `Return` are separate
steps, with any calls of `consume` between. Its comment promises "an accurate
instant value" (`order_manager/rate_limiter.rs:76`). What it returns is at most
the level plus what was granted meanwhile, and misses at most the time that
`consume` credited meanwhile, which can be a long idle time: `ReadingIsBounded`
states both, and with no `consume` in between it says that the value is exact.

### NonceGenerator

Each call is `ReadClock`, `FetchMax`, `FetchAdd`; other calls and steps of the
clock, forward and back, come in between. `Restart` is a new process with a new
generator, which starts from the clock, after any time: the counter is not
persisted. Two things can make a new process repeat nonces of the old one, and
each has a history variable, which never goes back to false. `setBack`: the clock
has once moved backwards, in whichever process, even if it has caught up since.
`hasty`: a process has once started before the clock had made up for `burst`, the
nonces that the process before it drew beyond one per tick; a counter runs ahead
of its clock by no more than that. With neither, nonces increase across restarts
too, and the run fails without either premise. Both are left to the operator: the
code neither saves the counter nor waits.

### OrderManager

A task runs through `idle`, `checked`, `validated`, `admitted`, `ready`, `sent`
and then `accepted` or `refused` on the exchange's side, back to `idle`. The
checks are separate steps because tasks on other threads change what they read.
`AnswerLost` is `place_order` returning an error for a transport failure, or its
future being dropped: the request may be open, on its way, or gone, and
`strays` and `lost` count such requests. `OrderCloses` changes only the
exchange: the risk manager is a private field and nobody calls
`on_order_closed`. A nonce is drawn in one step, which `NonceGenerator`
justifies. The feed state is a Boolean that changes at any time, which is what
`BookSync` allows.

### InFlight

`pending` is the map, as a function on the orders tracked. `process_execution`
is `ProcessExecution` and, for a settled order, `RemoveSettled`: the entry's lock
is dropped in between, and the Reaper runs in parallel. `WakeReaper` is its scan,
`PurgeGhost` one removal. The Reaper is the only reader of the timestamps, so an
age is counted in its wakes; more than 30 s on a timer of 10 s is more than three
wakes. `counted` is what a caller that adds up the deltas holds. The exchange
reports an order's every move in order; the stream can drop with what is
undelivered, and the exchange can repeat an order's present status.
Reports carry the quantity executed so far, as the code of `process_execution`
takes it; the comment at `core/models.rs:53`, "filled in this specific report",
describes the other convention, under which its deltas would be wrong.

### Inventory

`positions` is the map, as a function on the symbols that have an entry. A report
is taken by `ConsumeReport`, which is `ProcessExecution` of `InFlight`, and its
delta given to `ApplyExecution`, with the exchange, the Reaper and the removal of
settled entries in between. `SetPosition` and `EndBoot` are the boot
reconciliation that `engine.rs:47` sketches; orders are registered after it.
`Account` is the truth: the holdings at the start and the exchange's fills since.
Two history variables say what the tracker has been told, independently of what it
made of it: `reported` is the largest executed quantity in the reports of an order
that `process_execution` took, and `unheard` are the orders whose newest report
was lost with the stream, or can no longer be taken because the Reaper purged the
entry. `PositionsMatchTheAccount` says that a position is what was held at the
start plus `reported`, order by order, so that no repeated fill is added twice; and
that it is the account's once the newest reports of the orders on its symbol have
been taken, even if those of earlier fills never arrived.

### Engine

One action per step of a task. The bus keeps `BusCapacity` events; a strategy
whose next event is gone gets `Lagged`, and its loop ends (`StopLagging`).
`on_event` may make any number of orders up to `MaxPerEvent`; each is a
`TrySend`, with the worker and the other strategies in between. `refused` is a
history variable: the code only logs an order that the channel or the risk check
turns down. The risk check's verdict depends on the order's notional, which is
abstracted away, so the worker may `Reject` or `Register` any order. The channels
of the code hold 4096 events and 1024 orders; nothing depends on the numbers.

`OrderFates` is what the engine promises of those orders: each is refused or
registered, once; the orders of one strategy are registered in the order it made
them, although any of them may be refused in between; and nothing is decided
after the end of the process. `ImplementsOrderFates` is the refinement. It forgets
the bus, the batches, the channel and the worker, and shows `phase` as `ended`.

At the signal no task is told anything: `Return` ends the process with orders in
the channel and strategies whose `on_stop` is not called, whereas the comment at
`engine.rs:69` has run shut down each task gracefully.

### Startup

`stage` is the step of `main` that comes next, or how the process ended. Variables
of a kind are one variable, and a value stands for where it comes from. `dotenv`
adds what is not exported (`Hydrated`); `LoadConfig` is `from_env`, with its three
kinds of failure and the fallback of the `env_` helpers. The tasks of `Engine` run
from `StartEngine` on, the signal is theirs from `InstallHandlers` on: before,
a signal ends the process (`Kill`), and so does a failure to install the handlers
(`InstallFails`), with whatever the strategies have sent by then.

### Backtest

`ReadRecord` parses a record and runs `on_event`; `Execute` is `execute` for one
order; `Report` takes the mark-to-market at the last quote, `BadRecord` is a
record that ends `main` with an error. Decimals are whole numbers of a unit small
enough for a fee; values at a mid price are doubled. `carried` and `costs` are
history variables: what positions gained while held, and what executions lost.

### WebSocketFeed

`phase` is where `run` is, `attempt` its counter. The locals of
`connect_and_stream` are kept as times relative to now: `untilPing` and
`sincePong`. The two arms of `select!` are `SendPing`, `HeartbeatTimeout`,
`PingFails` and `ReadFrame`, `ReadLast`, in any order when both are ready, as
`select!` chooses at random. `Break` stands for what follows the loop and for
`run` returning. `Late` bounds how long a ready task waits for the scheduler,
`RoundTrip` how long a live peer takes to answer; the timer keeps its schedule
when it is served late, as Tokio's default does.

## 3. Runs

| Run | Shows | Bounds |
|---|---|---|
| `booksync` | all six properties of `BookSync`, refinement and liveness included | 3 updates of 3 kinds on 2 levels, buffer of 2, connections while the generation is below 2, 2 REST tasks: overflow, gap, stale answer, drain of 2 and Live deltas all occur |
| `order_book` | type, `SlabsAreSorted`, `QueriesAreExact`, refinement of `LevelBook` | 3 prices, updates of up to 2 listed levels on either side: insertion at every index, removal, a new quantity, a deletion of nothing, a price listed twice |
| `rate_limiter` | `RateIsBounded`, `ReadingIsBounded`, `RetryAfterIsAccurate` | a clock of 9 ticks, long enough to empty, refill and cap the bucket; 7 units to a token and 4 a tick, so that a wait is rounded up, down and at a tie; a reader at any time |
| `nonces` | `NoncesIncrease`, `NoncesFollowTheClock`, `RestartsKeepNoncesIncreasing` | 3 tasks, a clock that moves to any value up to 3, 2 restarts at any clock |
| `order_manager` | type, `OverrunIsBounded`, `LateOrdersAreBounded` | 3 tasks, cap 1, burst 3 plus one refill: one more order than tasks can be sent |
| `in_flight` | type, what is counted and in which position, what is dropped and when, `MapIsFreed` | a buy and a sell of quantity 2 in one symbol, held or not at the start, and a second symbol: partial fills, a settled and a live order together; a timeout of 1 wake; 1 loss |
| `engine` | type, `OrdersAreAccountedFor`, `TradesAsTheOperatorSays`, refinement of `OrderFates`, `StrategiesKeepUp`, `QueueIsServed` | 4 settings of shell and file, of which one gets through `from_env` and the others fail in it, each for another reason; 2 strategies, 2 events with up to 2 orders each, a bus of 1 and a channel of 2: lag, a channel that is full in mid-batch, and two orders of one strategy waiting together occur |
| `websocket` | type, heartbeat, events, attempts, `RunGoesOn` | interval of 4 ticks, 1 tick for an answer and for the scheduler, inbox of 2; 9 attempts, so that the cap of the back-off is reached |
| `backtest` | `ProfitIsAccountedFor`, `ExecutionsNeverGain` | files of 3 records, 18 quotes: both thresholds from either side and at them, a crossed quote |

The type invariants of `RateMetrics` and `NonceGenerator` are not among the runs'
properties: they are proved (section 5), and the properties that are there
exercise the same bounds.

Some properties of the runs need a word.

- `LiveBookIsExact` relates the book to the exchange's history, not to anything
  the synchronizer keeps; `NothingDeliveredIsLost` adds that the book is not
  behind what the stream has delivered.
- `RateIsBounded` speaks of every window between two grants. A bound counted
  from the start would miss a bucket that credits the same time twice late.
- `RetryAfterIsAccurate` speaks of callers that other callers' refusals interrupt:
  those refill the bucket and move `last_update`. The code promises that the
  caller "knows exactly how long to wait" (`order_manager/rate_limiter.rs:49`).
  That is so to the nanosecond: nobody is served before the announced tick, and
  nobody is refused after it. At the tick itself a caller can be refused: at three
  tokens a second, 333,333,333 ns leave the token a fraction short.
- `OverrunIsBounded` is what the code does promise about the cap, given that
  the cap itself can be exceeded (see below): one order per other task, and one
  per lost answer. The bound is reached. `LateOrdersAreBounded` is the same kind
  of promise for the feed check, which `submit_order` makes once, at its start.
- `ImplementsOrderFates` is about two strategies whose batches interleave, with a
  channel that overflows in the middle of them and a process that ends anywhere.
  Two orders of a strategy wait in the channel together, so that a worker that
  took the last first would be noticed; the theorem has the channel at any length.
- `OpenStreamGoesLive` is checked in a market that ends, since the exchange
  publishes at most `MaxSequence` updates. In a market that is never quiet the
  gap guard can fire at every attempt and the property is false of the code:
  nothing in it makes a snapshot newer than the front of the buffer.

- `NothingIsCountedTwice`, `DeltasAreNotNegative` and `SettledOrdersAreExact`
  together say what cumulative quantities are for: a position fed with the deltas
  never runs ahead of the exchange, never goes back, and has caught up once an
  order's last report is in. They hold although reports are lost.
- `DeadPeerIsNoticed` and `PromptPeerIsKept` are the two sides of the heartbeat.
  Twice the interval is enough for the second exactly as long as an answer,
  with the wait of the task before and after, takes less than one interval.

- `StrategiesKeepUp` holds although the worker is not assumed to run, which is
  what `try_send` is for; `QueueIsServed` states its own assumption, a worker that
  goes on running.

- `ImplementsLevelBook` compares each call with a function of the whole update,
  while the code goes through it one level after another.
- `ExecutionsNeverGain` excludes crossed quotes, against which a buyer at the ask
  does gain; `ProfitIsAccountedFor` holds with them.

Facts about the code that need no run, because a reader sees them once told:

- The open-order count is read before `place_order` and raised after its answer,
  so submissions that overlap pass at the last free place, and the cap that
  `risk_manager/checks.rs:10` speaks of is exceeded; `OverrunIsBounded` says by how
  much. And nothing calls `on_order_closed`: the count never falls, and once it
  reaches the cap every order is refused, with none open. No property demands that;
  `OverrunIsBounded` takes the count as it is.
- `config.rs:4` says that "a missing or invalid variable kills the process". That
  is so for the required ones and the port; any other that does not parse has
  its default (`OrDefault`), the risk limits included.
- The repository's `README.md:34` says that file-based `.env` loading "is vanished" in favour of a
  secret store; `main` calls `dotenv` and `from_env`, and nothing `load_async`.
- Its line 18 forbids blind startups; the reconciliation is a comment in
  `Engine::new`.

Two weaker points. A snapshot that ends
just before the first buffered delta is contiguous with it and still resets the
synchronizer as a gap (`BehindBuffer`): needless, but safe. And requests can
leave in another order than their nonces were drawn, since the nonce precedes
the await; today the nonce goes to the log only.

`CHECK_DEADLOCK FALSE` is set where the system may really stop: in `BookSync` with
the bounds used up and the stream down, in `InFlight` when every order is settled
and none is tracked, in `Startup` when the process has ended, in `WebSocketFeed` when
`run` has returned, in `Backtest` at the end of the file.

Runs that find a violation, each about a sentence of the repository:

| Run | What the code does |
|---|---|
| `booksync_lagging_rest` | With an empty buffer the gap guard is skipped. A snapshot one update behind the stream goes Live with that update missing, and no later delta reveals it. |
| `in_flight_reaper` | An order that rests on the exchange for longer than the timeout is forgotten, with no report lost and the exchange not asked. |
| `websocket_returns` | A dropped connection makes `run` return `Ok`; only a failed connect is ever retried. |

## 4. Fairness

Four runs assume fairness.

`booksync` (`Fairness` in `BookSync`): weak fairness on the synchronizer's own
steps and on deliveries: they are Tokio tasks the runtime keeps polling once they
are ready. Weak fairness on `RequestSnapshot`: the driver goes on asking while
the feed buffers. Strong fairness on `Respond`: requests may fail, but an
exchange asked again and again answers at last. Publishing, opening and dropping
streams and failing requests are not assumed to happen.

`in_flight`: weak fairness on the Reaper alone (its scan and its removals), a task
on an interval that nothing stops. `MapIsFreed` holds even if no report ever arrives.

`engine`: weak fairness on each strategy's task, once it is spawned. `QueueIsServed` adds weak
fairness on the worker, in the property itself.

`websocket`: weak fairness on `sleep` and on the loop of `run`, and none on
`connect_async`: it covers TCP, TLS and the HTTP upgrade without a timeout, and a
peer that accepts and never answers keeps `run` in the attempt for ever, which
`max_reconnect_attempts` does not count. `RunGoesOn` says that this is the only
thing that does; without its first disjunct TLC shows the hang. Nothing is
assumed of a connection that is up: that a silent one ends is the invariant
`DeadPeerIsNoticed`.

## 5. Proofs

All of them hold for every value of the constants that satisfies the named
assumptions in the modules.

- **BookSync.** `TypeCorrect` and `BaselineAlwaysClean` need nothing else.
  `LiveBookAlwaysExact`, `NothingDeliveredEverLost`,
  `LiveBookAlwaysContiguous` and `BookSyncImplementsBookFeed` assume `RestLag = 0`
  and an exchange whose book is empty at sequence 0: these are the two
  assumptions the code makes without saying so. The run `booksync_lagging_rest`
  shows that the first is needed. So is the second: `apply` discards a snapshot
  numbered 0, since a new book has that sequence, and the feed goes Live without
  its levels. The invariants the theorems state are not inductive. The
  inductive one adds that the buffer is a run of consecutive deltas that ends
  just before the stream's next one; that the deltas of a generation on an open
  stream leave no hole between `requested` and the buffer (a response of the
  present generation is at least as new as the update before the stream's
  first); and, while draining, that the book together with the rest of the
  buffer is contiguous.
- **RateLimiter.** `RateAlwaysBounded` rests on an invariant that ties the level
  to every suffix of the grants: the tokens granted since grant `i` plus the
  present level are at most the burst plus the inflow since. The products of
  constants and times are hidden behind definitions, because the provers treat
  only linear arithmetic reliably. `RetryAfterAlwaysAccurate` follows from
  the fact that at a promised tick the level will be within half a tick's inflow
  of a token, which refusals do not change and grants make void: a tick earlier it
  is less than a token, a tick later at least one. It assumes that the burst is at
  least one token, without which no caller is ever served.
- **NonceGenerator** (in `OrderManagerProofs`). The invariant says that every nonce returned is at most
  the counter, and that a call between its two atomic steps has seen a counter
  no greater than it is now and has raised it to its clock.
  For `RestartsAlwaysKeepNoncesIncreasing` it adds, on a clock that never moved
  back and without a hasty start, that no nonce sent by any process is above the
  counter, and the counter not above the clock plus the burst.
- **OrderManager.** `OverrunAlwaysBounded` counts tasks: one part of the
  invariant bounds the open count plus the tasks past the risk check, the
  other bounds the orders on the exchange by the open count, the lost answers
  and the tasks not yet answered. `LateOrdersAlwaysBounded` counts the orders
  sent since the feed was lost plus the tasks that are past the feed check.
  The lemma `Moves` says how a task's step changes such a count.
  `ConfirmedOrdersAlwaysBounded` is what the first part of the invariant means for a count that nothing lowers: a
  manager with a cap above zero has fewer orders confirmed in its whole life than
  cap and tasks together.

- **InFlight.** The invariant relates three quantities per order: what is
  counted, what a report under way says, and what is executed, in this order; and
  a report that settles its order agrees with the exchange. Reports of one order
  do not go back along the stream, which is why a lost one does no harm.
- **WebSocketFeed.** `DeadPeerAlwaysNoticed` rests on the sum of the time since
  the last pong and the time to the next ping, which ticks do not change, and on
  `overdue` covering the time a ping is late. `PromptPeerAlwaysKept` distinguishes
  a ping under way, a pong that waits in the inbox, and neither, and bounds the
  same sum in each. Its premise, that an answer takes less than an interval, is
  part of the property.

- **OrderBookSlab.** `SlabsAlwaysSorted` splits a vector at the index that
  `partition_point` returns; that such an index exists is a lemma about sorted
  vectors, by the least index at which the comparison fails. The refinement adds
  to the invariant what a batch in progress owes: the levels of the vectors,
  overwritten with what is left of the lists, are the levels of `before`
  overwritten with all of the update. `QueriesAlwaysExact` follows from order and
  from `before` being the vectors' value between calls.
- **RateMetrics.** `MetricsContainRateLimiter` carries the theorems of
  `RateLimiter` over. `ReadingAlwaysBounded` compares the bucket now with the fields
  read: the level with the time credited up to now has grown by no more, and
  shrunk by no more than the grants, from the first lock on.
- **Inventory.** `InventoryContainsInFlight` carries the theorems of `InFlight` over;
  `InventoryTypeCorrect` needs the order of counted, reported and executed
  quantities for the delta to be between zero and the order's quantity.
  `PositionsAlwaysMatchTheAccount` is about sums over the orders of a symbol. The
  invariant says that before the end of the boot reconciliation nothing is
  counted and every entry is the account's, and that from then on a position, with
  the delta that is about to be added, is what was held at the start plus the sum
  of what is counted, which is `reported` order by order. A sum is a fold over a
  set; its definition is unfolded once, and what the proof needs (there is exactly
  one sum; it changes by as much as the one term that changes) follows by taking a
  smallest set for which it fails. For the account, `NewsInv` says that of an order
  not in `unheard` all that is executed is counted or told by a report in the
  stream, and that such an order, once it is no longer tracked, is over or not yet
  sent, so that nothing can be added behind the tracker's back.
- **Engine, Startup.** `OrdersAlwaysAccountedFor` counts, per strategy and number,
  the places in four collections. The invariant says that what is unsent is the
  run of the last numbers made, in order, and that the channel holds each order
  once and no order that is unsent, refused or in flight; so that each of the four
  counts is 0 or 1 and exactly one is 1. `AlwaysTradesAsTheOperatorSays` adds how
  far the environment, the configuration and the tasks are at each stage.
  `EngineImplementsOrderFates` strengthens the first invariant by `OrderlyInv`: the
  numbers of a strategy's orders increase along the channel, and those in it are
  above those registered. Each step then maps to a step of `OrderFates` or none: a
  batch to `Make`, an order that finds the channel full or fails the risk check to
  `Refuse`, the worker's to `Register`, the end of the process, in whichever way, to
  `End`.
- **Backtest.** The invariant says that twice the value of cash and positions at the
  last mid price is twice the initial cash plus what the positions gained while
  held, less the costs. Each kind of step adds the same to both sides; the
  products of prices and quantities are taken apart by lemmas of their own, one
  per distribution, and hidden from the arithmetic that remains.
  `ExecutionsCanNeverGain` is one step of it; `TradingItselfNeverPays` sums up the
  costs of any number of steps and assumes that no quote is crossed, without which
  it is false.

Checked by TLC only: `OpenStreamGoesLive`, `MapIsFreed`, `RunGoesOn`,
`StrategiesKeepUp` and `QueueIsServed`, since liveness is out of the prover's reach,
and the runs that find a violation. Every safety property of a run that passes is
stated by a theorem; those of `BookSync` but two under the assumptions above.

## 6. Not modelled

See "components" in `PROJECT.json`. Left out for good:

- `retry_exponential`, `load_async` and `AlertNotifier`: nothing calls them, and
  each is one future without shared state.
- Instrument rounding: not called, one division each.
- The Bybit adapter and the REST builder: the methods return constants or errors,
  and the stream parses frames without forwarding them.
- The traits and data types, helpers on floating-point data, the database schema
  (no code opens the database) and packaging.
- `on_order_closed`, `trigger_halt` and `check_price_sanity` of the risk manager:
  no caller.

Order types and wall-clock
timestamps do not influence control and are abstracted away. `wrapping_add` on
the generation and the nonce is taken as addition: 64 bits do not wrap in the
life of a process.

## 7. Plan

Every component that keeps state and has a caller is modelled, and every safety
property of the runs is proved. What would add most next:

1. `TradingSystem`: `BookSync` and `OrderManager` composed through the watch
   channel, in place of the Boolean feed, once the code connects the two.
2. The boot reconciliation and the worker's request, when they are written: a
   restart with open orders is the hazard that nothing covers today.
3. A theorem on what a Live book still guarantees when REST answers lag: the
   levels that no update has touched since the answer was made.
