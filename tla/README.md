# A TLA+ development of bitquant

bitquant (`bitquant_cpp/`) is a C++ trading framework: exchange gateways, an
event-driven main engine with an order management engine (OMS), a risk manager,
a trading engine that runs strategies, a paper broker, a backtesting broker with
an optimizer, and the threads, buffers and storage beneath them. This directory
models how its state changes: an order's way from a request to the exchange and
back into every cache, book and strategy that counts on it; what strategies,
brokers and statistics make of one another; and the threads that must not lose
a wake-up. Paths below are relative to `bitquant_cpp/`.

## Inventory

| Component | State | Operations | Talks to |
|---|---|---|---|
| Spot gateway (`src/exchange/binance_spot_gateway.cpp`) | `orders_` under `orders_mutex_`, `connected_`, `listen_key_` | connect, close, send, cancel, `process_order_update` | REST client (blocking calls of any thread), WebSocket client (its thread calls `process_order_update`), order and trade callbacks |
| REST and WebSocket objects of the spot gateway (`binance_spot_rest_api.cpp`, `binance_spot_ws_api.cpp`) | listen key, connection | requests; dispatch of messages | exchange, gateway |
| WebSocket client (`src/exchange/websocket_client.cpp`) | io context, I/O and monitor thread, connection state, subscriptions under a mutex | connect, close, subscribe, unsubscribe, reconnect | exchange, handlers |
| Event engine (`src/engine/event.cpp`) | `queue_`, `active_`, two threads, handlers | start, stop, put, worker, timer | everything that puts events; handlers |
| OMS engine (`src/engine/main_engine.cpp`) | `orders_`, `active_orders_`, `trades_`, positions, ticks, ... under `data_mutex_` | one handler per event type, queries | event engine |
| Main engine (same file) | gateways, `running_` | add gateway, start, stop, connect, send, cancel | gateway callbacks become events; risk check before a send |
| Risk manager (`src/engine/risk_manager.cpp`) | flow, trade and cancel counters, an active order book per symbol; no lock | `check_risk`, `on_order`, `on_trade`, `on_timer` | main engine, trading engine, strategy manager |
| Trading engine (`src/engine/trading_engine.cpp`) | exchange, risk manager, strategies | connect, send, cancel, callbacks | gateway, risk manager |
| Strategy manager (`src/engine/strategy_manager.cpp`) | life cycle per strategy, symbol and order id maps, one mutex | add, init, start, stop, remove, ticks and bars, order routing | strategies, brokers, risk manager |
| Strategy context (`src/engine/strategy_context.cpp`) | position, average price, cost, profit | trades, save, load | state file |
| Paper broker (`src/engine/paper_broker.cpp`) | open orders, positions, average cost, cash | send, cancel, fills on ticks and bars | strategies, market data thread |
| Backtesting broker (`src/engine/broker.cpp`) | limit and stop books, position, cash | send, cancel, a walk of each book per bar | strategy callbacks inside the walks |
| Templates (`src/engine/strategy.cpp`, `src/strategy/validation_strategy.cpp`) | target and order ids; position, entry price, exits | on_bar, on_order, on_trade | backtesting broker |
| Built-in strategies (`src/strategy/builtin_strategies.cpp`) | indicators | on_bar | backtesting broker |
| Grid strategy and market state analyzer (`src/strategy/grid_martin_strategy.cpp`, `src/data/market_state_analyzer.cpp`) | grid positions, FIFO of buys, market state; band buffer, confirmation | on_init, on_start, on_bar | strategy manager, paper broker |
| Offset converter (`src/exchange/offset_converter.cpp`) | position and frozen volume per side | convert, register, trade, order | caller, exchange events |
| Optimizer and statistics (`include/engine/strategy_optimizer.hpp`, `src/statistics/performance.cpp`) | futures, progress, best result | optimize, calculate | backtests in threads of their own |
| Thread pool, logger (`src/utils/`) | task and message queues, flags, threads | submit, wait, pause, stop; log, set_async, shutdown | any thread |
| Bar generator, ring buffer, price smoother (`src/data/`) | the bar being built; arrays with a head; average and pending outlier | ticks, bars, prices | market data thread |
| Database (`src/database/sqlite_database.cpp`) | one SQLite connection under a mutex | save, delete, query | any thread, SQLite |
| USDT and OKX gateways (`binance_usdt_*.cpp`, `okx_gateway.cpp`) | orders, ids, subscriptions | connect, close, send, subscribe, order updates | nobody yet: neither sends to an exchange |

What is hard here. Two connections to the exchange have no common order, and
reports are lost while the stream is down. Callbacks run under a mutex on foreign
threads, or in the middle of a walk over the book they change. A queue between
gateway and OMS survives stop and start. Counters and books are checked before a
send and updated after it. A strategy books what it orders, not what it gets.
Threads notify without the mutex the waiter holds. A transaction is several
statements of a connection that others use in between. `PROJECT.json` lists the
hazards line by line, each with the properties that would catch it.

What makes the components correct. The gateway's cache converges to the exchange
and its trades add up. The OMS follows its gateways in order. The risk book never
misses a live order. A broker fills each order once, and its money is what its
positions cost. A strategy's books agree with its broker's. Whoever waits is
woken. What was acknowledged is on disk.

## Modules

| Module | Models | Uses |
|---|---|---|
| `OrderTypes` | statuses, `is_active`, `status_from_binance` | |
| `SpotGateway`, `SpotGatewayProofs` | the gateway, the exchange and both channels; its theorems | `OrderTypes` |
| `EventEngine` | queue, worker, timer, start and stop | |
| `OmsEngine` | order and trade handlers | `OrderTypes` |
| `MainEngine`, `MainEngineProofs` | gateway → queue → OMS, and the application thread; its theorems | `SpotGateway`, `EventEngine`, `OmsEngine` by `INSTANCE` |
| `OmsRecords` | several gateways and every query of the OMS | `OmsEngine` |
| `RiskManager` | checks, counters, active order book | `OrderTypes` |
| `TradingEngine`, `TradingEngineProofs` | gateway and risk manager in LIVE mode; its theorems | `SpotGateway`, `RiskManager` |
| `StreamFeed` | abstract: what a market data connection promises | |
| `WebSocketClient`, `WebSocketClientProofs` | the client's three threads, shown to implement `StreamFeed`; its theorems | `StreamFeed` by `INSTANCE` |
| `MarketStateAnalyzer`, `PaperBroker`, `GridMartin` | the parts of grid trading | each other |
| `PaperTrading` | their composition with the manager's life cycle | `GridMartin` |
| `PaperAccount` | the paper broker whole, with its account | |
| `StrategyContext` | position and profit of one strategy, saved and loaded | |
| `BacktestBroker` | matching, callbacks and money of a backtest | |
| `TargetPosition`, `ValidationStrategy`, `BuiltinStrategies` | strategies on it | `BacktestBroker` |
| `SimulatedTradingProofs` | theorems about the grid, the two brokers and the strategies | `MCSimulatedTrading`, `Sums` |
| `OffsetConverter` | the split of a close order | |
| `OffsetConverterProofs` | its theorem | `MCSimulatedTrading`, `Sums` |
| `OptimizerRuns`, `PerformanceStats` | parallel backtests; what is made of the trades | |
| `StrategyRouting` | many strategies, their symbols and order ids | |
| `ThreadPool`, `AsyncLogger` | threads and condition variables | |
| `BarGenerator`, `RingBuffer`, `PriceSmoother` | market data | `RingBuffer` under `PriceSmoother` |
| `DatabaseStore` | saves, transactions, crashes | |
| `SimulatedGateways` | the USDT and OKX gateways | |
| `Sums` | theorems about sums over finite sets and folds that add | |
| `ComponentsProofs` | theorems about the ring buffer, the bars, the database, the manager's maps, the simulated gateways and the OMS's queries | `MCComponents`, `Sums` |

`MC*` modules give the constants of the instances. Two of them also put parts that
never meet next to each other, one per behaviour: `desk` of `MCSimulatedTrading`
and `unit` of `MCComponents` say which runs; a part that does not run keeps one
of its initial states, so each is checked as if it had a run of its own. A
definition whose comment begins with "Mutant" is a plausible error in the
definition after it; no specification uses it.

Names of history variables are given below with each module. They are written and
never read by a guard: they say what happened, so that a property can name the
exact circumstances in which the code does not keep its promise, and hold the code
to it in all others.

### SpotGateway

`orders` is `orders_`. An order id is local (`generate_order_id`) until the
exchange has answered and the exchange's afterwards. `send_order` is two actions:
up to the REST call (`SendOrder`), and after it (`HandleReply`, `HandleFailure`);
in between the stream runs. A failed call can mean that the exchange refused or
that the reply was lost, so `HandleFailure` is possible whatever the exchange
does. `process_order_update` is one atomic operator, as `orders_mutex_` makes it.
`connect()` is three: the query, which can fail and is then taken for an account
without orders, each stored order, and the start of the stream, without which
(no listen key) the gateway calls itself connected all the same. Prices and symbols
are left out; volumes are integers.

The exchange accepts, refuses, fills and expires orders at any time. Its reports
are a FIFO while the socket is up; a drop loses what is in flight. History:
`missed`, the orders of which some change never reached the gateway; `emitted`, what
was passed on as trades; `base`, the volume an entry was stored with that no trade
explains: at a first sighting, and at a load after a `close()` forgot the entry.

`UserStreamBound` says whether the exchange pushes reports on the user stream. In
the code the path with the listen key is computed and never used, so the code as
built is `FALSE`; the runs other than `order_updates_arrive` take `TRUE`, what
the code means to do, so that the rest of the order path is checked at all.

### MainEngine and OmsRecords

The callbacks of `connect()` turn each accepted update into events, trade before
order. The worker takes one event at a time and applies the OMS handler. One
application thread calls connect, disconnect, send, cancel, start and stop, one after
the other (`Idle`): that is how the examples use the engine. `stop()` joins the
threads and then closes a connected gateway; reports in flight still arrive
afterwards, as the WebSocket object is not closed, and wait in the queue for a
worker. The engine can be started again and the gateway connected again, with such
events still queued: the connection loads what is open, and its user stream
replaces the old one. `told` (history) is what the order callback last said of each
order, which outlives the gateway's cache; the properties relate the OMS to it in
every state, whether the engine runs and the gateway is connected or not. Drops and
reconnections of the socket itself are left to the gateway's own run; log events
share the queue and touch nothing else, so they are left out. Limits: one TIMER event
waiting at a time (`TimerBacklog`), `MaxStarts` calls of `start()`, `MaxConnects` of
`connect()`.

`OmsRecords` asks the other question: gateways that are added, replaced under the
same name, connected and disconnected, and report whatever they like. Every key of
the OMS is an id without its gateway, so two gateways hide each other's records.
`handledLast` (history) is the last event of each gateway and key. A query looks its
argument up as it is. The handlers store under plain ids (`StorageKey`: symbol,
orderid, tradeid, symbol and direction, accountid: `main_engine.cpp:404-464`), while
the queries are declared and tested with the keys that carry a gateway or exchange
name (`VtKey`: `vt_symbol`, `vt_orderid`, ... in `main_engine.hpp:194-219` and
`test_main_engine.cpp:216`, `:261`, `:276`, `:291`), which is also what `send_order`
returns. The property says both: by the storage key a query answers the newest event
of the key and nothing else, and by the `vt_` key it answers nothing, ever.

### RiskManager and TradingEngine

The book is keyed by `vt_orderid()`. A REST reply carries the gateway's name, a
report does not, so one order can be in the book under two keys; the model keeps
both. The callbacks exist only after `connect()` has returned. `on_timer` runs on
every tick. An order sent before there is an exchange still counts against the
flow limit. `NothingLeftAssumption` takes an account without open orders at
`connect()`: those that it loads never enter the book, in any behaviour.

### WebSocketClient and StreamFeed

Three threads: the application's calls (`app` says where one is), the I/O thread
(`io`), the monitor that finds the connection lost or silent, waits out its backoff,
tears down, rebuilds and resubscribes (`monitor`). `subscriptions_mutex` makes
subscribe, unsubscribe and `resubscribe_all` exclude each other; all else
interleaves. A stream has a set of `links`, the connections it holds in the current
websockets object: a subscription can be doubled. History: `early` (subscribed
before `connect()`, which never sends it), `raced` (subscribed on a new
websockets object before `resubscribe_all` saw it), `torn` (a `close()` that fell into
the swap of the I/O thread, after which it may join forever). An exception inside
`resubscribe_all` leaves some streams restored and the reconnection pending again.

`StreamFeed` is the abstract promise: while open, wanted streams are served; streams
are lost at any time; a reconnection brings all wanted and supported ones back in
one step, or some of them and stays pending. `IsFeed` is the refinement, with
`open`, `wanted` and `served` computed from the threads' state. A feed closes when a
reconnection in progress is over, which is why `open` looks at `monitor`.

### Grid trading: MarketStateAnalyzer, PaperBroker, GridMartin, PaperTrading

Prices are integers and grid levels one apart; each grid holds one unit; the
band arithmetic is a free verdict per bar. The broker walks its unordered map in
any order. `conjured` (volume sold that the account did not hold, where the
position is cut at zero) and `abandoned` (volume a new grid forgets) are history.
Bars reach the broker first and the strategy then; the broker's part of a bar is a
`Tick` with bid and ask at the close. `MaxOrders` bounds the volume sent.

### PaperAccount and StrategyContext

`PaperAccount` is the paper broker with everything the grid strategy does not
look at: positions per symbol, average cost, cash, commission, slippage, cancels.
`buy()` and `sell()` put BTCUSDT into every order whatever the strategy trades
(`DefaultSymbol`); `send_order` takes any symbol. `unheldSales` (history) is what
was credited for volume nobody held.

`StrategyContext` keeps position, average and profit from trades, and survives a
restart by `save_state` and `load_state`. Two flaws are named: `phantom` is the
profit that comes of a stale `total_cost_` (after a partial close, or a load, which
sets it to zero); `turned` says that a short was loaded as a long, since the
saved state has no direction. Everything else must balance at any price.

### BacktestBroker and its strategies

Each bar walks the limit orders, then the stop orders, then calls `on_bar`; inside
every callback the strategy may send and cancel, so the book changes while it is
walked. The books are unordered maps: any order of the walk is possible, and
entries added during it may or may not be met. Beyond 13 entries the map rehashes
under the iterator, which is why `MaxSent` is at most 13. `asked` (history)
records cancels: limit and stop orders count their ids separately and `cancel`
looks in both books, so a cancel of stop order 1 can hit limit order 1.

`TargetPosition` names a target and lets the template trade towards it; what it
cancels is never reported to it. `position()` is unsigned, so the agreement is
claimed while no target was negative (`everShort`). `ValidationStrategy` keeps its
own position and entry price and adds a stop loss and a take profit; the entry price
is the broker's average until the position was short (`wasShort`).
`BuiltinStrategies` are five strategies made of one idea: an indicator moves
between zones, a crossing reverses the position with limit orders at the close.
Indicator values are zones; any zone may follow any other, but for the turtle's.
None of these orders is ever sent: `buy()` and its siblings need `trading_`, which a
strategy has to set itself, and neither these five nor the broker does
(`builtinTrading`). So they only take part in the matching of an empty book, and the
one thing said of them is the finding `builtin_signals`.

### OffsetConverter, OptimizerRuns, PerformanceStats

`OffsetConverter` is one symbol of an exchange that tells today's position from
yesterday's, with the SHFE, lock and net rules of the conversion; the exchange, and
the queue in which a trade precedes its order update, are the environment.

`OptimizerRuns` runs one backtest per combination in a thread of its own; the
caller starts as many as it may, takes what is ready out of the middle of its list
and waits for the rest. A metric is any of a few integers, negative ones included:
the best starts at 0, so without a positive metric there is no best.

`PerformanceStats` pairs trades into round trips by average cost. Its profit equals
the cash of a flat account for `Simple` trades only; where a buy follows a partial
close the average takes in what was already sold. `max_drawdown_percent`, the field
the optimizer can sort by, is never set (`strategy_optimizer.cpp:57`).

### StrategyRouting

One call of the manager is one action, as its mutex makes it. An order has three
names: the manager's, the broker's and the `vt_orderid` of its reports. `sentBy`
(history) remembers which strategy, by a serial number, sent it: a name can be
removed and used again. `unheard` are the orders cancelled only at the manager or
finished only at the broker: paper broker reports name the order as nobody
registered it.

### ThreadPool and AsyncLogger

A thread that found its condition false holds the mutex until it sleeps; a
notification sent without the mutex falls in between and is lost. `lost` and
`missed` (history) record exactly these; the liveness properties claim that
nothing else leaves anybody waiting. `set_async(false)` joins the logger's worker
while it holds the mutex the worker needs to leave its wait: with an empty queue, the
usual case, it never returns, which is the finding `logger_switch` and not part of
`LoggerDrains`. `configure()` sets the mode and touches no thread: messages queued for
a worker that was never started are written by nobody, and a `set_async(true)` while
the old worker is still joinable ends the program (`aborted`); both are exceptions of
`LoggerDrains`. `flush()` needs the mutex and flushes the file, not the queue, though
`logger.hpp` has it "flush pending messages (for async mode)".

### BarGenerator, RingBuffer, PriceSmoother

Two generators in a row: ticks to bars, bars to windows. Ticks may be late and bars
may be empty. The reference definition is computed from the ticks alone. `Regular`
excludes months, whose length the code takes to be 30 days while their starts are
the calendar's, and days on which the local clock is set (starts come from local
time, lengths are 24 hours); an interval of ticks divides by zero and is no
instance. The ring buffer is checked for its four ways of reading and its cached
copy; the price smoother for coming to the market's price after a jump.

### DatabaseStore

`mutex_` makes a statement atomic and a transaction not: between `BEGIN` and `COMMIT`
another thread's statement joins the transaction. A failed statement may or may
not make SQLite roll back by itself, and takes the transaction it fell into with it
when it does (`SingleFails`); a crash leaves what was committed. A caller that opens
its own transaction, saves into it and commits, or rolls back when that fails, is
`OwnTransaction`; `commit()` and `rollback()` by a caller that began nothing are left
out. History:
`acked` (saves acknowledged outside anybody else's transaction), `dirty`,
`undone` (calls whose transaction somebody else ended), `refused`.

### SimulatedGateways

Neither gateway talks to an exchange yet, so every order is taken and what a feed
would deliver goes in by hand, repeated and in any order. USDT order ids are built
from the second of `connect()`: they repeat when the gateway reconnects within it
or the clock goes back. On OKX a report older than the cached one becomes news
(`overtaken`).

## Runs

Runs that must pass, with the distinct states TLC finds:

| Run | Instance | Shows |
|---|---|---|
| `exchange_link` (361 489) | the gateway: one order left open by an earlier run, one request, volume 3, drops and reconnections; or the WebSocket client: two tickers and a stream the client cannot subscribe, two attempts, four calls, two faults | cache and trades are right in every interleaving of replies and reports; a fill is seen or one of its reports was lost; wanted streams are served over drops and reconnections; the client is a `StreamFeed`; a clean close returns and leaves nothing |
| `main_engine` (197 575) | one request, volume 1, flow limit 1, two starts, two connections | the OMS follows the gateway over stops, restarts and reconnections; trades precede their order; nothing moves after stop; stop returns |
| `trading_engine` (848 622) | two buys and a sell that may cross, flow limit 1, active limit 2 | the book covers what is open; active limit and self-trade prevention hold |
| `simulated_trading` (369 183) | ten desks, see below | books, money, orders and strategies agree with their broker; closes are covered; results are what ran |
| `components` (128 798) | ten units, see below | threads, bars, buffers, routing, storage, simulated gateways and the OMS keep what they promise |

Runs that must find a violation, one disagreement each (see Findings):

| Run | Instance | Violated |
|---|---|---|
| `order_updates_arrive` | unbound stream | the code as built never receives an order update |
| `flow_window` | flow limit 1 | the window never reopens under the main engine |
| `book_only_active` | a buy and a sell | finished orders stay in the book |
| `pause_ends` | the grid desk | a trending pause is for ever |
| `finished_stays_finished` | one request | a reply after the report revives a cancelled order |
| `logger_switch` | one thread, one message, one switch | `set_async(false)` does not return |
| `builtin_signals` | the desk of the built-in strategies | their orders never reach the broker |

In `simulated_trading` and `components` a property that speaks of several parts is
the conjunction of the parts' own:

| Property | Is |
|---|---|
| `AccountsBalance` | `BooksBalance` (backtest), `PaperAccountBalances`, `ContextBalances` |
| `OrdersSettle` | `FilledOnce` (backtest), `PaperOrdersSettle` |
| `StrategiesAgree` | `TargetAgrees`, `BooksMatchBroker` (validation), each on its desk |
| `ResultsAgree` | `OptimizerKeepsBest`, `StatisticsAgree` |
| `ReportsAgree` | `GatewaysAgree` (`IdsUnique`, `FillsAddUp`, `FeedsListed`), `OmsAnswers` |
| `StoreSurvives` | `WritesLast` (the disk), `QueriesAgree` (the queries) |

`HoldingsAgree`, `PausedIsFlat`, `HoldingsExplained` and `Confirmed` are of the grid
desk, `ClosesCovered` of the offset converter; the other properties of `components`
are each of one unit.

Why the bounds are enough.

- Gateway (`exchange_link`): orders interact only through the stream's order, so two
  of different origin show every meeting of paths. Volume 3 gives two partial fills
  and a last one, so that a stale, an equal and a new update all occur, the new one
  also with the status of the old; the theorems hold for any volume.
- Main engine: the hazards are in the order of queue entries. One order of volume 1
  puts up to three order and trade events beside the timer's, before, during and after
  a stop; a second start and a second connection meet every such queue, with the cache
  emptied in between. That orders do not disturb one another is in the theorems, which
  hold for any number of orders, starts and connections.
- Trading engine: three orders at two prices let each side rest and be crossed, and
  an active limit of 2 is reached and enforced. The theorems cover the rest.
- Grid: three grids give a bottom, a base and a top; the prices reach below the
  bottom level and above it by more than one level.
- Backtest: two orders in three bars per strategy suffice for an order that is added
  during a walk, filled in the next and cancelled by a stop order of its number.
  The built-in strategies get five bars and one that closes low, so that each has a
  signal to act on. Prices are
  multiples of 27720 (of 42000 in the paper account, of 840 in contexts and
  statistics), so that every average of the volumes that can be held is an integer.
- Paper account: three orders of volume at most 2 give an average of two buys and a
  sale of more than is held; the second symbol shows an order of a symbol that
  is not the default. A context gets four trades, so that an add can follow a
  partial close after a load.
- Offset converter: one unit of today's and one of yesterday's position with
  requests of one and two make the split come out in one and in two orders.
- Optimizer: three combinations on two threads let the list of futures be scanned
  while one is running, one ready and one not started; two calls show that progress
  goes on counting.
- WebSocket client (`exchange_link`): with two attempts the first retry can fail and
  the second still succeed; four calls are a connect, a subscribe, a close and
  another connect, or two subscriptions beside an unsubscribe; a second fault can fall
  into the reconnection from the first. No symmetry set is used: the run checks
  liveness, for which it is unsound.
- Components: two workers with two tasks and one pause, stop and restart; two logging
  threads, two messages and three switches; ticks at five times over bars of length 2
  (and one irregular calendar); a ring of three that wraps; two clients with two
  writes and a crash; two id blocks; two gateways that share one id.

`CHECK_DEADLOCK FALSE` everywhere: when all orders are finished and the engine is
stopped, or the bounds on orders, calls and bars are used up, the system rests.
Threads that wait for ever are caught by the liveness properties instead.

Fairness.

- `SpotGateway`: `connect()` is a loop of the calling thread that blocks on nothing
  but REST calls, and a socket that is up delivers. Exchange, callers, drops and
  reconnections owe nothing.
- `MainFairness`: each thread of the event engine runs, the timer ticks, and
  `stop()` goes on after its joins; `WF` on the whole worker step suffices as no other
  step disables it for ever.
- `PaperSpec`: only that narrow bars keep coming.
- `ConnectionFairness`: the monitor, the application's call in progress and the I/O
  thread once told to stop run on, and a feed that serves nothing times out in
  the end. Neither the network nor the application owes anything: that a reconnection
  succeeds is not assumed, it may also end in `FAILED`.
- `PoolFairness`, `LoggerFairness`: threads run on and tasks end; nobody owes a
  `resume()` or another message. A thread about to sleep is a step of that thread.
- `SmootherFairness`: a live market keeps ticking; prices owe nothing.

## Proofs

Eight modules hold theorems, each for every value of the constants that the named
assumptions allow; the runs evaluate the assumptions. A theorem `Spec => []P` about
a part that shares its `MC` module with others is about that module's specification,
so that what TLC checks and what is proved is the same formula.

`SpotGatewayProofs`, from `MaxVolumeAssumption`, `BoundAssumption` and
`LeftAssumption`, for any requests, any orders left open and any positive volume:

- `TypeCorrect`: `Spec => []TypeOK`.
- `LedgerExact`: `Spec => []TradesAccountForCache`.
- `NoTradeInventedEver`: `Spec => []NoTradeInvented`.
- `TradedMonotone`: `Spec => TradedNeverDecreases`.
- `Convergence`, `StatusConvergence`: `Spec => []CacheConverges`, `Spec =>
  []StatusConverges`.

The inductive invariant `IInv` adds to type and ledger that no report in flight, no
entry still to be loaded and no cached order claims more than the exchange executed
(`ReportsBounded`, `LoadBounded`, `CacheBounded`), that until connected the stream
is silent and nothing is being sent (`QuietBefore`), that an entry to be loaded is
not yet cached and comes once (`LoadIsNew`, `LoadUnique`, `LoadPhase`,
`DownIsEmpty`), and that an order not yet placed has no volume
(`UnplacedIsUntraded`, `IdleIsUnsent`). Each is needed: without `LoadIsNew`
`connect()` could overwrite a fill, without `ReportsBounded` a stale report could be
worth more than the order. `UpdateStep` says what one `process_order_update` does to
the cache and the ledger; `ExchangeKeeps`, `CacheStep` and `QuietStep` say what the
three kinds of steps preserve; `NextIInv` has one step per action. Convergence needs
the content of the stream as well: of an order none of whose changes was missed,
either the exchange's present record is still to be loaded, or it is the last report
of the order in the stream, or none is in flight and the cache has it (`Tracked`,
`LoadCurrent`). A reply may overwrite the end of an order of which nothing was
traded, so the status is claimed of orders with a volume.

`MainEngineProofs`, from these and `FlowAssumption`, `BacklogAssumption` and
`EventAssumption` (the timer's event is no order's):

- `MainTypeCorrect`, `OmsFollows`, `ActiveAgree`, `TradesFirst`: the run's four
  invariants, `MainSpec => []...`.
- `QuietOnceStopped`: `MainSpec => QuietAfterStop`.

Of the gateway only little is needed, and it holds in every phase, closed and
reconnected included: the types, and that no cached entry shows more volume than
`base` and `emitted` (`GatewayInv`); and what it has cached is what it last told
(`CacheTold`), though not conversely. `Threads` says where the worker can be while
the application starts, runs and joins. `LineInv` is the argument: the event in the
worker's hand and the queue behind it are one line, into which the gateway writes at
the end. For each order the newest order event of the line, or the OMS's record when
there is none, is what the gateway told last (`Latest`); the trades in the line add
up to what the gateway emitted, and no order event shows more volume than the trades
up to its place (`Explains`). Partial sums are a function of the place, quantified
over, so that no fold is needed. `stop()` and `start()` leave the line alone, and
this is why a restart does not break it. `ActiveIsFilter` makes the active orders a
function of the OMS's records.

`TradingEngineProofs`, from the gateway's and `LimitsAssumption`,
`RequestsAssumption` and `NothingLeftAssumption`, for any orders, volumes, prices
and limits:

- `BookCoversOpenEver`: `TradingSpec => []BookCoversOpen`.
- `ActiveOrdersBoundedEver`: `TradingSpec => []ActiveOrdersBounded`.
- `NoSelfTradeEver`: with `PreventSelfTrade`, `TradingSpec => NoSelfTrade`.

Every step of the trading engine is a step or a stutter of the gateway
(`EngineRefinesGateway`), so the gateway's `IInv` holds here too. What it lacks is
`TruthInv`: what is reported or cached as finished is finished, and an acknowledged
order is cached. With it the argument is: an open acknowledged order is cached as
active; what is cached as active is in the book under some key (`ActiveIsBooked`,
because the reply is booked when it is stored and only a report of its end, under
another key, removes anything); hence `Covered`. The limit of active orders needs a
count: the orders that rest inject into the book's entries (`OpenIsCounted`), the
book is finite, `check_risk` compares its size before the send, and the one calling
thread has at most one order on its way (`CommittedBounded`). For self-trade
prevention the best bid and ask that `check_risk` reads are the extremes of the book
(`MinIsLeast`, `MaxIsGreatest`), which exist because the book is finite and bounded,
and each side holds its own orders at the prices they were sent with (`BidsTrue`,
`AsksTrue`); so a price that does not cross the best crosses none of them
(`NoCross`).

`WebSocketClientProofs`, from `ClientAssumption` and `PlacesAssumption` (a place of
the application's thread is not a stream's name), for any streams and attempts:

- `ConnTypeCorrect`, `ClosedCleanEver`, `SubscriptionsAgreeEver`: the run's three
  invariants.
- `ImplementsFeed`: `ConnectionSpec => IsFeed`, the refinement of `StreamFeed`.

`IInv` is `ConnTypeOK` with where each thread may be while the application is at a
given place (`AppPlaces`, `CloseOrder`), that a closed client is empty
(`ClosedIsEmpty`, torn or not: the refinement needs that a torn `close()` serves
nobody), that CONNECTED is said only when nothing is left to restore
(`ConnectedAtRest`), and that on new websockets a connection is of a `subscribe()`
that raced (`NewLinksRaced`, `LinksSupported`, `GhostsRaced`): without it the step
that restores all streams could not be told from one that serves a single stream.

`Sums` is what the next two modules need to reason about folds, for any finite set
and any function on it to the integers. Its lemmas are about a constant function and
a constant set, never about an operator: `SumAdds` proves that the recursive
function a sum is defined by exists (`FoldExists`, by the size of the set),
`FoldIsSum` that a fold that picks the elements in any fixed way computes it, and
`SumSplit`, `SumOfSums`, `SumCompare` and `SumMoved` are the rules of sums.
`OneByOne` and `CountingUp` are induction over a set of sets and a set of numbers,
which need no operator parameter. `FoldLeft` and `MapThenSumSet` are expanded where
a model uses them.

`SimulatedTradingProofs`, each theorem from the assumption of the module it is about
(`AnalyzerAssumption`, `GridAssumption`, `BacktestAssumption`, `PaperAssumption`,
`TargetAssumption`, `ValidationAssumption`, `BuiltinAssumption`), for any prices,
volumes and bounds:

- `ConfirmedEver`: `PaperSpec => Confirmed`. `StreakInv`: no verdict is pending
  while the buffer fills, and a pending one was given on each of the last
  `confirmation_count_` bars. The second conjunct is the property's reason, the
  first what a restart of the analyzer needs.
- `HoldingsAgreeEver`, `PausedIsFlatEver`: `PaperSpec => []HoldingsAgree`,
  `PaperSpec => []PausedIsFlat`. `GridInv` is their conjunction with the types of
  price and grids; each needs the other, since a restart trades on what a pause
  left. What is bought is an enumeration of the free grids, without repetition
  (`FromTheTop`); what is sold is a prefix of an injective queue, so that as many
  leave `total_position_` as leave the queue.
- `HoldingsExplainedEver`: `PaperSpec => []HoldingsExplained`, what the broker holds
  is what the strategy counts, what is on its way and what the two named flaws lost
  or made up. `ExplainedInv` is the equation with the types of the open orders and
  the volumes; with `GridInv`, which says what a crossing or a pause sends, it is
  inductive. `NetIsSum` makes the fold over the open orders a sum over their places,
  `FillMoves` says that a fill moves as much in the account as leaves the sum, and
  `InOrder` that the order in which a set of grids is sold does not matter.
- `OrdersSettleEver`: `DeskSpec => []OrdersSettle`, for both brokers. In the
  backtest a filled order stays in the book until its walk ends, and a triggered
  stop likewise (`EntriesFilledInWalk`, `StopsTriggeredInWalk`); who left the book
  was filled once or cancelled (`GoneForGood`); ids yet to be given are not filled
  (`NewIdsUnfilled`); and each waiting stop order has a number left for the limit
  order it becomes (`IdsSuffice`, by cardinalities). This holds whatever a callback
  does, so no strategy's invariant enters it. `PaperOrdersInv` is the same for the
  paper account.
- `StrategiesAgreeEver`: `DeskSpec => []StrategiesAgree`. The three strategies only
  send limit orders (`LimitsOnly`). `TargetAims`: while no target was negative, the
  one open order takes the position to the target it was sent for, and what is
  neither open nor being cancelled has left it there. `KeptBooks`: what the
  validation strategy keeps is what the broker keeps, and until the position was
  short the same average; `AverageIsPrice` shows that an opening sets both to the
  price. `OneEntry`: without shorts and pile-ups there is one order at most, which
  opens a flat position or closes the whole (`Suits`).

`OffsetConverterProofs`, from `OffsetAssumption`:

- `ClosesCoveredEver`: `DeskSpec => []ClosesCovered`, for any position at the start,
  request volumes and number of orders. The holding lags behind the account by the
  events on their way, so `OffsetInv` speaks of their places, the moments before and
  after each: there are `left`, what every order had left there, and `acc`, what the
  account was there, that lead event by event from the holding's books to the
  exchange's orders and account (`Flow`, `Ends`). At the first place what the orders
  ask of a side (`Due`, a sum) is at most what is there (`Covered`); what is converted
  and not yet sent fits into the rest (`Demand`); every order with something left is
  in the holding's book or is the one about to be registered (`Registered`), counted
  with no less than it has left (`Outlasts`); hence, while no registration is
  missing, what is frozen covers what is due (`FrozenCovers`). An event never takes
  more off the account than off what is due (`ArrivalCovers`), which carries
  `Covered` to the last place, where it is the property (`CoveredToTheEnd`). A request
  splits into parts that fit what is not frozen (`ShfeFits`, `LockFits`, `NetFits`); a
  cancel takes what it cancels off every place at once, which needs that no order has
  less left earlier (`LeftAtEnd`). TLC checked `OffsetInv`, with `left` and `acc`
  computed from the events, on up to three orders.

`ComponentsProofs`, for the ring buffer from `RingAssumption`, for the bars from
`BarAssumption` and for the database from `DatabaseAssumption`:

- `Buffers`: `Spec => []BuffersAgree`, for any capacity, values, updates and reads
  (nothing empties this buffer). `RingInv` says that the value at an offset from the
  latest is that of the history (`HoldsNewest`), and that a copy marked valid is
  what a fresh one would be (`CopyIsNewest`); the index arithmetic is `Wraps`.
- `Bars`: `Spec => []BarsMatchTicks`, for any bar starts, window, and times and prices
  of ticks. `Made` says what the two generators hold after the ticks of a log: the
  open bar is the bar of the ticks of the last bar reached (`OpenBar`), the buffer
  holds the bars after the last full window, each of its ticks (`HoldsBars`), and
  every bar emitted is that of the ticks of its window (`Windows`). The reached bars
  only grow (`BarsGrow`, `BarsCount`), so a tick more leaves all but the open bar
  alone (`PartStays`); the ticks of a window are those of its bars, shared out
  (`PartsJoin`), hence the highest of the highs, the lowest of the lows and the sum
  of the volumes are those of the ticks (`WindowBar`). `BarInv` asks this only while
  the bars are as long as the code takes them to be: once they are not, the property
  claims nothing until a reset.
- `Durability`: `Spec => []StoreSurvives`, for any clients, rows, saves and crashes.
  For `WritesLast`, `StoreInv` gives every call that writes a number of its own and
  says to whom each value in the tables belongs: what the disk has was written by a
  call that is over and not refused, or whose transaction another thread ended
  (`Harmless`); the connection's tables may hold the open transaction's values
  besides (`RowsInv`), and differ from the disk only in what is dirty (`DirtyInv`),
  which is why a rollback restores and a commit cannot lose. For `QueriesAgree`, an
  ascending listing of a finite set of times exists, names each once and is the only
  one (`ClimbsExists`, `ClimbsOnce`), the tables stay finite (`RowsKnown`), and the
  newest rows reversed are the end of that listing (`DescendingFalls`).

and from `RoutingAssumption`, `GatewaysAssumption` and `RecordsAssumption`:

- `Routing`: `Spec => []RoutingAgrees`, for any strategies and symbols. `ListsInv`:
  a symbol's list names the registered strategies of that symbol, each once, and is
  never empty; `OwnerInv`: the three names of an order lead to who sent it exactly
  while that strategy, told by its serial number, is registered; `RestingInv`:
  unless its fate was not heard, a present strategy's active order rests at the
  broker.
- `Reporting`: `Spec => []ReportsAgree`. USDT ids: an id is its connection's second
  and a count no greater than that connection's orders (`IdsAreCounted`), so the ids
  of two connections are apart unless the second did not advance or a connection
  used up its block; within one connection ids grow (`IdsGrow`). OKX: what was
  passed on never exceeds what the feed told, and equals the newest report unless
  one was overtaken (`OkxCounted`). OMS: serial numbers grow along the queue,
  everything handled is older (`QueueInv`, `HandledInv`), and an answer is the
  newest handled event of its key among all gateways (`AnswersNewest`,
  `ActiveFollows`, `TradesHandled`). `RecordsAssumption` asks that the mark for "no
  order" is not a report.

Only model-checked:

- `AccountsBalance`: averages are integers only at the instances' prices; for any
  price the equation does not hold of the truncated average.
- `ResultsAgree`: its reference definitions are folds over trades with truncated
  ratios, or fix what an enumeration of the parameter sets returns.
- `FilledIsSeen`, `StopReturns`, `FillReachesOms`, `FeedRecovers`,
  `CleanCloseReturns`, `PoolReturns`, `LoggerDrains`, `SmootherCatchesUp`: liveness
  rests on fairness and ENABLED, which the prover does not treat.

## Findings

Each is a violation run; `PROJECT.json` quotes the line it contradicts.

1. `binance_spot_ws_api.cpp:150`: the listen key's path is never used, so order
   updates do not arrive.
2. `main_engine.cpp:241`: the flow limit is a limit for the life of the process.
3. `binance_spot_ws_api.cpp:397`: a report has no gateway name, and finished orders
   stay in the risk book.
4. `grid_martin_strategy.cpp:70`: the trending pause cannot end.
5. `binance_spot_gateway.cpp:218`: the REST reply can revive a finished order.
6. `logger.cpp:80`: `set_async(false)` joins the worker under the mutex the worker
   waits for.
7. `strategy.cpp:64`: nobody sets `trading_` for a built-in strategy, so it never
   sends.

Other flaws are exceptions named in a property, so that the rest of
what the component does is still held to it: the stream subscribed before
`connect()`, doubled by a race, or lost in a torn close (`early`, `raced`, `torn`);
notifications lost before a sleep (`lost`, `missed`); modes configured without a
worker (`none`, `aborted`); queries by `vt_` keys; the stale total cost and the
short loaded as a long (`phantom`, `turned`); sales of volume nobody holds
(`conjured`, `unheldSales`); the volume a new grid forgets (`abandoned`); cancels
that hit an order of the same number (`asked`); negative targets (`everShort`) and
entry prices after a short (`wasShort`); orders whose fate the manager never hears
(`unheard`); transactions others end (`undone`); months; OKX reports overtaken and
USDT ids repeated; an optimization without a positive metric, which has no best.
`asset_value_` (`broker.cpp:387`) sums costs and receipts and is not the value of what
is held; the model carries it and no property speaks of it.

## Not modelled

- `binance_gateway.cpp`, `binance_api.cpp`, `exchange_factory.cpp`: placeholders that
  answer from memory, a wrapper with one HTTP call per function, and a table of
  constructors. No state the order path depends on.
- Indicators (`array_manager.cpp`) and ratios of returns: floating-point formulas
  over a window. Where an indicator decides what a strategy does, its verdict or
  zone is a free choice.
- Configuration, dates, formatting, `types.cpp`: parsing and printing.
- Python scripts and study material: independent of the C++ system.
- Within the modelled parts: market data conversions and contract queries of the
  gateways, commission and margin in the backtest, plots and reports, the risk rules
  nobody registers, `reset_daily_counters` and the manager's worker thread, which
  nobody calls. `PROJECT.json` has a note per component.
- Data races on unlocked pointers, maps and counters (the gateway's `close()` during
  a call, handler registration while the worker walks, the risk counters) are
  undefined behaviour with no outcome to enumerate. They are listed as hazards; the
  models assume the callers the repository has, and let whole operations
  interleave.
- A strategy that sends through the strategy manager from its own callback waits for
  the manager's non-recursive mutex. No strategy of the repository does.

## Plan

Done: the order path (`SpotGateway`, `MainEngine`, `RiskManager`, `TradingEngine`),
grid trading, the WebSocket client and its abstract feed, the strategies and brokers
without an exchange, the threads, buffers, storage, the simulated gateways and the
OMS over several gateways; theorems for every invariant and action property the runs
check but those listed under "Only model-checked".

Worth doing next:

1. The OMS as a delayed copy of an abstract order cache: `LineInv` is most of the
   refinement mapping, and `SpotGateway` with `MainEngine` would implement it.
2. The core of the optimizer without its folds: that every combination gives exactly
   one result and no future is taken twice.
3. Orders an earlier run left open in the trading engine, with what the risk manager
   should promise about them once `connect()` has loaded them.
4. `BookCoversOpen` over the WebSocket client itself in place of the gateway's drop
   and reconnect.
