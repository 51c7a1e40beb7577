# TradeAutomation in TLA+

TLA+ models of TradeAutomation (a paper-trading bot: FastAPI, SQLAlchemy on
SQLite or PostgreSQL, Redis, APScheduler, a simulated exchange, a Bybit stream
worker), the TLC configurations that check them and TLAPS proofs of every safety
property that the passing runs check. File and line references are to the
repository (`app/...`).

## 1. The system

### Processes and shared state

| process | what it runs | code |
|---|---|---|
| API | request handlers in a thread pool, one database session per request; the websockets; the scheduler too if `SCHEDULER_ENABLED` | `app/main.py`, `app/api/` |
| scheduler worker | interval jobs (`coalesce`, `max_instances=1`), one session per job: market refresh, `evaluate_signals`, optimizer, news, LLM review | `app/workers/runner.py`, `app/services/scheduler_service.py` |
| stream worker | Bybit websocket: candles, depth, tickers, stream health | `app/workers/stream_runner.py`, `app/services/bybit_stream_service.py` |
| scripts | resets and seeding on a stopped system | `scripts/` |

They share the SQL database and a Redis cache of candle frames (30 s). Each
process has a paper exchange of its own, in memory
(`_paper_exchange_singleton`). Sessions keep the attributes of the rows they have
loaded (`expire_on_commit=False`, `app/db/session.py`), nothing locks a row, and
no constraint keeps one open position per key: between a read and a commit
another session may commit anything.

### Inventory

| component | state | operations | what makes it correct | modelled |
|---|---|---|---|---|
| position and trade ledger (`execution_service`, `risk_service`) | `positions`, append-only `trades` | entry fill, whole or partial exit, funding charge, mark | no split of exits creates or loses money or quantity; a closed row is history but for late charges | PositionLedger |
| portfolio account (`portfolio_service`) | the `portfolio_state` row | `recalculate_state` | equity is explained by PnL; the peak is a high-water mark but for torn readings | PortfolioAccount, PortfolioRow |
| risk gate (`risk_service.evaluate_entry`) | none of its own: rows, account, clock | admit or refuse an entry | limits hold when the order is committed; breaker and cooldown lock | RiskGate |
| trading sessions (`routes_orders`, `routes_positions`, `tasks`, `jobs`) | sessions in flight | manual order, manual close, `evaluate_signals` | one open position per key, the position limit, nothing sold twice, every position evaluated | TradingSessions |
| paper exchange, order rows | `_open_orders` of each process, `orders` | place, persist, cancel, restart | limits respected, best execution, resting orders cancelable | PaperExchange |
| strategy evaluation | orders over time | `evaluate_strategy`, manual close, refresh | acts once a candle on completed prices, worst level first, cooldown | StrategyEvaluator |
| candle store (`data_service`) | `market_data`, Redis | fetch, persist, cache, answer | a candle written once, frames without holes where all fetch alike, completed candles final | OhlcvStore |
| stream worker, market depth, stream health | connection, `stream_status`, quotes | connect, subscribe, message, fail, back off, die, restart | what is reported healthy has data; the worker comes back | MarketStream |
| event log, `/ws/events` | `event_logs`, a cursor a connection | record, commit, follow | every event reaches a connected client, once, in order | EventDelivery, EventFeed |
| news and LLM review jobs | `news_articles`, `llm_decisions`, job outcomes | ingest, review, report, crash | no event without its decision | WorkerJobs |
| optimizer | `optimizer_runs` | score, cut, divide, store | an allocation is whole and within the money | Optimizer |
| backtester (`backtest_service`) | balance, trade records, report | one candle, finish, fail | balance, records and report agree; losses stay within margin | Backtest |
| instruments (`instrument_service`) | `instruments` | synchronise, normalise | orders are whole lots above the minimum | lots and minimum, in PositionLedger, RiskGate, TradingSessions |
| scheduler | jobs | start, coalesce, report | jobs run again | the fair job of TradingSessions; reports in WorkerJobs |
| strategies, indicators, ML filter | none | signals from a frame | - | no: floating-point functions; signals are free choices |
| strategy registry, configuration | enabled flags | toggle | - | no: read-mostly |
| live adapters (ccxt, Bybit) | venue | place, cancel | - | no: external, off by default |
| dashboard, frontend, settings, migrations | - | - | - | no: presentation and input |

Interactions: routes and jobs call ExecutionService, which calls DataService for
a frame, PortfolioService to recalculate, InstrumentService to normalise,
RiskService to admit, the exchange to fill, and commits order, trades and
position together; then it recalculates again. Every job reports to the event
log, which `/ws/events` follows; the stream worker writes the quotes the gate
reads and the health the dashboards show. The hard behaviours are the gaps
between those calls (another session commits), the memory of the exchange next to
the database, evaluations more frequent than candles, money split over partial
exits, sums taken in two queries, commits that fail one by one, and ids given out
before they are committed.

## 2. Modules

| module | models | lines of the code |
|---|---|---|
| `PositionLedger` | entry, exit, funding and mark handlers, one at a time | `submit_entry_order`, `close_position`, `record_funding_charge`, row part of `recalculate_state` |
| `PortfolioAccount` (extends it) | the same handlers with the portfolio row each of them rewrites | `recalculate_state` |
| `RiskGate` (extends that) | the entries behind `evaluate_entry`, with a clock | `evaluate_entry`, `submit_entry_order` |
| `PortfolioRow` | several sessions creating and rewriting the one portfolio row | `get_or_create_state`, `recalculate_state` |
| `Optimizer` (extends it) | the optimizer in such a session | `run_optimizer` |
| `TradingSessions` | handlers cut at their reads and commits, interleaved | `manual_order`, `close_position_by_id`, `evaluate_signals_with_ranking` |
| `PaperExchange` | place, commit, cancel, lose, restart; book walk | `PaperExchange`, `walk_levels`, `_persist_order`, `cancel_order` |
| `StrategyEvaluator` | one strategy instance against time | `evaluate_strategy` and its helpers |
| `OhlcvStore` | candles of one symbol and timeframe | `DataService` |
| `MarketStream` | the stream worker's loop, the rows it writes, what readers are told | `BybitStreamService.run`, `MarketDepthService` |
| `EventDelivery` | the promise of the event websocket, abstract | - |
| `EventFeed` | event rows under two databases, and the connections | `record_event`, `ws_events` |
| `WorkerJobs` (extends it) | the news and review jobs that write those rows | `NewsService.ingest`, `review_symbol`, `llm_review_job` |
| `Backtest` | the loop of `run_backtest` | `BacktestService` |
| `PositionLedgerProofs`, `AccountProofs` | theorems of the ledger; of PortfolioAccount and RiskGate on top of it | |
| `PortfolioRowProofs` | theorems of PortfolioRow and Optimizer | |
| `TradingProofs` | theorems of TradingSessions, StrategyEvaluator and PaperExchange | |
| `MarketDataProofs` | theorems of MarketStream and OhlcvStore | |
| `EventFeedProofs` | theorems of EventFeed and WorkerJobs | |
| `BacktestProofs` | theorems of Backtest | |
| `SumLemmas` | what recursion and sums over a finite set compute | |
| `MC*` | small instances for TLC | |

How state and actions correspond to the code:

* **PositionLedger.** `position[p]` is the row with primary key p, `trades[p]` the
  column sums of its append-only trade rows (the code reads nothing else of them).
  `RecordEntryFill` is the whole of `submit_entry_order` for an order that fills:
  existing position, spot shorts, lot rounding and minimum notional, row, trade
  and the recalculation that marks every open row. `ClosePosition` is the whole of
  `close_position`: `ExitBooking` computes the shares of entry fee, funding and
  collateral from the row before it is touched, `ReducedRow` and `AddExit` write
  them. `RecordFundingCharge` asks for a row with trades and nothing else, as the
  code does: spot and closed rows are charged too. The caller names the amount; it
  is a whole number per unit held. `MarkToMarket` is every other path, which only
  marks. Entry price and fill price differ, so slippage is included. An order that
  fills nothing changes no row of this module.
* **PortfolioAccount.** `Recalculated` is the row `recalculate_state` writes. An
  entry recalculates three times: `submit_entry_order` at the reference price
  before it sizes the order, `evaluate_entry` at the price it checks, and
  `submit_entry_order` at the fill price. Of the first two only the peak survives
  (`MarkedTwice`). `record_funding_charge` does not recalculate, and
  `AccountFunding` leaves the row alone.
* **RiskGate.** `Halted`, `BadQuote`, `TooMuchLost` and `TooLarge` are the checks of
  `evaluate_entry`, grouped by what they look at; a refusal is their disjunction,
  since the order of the checks only picks the wording of the reason. `Passes`
  hands them the rows and the account as the gate's own recalculation at the
  checked price leaves them. `GateEnter`, `GateRest` and `GateRefuse` are the three
  ways an order ends, each with the recalculation that comes last in it. `exit` are
  the `exit_reason` and `closed_at` columns; its `stop` field and `lastEntry` are
  history. `Tick` passes midnight, when the realized PnL of the day starts over.
* **PortfolioRow.** `Load`/`Miss`/`Create`, `ReadCash`, `ReadPositions` and `Commit`
  are the moments of a recalculation between which other sessions trade and commit:
  the cash is a sum over the trades in one query, the open positions are read in the
  next (`portfolio_service.py:142-143`), and valued at the price the caller gives.
  `Seen` is what the second query answers for a position the session already holds.
  A commit writes the columns whose value changed against the object the session
  held, which is how SQLAlchemy writes. `Trade` is a fill, between recalculations.
  `best` and `gap` are history: the most the account was worth when it was marked,
  and the most one reading of the two overstated it by.
* **Optimizer.** `RunOptimizer` takes the equity of the row its session still
  holds. `RiskWeights` cuts each share at the maximum and divides by the sum of the
  cut ones, as the code does; weights and targets are rounded to the code's places.
* **TradingSessions.** `session[a].seen` is what a session has loaded. `CheckFree`
  (position of the key), `CheckRisk` (the gate), `CommitEntry`; `RefuseClose` and
  `CommitClose`, computed from the loaded row; `JobStart`, `JobPosition`,
  `JobRank`, `JobCandidate`, `JobEnd` are the two loops and the ranking of
  `evaluate_signals_with_ranking`. `Raise` is an exception of any read, fetch or
  commit on the way, which ends the request or the job (`Abort`), as a remainder too
  small to sell does. Signals, prices and the other risk checks are choices.
* **PaperExchange.** Placing and canceling change the memory first and the row at
  the commit that follows: two steps each (`Place`/`CommitPlaced`,
  `CancelOrder`/`CommitCanceled`), with `LosePlaced`, `LoseCanceled` and `Restart`
  between them. An order routed to no depth fills at the candle's price with
  slippage; a limit order without a price takes the reference price.
* **StrategyEvaluator.** `SelectedBar`, `AlreadyProcessed`, `CoolingDown` and
  `ExitReason` are `_selected_signal_row`, `_bar_already_processed`,
  `_strategy_cooldown_until` and the chain of exit checks. `Refresh` is late or
  early as the jobs happen to be, `ManualClose` may come at any tick.
* **OhlcvStore.** A copy of a candle is the number of its ticks that had passed
  when the exchange was asked. `StartFetch` asks and looks for existing rows,
  `CommitFetch` inserts and caches, `RefuseFetch` is the unique constraint
  `uq_marketdata_bar`. `fetched` is history: the lengths fetched so far.
* **MarketStream.** `worker.pc` is where the coroutine `run` is. `Attempt` to
  `Backfill` are one attempt to connect, `Control`, `Ignored` and `Data` the kinds
  of message, `Silence` the message timeout, `HandleFailure` the except clause,
  `Retry` the end of the back-off. The status row of each symbol is a commit of its
  own: `Marked(n, status)` is what n of them leave when the next one fails. Where
  the code writes outside its try, at the top of the loop and in the except clause
  (`bybit_stream_service.py:233`), a failed commit ends the process (`"down"`).
  `Reported` is `stream_status_payloads`.
* **EventFeed.** `Flush` gives a row its id, `Commit` shows it to readers. SQLite
  has one writer at a time and takes the id after the greatest row; PostgreSQL
  takes it from a sequence and commits in any order. `late` is history: the rows
  committed after a greater id. `Poll` is one read of `ws_events`, `SendRow` moves
  the cursor.
* **WorkerJobs.** Each writer of EventFeed runs one job: `FetchNews`/`StoreNews` is
  `ingest`, `StartReviews`, `ReviewSilently`, `ReviewAnswered` and `ReviewRaises`
  are `review_symbol` and its sweep, `RecordEvent`/`EventStored`/`EventLost` the
  event or report that follows in a transaction of its own. `Crash` may come
  between any two of them.
* **Backtest.** `ProcessBar` is one iteration: funding, exit, entry, equity point.
  `Finish` closes what is open, `Fail` is depth that is missing.

Refinements: `EventFeed` implements `EventDelivery` (`committed <- rows`), checked
as `DeliveryHolds` and proved; `RiskGate` implements `PortfolioAccount`, which
implements `PositionLedger`, on the same variables, both proved.

Abstractions: money is an integer count of 1/Leverage-th of a price unit, so that
every share in a fill is exact (the proofs show the divisions leave no remainder);
binary floating point and its rounding are not modelled. A funding charge is
exact in the same way: a whole number per unit of what is held. In PortfolioRow one
spot holding of some units stands for all open positions. Stop, profit and
liquidation are constant distances in StrategyEvaluator and stop and profit in
Backtest, percentages of the entry price in the code. `evaluate_on_bar_close_only`
has its default, true. OhlcvStore assumes that the timestamps a query returns
compare equal to the fetched ones, as PostgreSQL's do. MarketStream keeps instants
as ages, up to the first age that counts as stale. In TradingSessions a request
may enter any of its keys; it stands for manual orders. (An entry of the LLM job
would be one more, but no answered review gets that far: see `answer_lost`.)

## 3. Runs

Passing runs:

| run | instance | shows |
|---|---|---|
| `account` | 2 positions, a perpetual and a spot key on 2 symbols, prices 2 and 3, entries of 3, one funding charge of any row, minimum notional 3 | `CashIsRealizedLessHeld`, `QuantityConserved`, `LedgerInv` over every split of the exits (1+1+1, 1+2, 2+1, 3); `ClosedIsOnlyCharged`; `UnfundedProfitIsExact` and `TradeCostsOnlyItsFee` for positions never charged; `EquityExplained` of the portfolio row |
| `risk_gate` | a perpetual and a spot key on 1 symbol, 2 positions of 2, prices 2 and 3, 2 days of 2 ticks, quotes within and beyond their limits, percentages that a position of 20 or 30 in an account of 60 meets | `BreakerLatches`: a flat account down by the drawdown limit never trades again; `CapsHoldAfterFill`: what the gate projected is what the account then shows |
| `sessions` | 1 request handler with two manual keys, 1 job with a strategy key, limit 1, entries of 1 or 2, 3 primary keys | `OverrunBounded`: the gate is overrun by at most one position per further session; `ClosedStaysClosed`: a stale session never reopens a row; `EveryPositionIsEvaluated` under fairness: a position waits for ever only if the job raises before or at it again and again (any read, fetch or commit may raise, and a remainder of 1 cannot be sold) |
| `paper_exchange` | 1 order of every kind on every book, 2 processes, 1 failure | `LimitPriceRespected`; `BestExecution` against an independent minimum over all ways to take from the book; `RestingIsAlive`; `CancelableUntilFailure` |
| `evaluator` | 5 candles of 2 ticks, 3 shapes, cooldown of 5 ticks, 3 orders, entries of 2 | `OrdersUseLaterBars`, `ReentryCoolsDown`, `WorstLevelFirst` |
| `portfolio_row` | 2 sessions, 2 trades of one unit at prices 1 and 2, marks at either, a balance of 2, the optimizer over 3 symbols with scores 0, 1 and 4, weights up to 45 %, 25 % deployed | `PeakErrsByOneReading`: the peak exceeds what the account was worth by no more than the worst single reading; `PeakFallsOnlyUnseen`: only a session that never saw a peak writes over it; `AllocationIsWhole`, `TargetsWithinBudget` however stale the equity |
| `backtest` | 4 candles of 6 shapes, perpetual at leverage 2, fee 1, funding -1 to 1, slippage 0 or 1, failures | `BalanceExplained`, `ReportAddsUp`, `BacktestInv`; `LossWithinMargin`: a candle through liquidation level and stop never books a larger loss than the locked margin |
| `ohlcv_store` | 2 processes, frames of 2 and of 3, 7 candles, Redis up or down at every call | `StoredIsWrittenOnce`; `HolesOnlyPastShortFetches`: a frame has a hole only where it comes from the table and reaches past a shorter fetch |
| `market_stream` | 2 symbols, stale after 3 ticks, silence after 2, back-off of 1 to 3, any number of control messages, 3 faults, messages with and without each side of the quote | `HealthyMeansData`; `DeathIsReported`; under fairness `AlwaysReconnects`, and `ConnectingIsTemporary`: only control messages without end keep a symbol connecting |
| `worker_events` | 2 ingestions (a job and a request) over 2 links, a review job over 2 symbols, 2 event ids, reads of 1 row, 1 client, both databases, providers that answer and that do not | `OnlyLateRowsAreSkipped`; `DeliveryHolds`; `EventuallyDelivered` under fairness of the connection; `DecisionsPrecedeEvents` |

Runs that find what a document or message of the repository rules out:

| run | what happens | what says otherwise |
|---|---|---|
| `double_close` | a manual close and a strategy exit book the same quantity twice, the second from a stale row | `execution_service.py:789` |
| `answer_lost` | a review the provider answers asks a slotted dataclass for its `__dict__` and raises before its decision is stored | `README.md:19` of the repository |

Nine more times the code does other than a document of the repository says, or than
the code that relies on it takes for granted. Each has a configuration here that is run
by hand; TLC stops at a counterexample in each:

| configuration, module | property | what happens | what says otherwise |
|---|---|---|---|
| `DuplicateEntry.cfg`, MCTradingSessions | `OneOpenPerKey` | two manual orders both find no position of the key and both commit one; afterwards `get_position` raises for that key | `execution_service.py:612`, `HANDOFF.md:42` |
| `DustStarves.cfg`, MCTradingSessions | `DustDelaysNone` | a remainder below the minimum makes `normalize_order` raise `TradingError`, which ends the job before the positions after it, at every interval | `architecture.md:92`, `lessons.md:42` |
| `CancelAfterRestart.cfg`, MCPaperExchange | `NewOrdersCancelable` | after a restart (or a failed commit of a cancel) a NEW order can never be canceled | `architecture.md:127-129` |
| `FrozenCandle.cfg`, MCOhlcvStore | `CompletedBarsAreFinal` | a candle stored while it forms is never stored again, and is answered as it was then | `lessons.md:21`, `lessons.md:27` |
| `StopForgotten.cfg`, MCRiskGate | `StopCoolsSymbol` | a stop that fills in part leaves its reason to the exit that sells the rest, and the cooldown is looked up by that reason: the symbol is entered again at once | `architecture.md:57` |
| `TornPeak.cfg`, MCOptimizer | `PeakWasReached` | an entry committed between the sum of the cash and the reading of the positions leaves its cost in one and its units in the other; the peak latches the difference, and the drawdown is measured from it | `architecture.md:53`, `architecture.md:74` (drawdown of a computed equity) |
| `ShortFetches.cfg`, MCOhlcvStore | `FramesHaveNoHoles` | a short fetch after a silence leaves a hole in the table that a longer answer spans | indicators and strategies, which take the rows of a frame for consecutive candles |
| `PongsForever.cfg`, MCMarketStream | `ConnectingEnds` | every pong marks all symbols CONNECTING with a new heartbeat, so that a connection with pongs and no data is connecting for ever | `lessons.md:29`, `lessons.md:67`, `HANDOFF.md:58` |
| `BreakerAtLimitPrice.cfg`, MCRiskGate | `DrawdownBlocksEntries` | `evaluate_entry` marks what is open at the limit price of the order it judges, so that a limit order passes a breaker that is tripped at the market | `README.md:24` of the repository |

Read but without a run of their own: `record_funding_charge` books a charge in
its own trade and again in the exits, which for spot take it from the PnL but not
from the cash, and books to closed rows as well (nothing calls it yet); the candle
an entry was made in is not evaluated when it closes (`_bar_already_processed` counts the
entry); a limit price is rounded down for buys and sells alike; dividing the cut
weights by their sum lifts them over `optimizer_max_weight` whenever it binds; a
ticker without a side persists a quote whose spread is 0, which passes the spread
check; a session that ends at 23:59 excludes the last minute of the day; the spot
cap is a share of cash while the order was sized as a share of equity; only the
reason `stop_loss` starts a cooldown, a liquidation does not; the reset script
deletes event rows, whose ids SQLite gives again to a client that is past them.

### Bounds

Every bound is a CONSTANT or a comment "bound" in a guard.

* Primary keys: `Positions` has two, since handlers touch one row and mark the
  others; `MaxPositions = 3` lets three positions be open, one more than the two
  sessions of the run may leave over a limit of one, so that `OverrunBounded`
  could fail. `RoomForEntry` keeps an entry from starting without a key.
* Quantities of 3 have every kind of split (1+1+1, 1+2, 2+1, 3). With a minimum
  notional of 3 a unit can be sold at the price 3 and not at 2, so each of them can
  complete and each can get stuck. Quantities of 2 are the least that can be
  partially sold from a stale row; with `MinTradable = 2` the unit that such a sale
  leaves cannot be sold.
* `MaxCharges = 1`: one funding charge, of any row with trades, at any moment; a
  second charge adds to the first, and the sums grow without bound. The theorems
  have any number of charges of any sign.
* `MaxTrades = 2` in PortfolioRow: a purchase between the two queries of another
  session tears its reading; after a second trade the account has moved on from it.
* RiskGate follows exits while an entry can still come after them (`EntryLeft`),
  which is when its properties look at them. Two positions are the entry and the
  one it meets; `MaxTime = 2` has a midnight and a cooldown that ends.
* `MaxTime`, `MaxBars`, `MaxOrders` of the evaluator: an entry, its exit and the
  entry after the cooldown are three orders and take five candles.
  `MaxFailures = 1`: one restart or failed commit is enough to part memory and
  rows.
* OhlcvStore: frames of 2 and of 3 are the least of which one reaches past the
  other's candles and still holds a pair to have a hole between; 7 candles leave
  room for a fetch, a silence and a fetch after it. A candle there is one tick,
  forming or complete, as long as a frame is cached (30 s in the code, and candles of
  a minute and more); `FrozenCandle.cfg` has candles of two ticks and a cache of one.
* `MaxFaults = 3`: a failed attempt, a failure within the handling of it and one
  more after the restart. `StaleAfter` is longer than `MessageTimeout` and as long
  as the longest delay, so that each of the three limits can be the first.
  Control messages have no bound.
* `MaxId = 2` with reads of one row: two ids are the least that can be committed
  out of order, and the second is then a second read. The proofs have no bound.
* Deadlock is not checked where the modelled time, table or data frame ends
  (`PaperExchange`, `StrategyEvaluator`, `OhlcvStore`, `Backtest`); it is in the
  other runs.

### Fairness

* `FairSpec` of TradingSessions assumes weak fairness of `JobStep` for each
  scheduler. APScheduler starts the interval job again whenever the previous one
  has ended (`coalesce`, `max_instances=1`), and a started job runs on: it waits
  for no one, as no row is locked. It may raise at any step, any number of times;
  `EveryPositionIsEvaluated` says which positions that can make wait. No fairness is
  assumed of requests, since nobody has to send one.
* `FairSpec` of MarketStream assumes it of the worker's own steps (a coroutine
  whose waits all have a timeout), of time, and of `Restart`
  (`restart: unless-stopped` in `docker-compose.yml`). The venue owes nothing: it
  may be silent, refuse, or send only pings.
* `JobsSpec` assumes it of `Poll` and `SendRow`, the loop of an open connection.
  Jobs and clients owe nothing.

All other properties are safety.

## 4. Proofs

Every invariant and action property of the passing runs is part of the statement of
a theorem, for every value of the constants that the modules' ASSUMEs allow:
`LedgerAssumption`, `GateAssumption`, `SessionsAssumption`, `EvaluatorAssumption`,
`ExchangeAssumption`, `StreamAssumption`, `FeedAssumption`, `JobsAssumption`,
`BacktestAssumption` and those of PortfolioAccount, OhlcvStore, PortfolioRow and
Optimizer. They say
that prices, quantities, lots and leverage are positive integers, that fees are
not negative (funding may have any sign), and that actors, positions and symbols
are finite sets. TLC evaluates them in the runs. Two theorems have a hypothesis
of their own: `LossTheorem` (`SlippageWithinMargin`) and `BestExecutionTheorem`
(`SortedBooks`), each explained below.

**SumLemmas.** Totals over positions, symbols and levels of a book are folds of
the community modules, defined by recursion over subsets. `RecursionIsSolved` and
`RecursionAgrees` show that such a recursion has a solution over a finite set, and
only one, by induction on the size of the set. The induction theorems of the library
take an operator as a parameter, which the provers cannot instantiate;
`InductionInSet` states induction for membership in a set instead, and that is all
these proofs need. What sums do follows: type, empty sum, removing an element, order,
scaling, splitting, and changing one summand.

**PositionLedgerProofs.** `LedgerInvariant` is `LedgerSpec => []LedgerInv`.
Cash, quantity and type correctness are not inductive by themselves: that an exit
releases exactly its share of the collateral needs the collateral to be exactly
`Collateral(key, entryPrice, quantity)`, that the entry fee is fully absorbed needs
`entryFee = Fee(entryPrice, entryQty)`. `RowConsistent` states these. The argument
rests on `ShareExact` (a share of a total that is a multiple of the whole leaves no
remainder) and `ExitBookingExact`; then one lemma per action (`EntryKeeps`,
`ExitKeeps`, `FundingKeeps`, `MarkAllKeeps`), combined in `NextInv`. From it:
`LedgerTypeCorrect`, `CashTheorem`, `QuantityTheorem`, `ClosedFinalTheorem` (an
action property). Any row with trades may be charged, spot and closed ones too: the
share of a charge that a spot exit takes from the PnL stays in cash, so the cash
identity carries `SpotGap`, the sum of those shares, and `FundingKeeps` needs no
more than that a charge moves cash and PnL alike. `UnfundedProfitTheorem` needs a second invariant on top,
`ProfitInv`: the realized PnL explains all exits so far by the difference of their
notionals, unless the position was charged funding.

**AccountProofs.** `AccountImplementsLedger` is `AccountSpec => LedgerSpec`: each
handler that also rewrites the portfolio row is a step of the ledger.
`GateImplementsAccount` is the same one level up, so that what is shown of rows and
trades holds behind the gate.

* `EquityTheorem`: `LedgerInv` gives for each row what its trades and its mark add to
  equity; `UnrealizedIsPnl` (inductive with it) says that the stored PnL of an open
  row is the one at its stored price. The sums over all positions carry the identity
  from rows to the account, with the gaps of charged spot positions.
* `TradeCostsTheorem` compares two whole portfolios, before and after a handler that
  also marks every row of the symbol. All rows but one cancel in the sums; for the
  one that trades it is an equation about entry and exit bookings, where `ProfitInv`
  is needed for the exits.
* `CapsTheorem`: the gate projects exposures by adding an order to the stored row, the
  account sums them again after the fill. A partial fill is the reason it is more than
  an identity: exposures of a smaller fill, and the equity they are compared with, have
  to be bounded by those of the whole order.
* `BreakerLatchesTheorem` needs no invariant but the types: a flat account has nothing
  to mark, so its equity at any price is what it was, its peak cannot fall, and the
  gate, which recalculates before it looks, refuses every entry.
* `StoppedSymbolTheorem` (`OnlyForgottenStopsPass`) says which entries get past the
  cooldown of a stop: those that meet the stopped position still open, or its rest
  sold for another reason, as `StopForgotten.cfg` shows. It rests on `ExitNotesAgree`
  (inductive with `LedgerInv`): a row closed by a stop was closed at its last stop, so
  that the cooldown's query finds it.

**PortfolioRowProofs.** `RowInv` says of every copy of the peak - in the row, held
by a session, computed but not committed - that it is within `Ceiling`, the most the
account was worth plus the worst error of one reading (`PeakTheorem`): a reading
raises the ceiling over what it computes (`ReadingIsWithin`), and what goes from
session to session through the row adds nothing to it. `PeakFallTheorem` is about the
one commit that can lower the peak.
`RunInv` adds the stored run. `AllocationTheorem` is about weights that are cut,
divided by the sum of what is left, and rounded: the rounding errors of the weights
add up to at most half a unit each, rounding keeps order, and dividing by the sum of
the cut shares never lifts one above the best uncut share (`CutSharesBounded`).
`BudgetTheorem` carries the rounding on to the targets. Its property allows for both
roundings: half a money unit a target, and half a unit of weight a symbol, which is
worth more the larger the budget is. An allowance that does not grow with the budget
would be false for large equities.

**TradingProofs.** Three specifications with an inductive invariant each.

* *Sessions.* `OverrunBounded` is not inductive: between the count of open positions
  and the commit stands an approved entry. `SessionsInv` counts the approved entries
  with the open positions (`EntriesBounded`): below the limit all actors may be approved
  at once, at or above it nobody new is. It also says that a primary key is left for
  every entry under way (`KeysSuffice`), so that the new row is a new one, and that
  sessions hold rows of the table only (`SeenExist`). `QuietStep` is about every step
  that opens no row, `NewRow` about the one that does.
* *Evaluator.* The cooldown is looked up from one order, the latest close; that it then
  holds after every close needs `EvaluatorInv`: order rows are in the order of time and
  none lies in the future (`RowsInOrder`), and an entry lies between any two closes and
  after the last one while a position is open (`EntriesBetween`). `OnTime` says that the
  frame ends at the forming candle and all before it are complete. `LaterBarsTheorem`,
  `CooldownTheorem` and `WorstLevelTheorem` are parts of the invariant.
* *Exchange.* `ExchangeInv`: only the process that placed an order remembers it, what is
  remembered is alive, a limit row is within its limit, and while nothing has failed
  every waiting row is remembered. The limit price rests on the walk of a book:
  `WalkRecurses` turns the fold over the levels into a recursion by prefix,
  `WalkUpto` and `WalkTotals` say what it has taken after n levels (each level whole
  until nothing remains). `BestExecutionTheorem` shows that this greedy walk is optimal:
  there is a level (`WalkHasMargin`) before which it takes all there is and after which
  it takes nothing, and against any other way to take as much `CheaperCostsLess`
  compares the two level by level at the price of that one. It assumes `SortedBooks`,
  snapshots sorted best first, as the venue sends them; the code sorts nothing, and an
  unsorted book really would be walked in the wrong order. `Eligible` gives a level
  beyond the limit the size 0 instead of leaving it out (the walk passes over both in
  the same way), because a selection from a sequence cannot be reasoned about.

**MarketDataProofs.** One invariant of the stream worker, two facts about a row: if it
says HEALTHY its heartbeat is its last message (`HealthyRows`), and if the worker is
dead it is at least as old as the death (`DeadRows`). `WritesKeepInv` covers every
commit of a prefix of the marks. Of the candle store, `StoreInv`: what a fetch holds and what is cached are whole
blocks of candles (`FramesAreWhole`), and the newest n rows of the table are one for
every n up to the shortest fetch committed so far (`TableIsFull`), so that only an
answer from the table that is longer than that can have a hole (`HolesTheorem`).
`WrittenOnceTheorem` is the
unique constraint at work.

**EventFeedProofs.** `FeedInv` relates the cursor of a connection, its unsent rows
and what it was sent; `FeedSkipsOnlyLate` follows, and `FeedDelivers` is the
refinement: a `Commit` is a `Publish`, a `SendRow` a `Deliver`, a `Connect` a
`Begin`, anything else leaves the promise alone. `JobsDeliver` lifts both to the
jobs. Of the jobs themselves, `JobsInv` counts: decisions announced and reviews on
their way to announce one are together no more than the decisions stored
(`DecisionsTheorem`); `JobsMove` says where each action takes a job.

**BacktestProofs.** `BacktestInvariant` is `Spec => []BacktestInv`. A step is the
composition of funding, exit and entry; each of the three keeps `Explained` (the
balance is explained by the trade records and what the open position has taken)
and the relation of records and report totals (`FundedKeeps`, `ExitedKeeps`,
`EnteredKeeps`), and `ProcessBarKeeps` composes them. `BalanceTheorem` and
`ReportTheorem` follow. They cover spot as well as perpetual instruments.
`LossTheorem` is about perpetuals and assumes `SlippageWithinMargin`: leverage times
the slippage of a fill is at most the maintenance margin, and fills are worth more
than both. Without it a fill beyond the liquidation level loses more than was locked.
It rests on `InsideInv`: at the close of the last candle an open position still has
its maintenance margin, because `ExitLevel` looks at the liquidation level first
(`LevelInside`) and an entry pays only its slippage (`EntryInside`).

Only model-checked is liveness under fairness, which is out of the prover's reach:
`EveryPositionIsEvaluated`, `AlwaysReconnects`, `ConnectingIsTemporary` and
`EventuallyDelivered`. The counterexamples of section 3 are TLC's as well.

## 5. Not modelled

* The weekday filter of `evaluate_entry` (all seven days are allowed by default)
  and its leverage limit (`normalize_order` has already taken the minimum with it).
* What `maybe_execute_paper_decision` does with an accepted decision: no answered
  review reaches it as the code stands, and a review without an answer is never
  accepted.
* Strategies, indicators, the ML filter, the backtester's metrics and the
  optimizer's volatility and correlation: floating-point functions of a frame; their
  results are free choices of the models.
* The levels of an order book in MarketStream, whose deltas are stored as if they
  were books (`bybit_stream_service.py:101`): only the spread of the newest quote
  is kept.
* Instrument synchronisation and its cache; `store_synthetic_data`; the strategy
  registry's flags. They change which keys and lots there are, which are constants.
* Live adapters: calls to venues, off by default, with no reconciliation in the
  code. APScheduler, Redis, SQLite and PostgreSQL are external and modelled by what
  the code relies on.
* Dashboard, read-only routes, settings, frontend, migrations, and scripts that are
  meant for a stopped system.

## 6. Plan

Next theorems: what remains true where the runs of section 3 find a counterexample
(how far a position can be oversold by stale sessions, which orders stay cancelable
after a restart, which candles a frame may hold as they were while they formed), and
the safety halves of the liveness properties. Next modules: instrument
synchronisation against a running evaluation, and the LLM entry once an answered
review stores its decision.

## 7. Running

    tlc -workers 2 -config MCPortfolioAccount.cfg MCPortfolioAccount.tla
    tlc -workers 2 -config DoubleClose.cfg MCTradingSessions.tla
    tlapm PositionLedgerProofs.tla

`PROJECT.json` lists the components, the runs with their modules and
configurations, a mutated definition for each checked property that the run must
reject, the source lines of every definition, the hazards and the theorems.
Definitions marked "Mutant" in the modules are those mutated forms; no
specification uses them.
