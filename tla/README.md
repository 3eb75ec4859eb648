# Quad: a TLA+ verification development

Quad (`src/src/quad/`) is an automated trading system for Bybit perpetual
futures. A control-plane API owns tenants and their encrypted exchange keys and
runs one worker process per active tenant. A worker runs a trading cycle: it
collects market data, asks strategies and a language-model judge for a decision,
passes the decision through a risk manager and sends orders through an execution
engine, an order gateway and a REST adapter to the exchange. An operator watches
and stops it over Telegram.

This directory holds TLA+ modules translated from that code, TLC configurations
that check them on small instances, and TLAPS proofs of the most important
results for every value of the constants.

## 1. Inventory

Paths are relative to `src/src/quad/`.

| component | state it keeps | operations | modelled by |
|---|---|---|---|
| order gateway, `execution/gateway.py`, `common/retry.py` | confirmation events, active orders, ring buffer of completed ids | `submit`, `cancel`, `get_status`, `refresh_state` | `OrderGateway` |
| Bybit adapter, `exchange/bybit.py` | session, retry counters of a request | `_request`, `place_order`, `cancel_order`, `get_open_orders` and reads | `OrderGateway`, `ExecutionEngine` |
| execution engine, `execution/engine.py` | counters, reconciliation task | `execute`, `execute_twap`, `_persist_trade`, `_ingest_exchange_trades` | `ExecutionEngine`, `TradeJournal`, `TwapSlicer` |
| TWAP executor, `execution/twap.py` | slice plan, filled quantity | `plan`, `execute` | `TwapSlicer` |
| order reconciler, `execution/reconciler.py` | mismatches of `_active_orders` | reconcile | not modelled: `_active_orders` is proved empty |
| Telegram kill switch, `bot/_safety_mixin.py` | none of its own | `cmd_kill_callback`, `_cancel_all_open_orders` | `ExecutionEngine` |
| worker supervisor, `supervisor.py`, `worker.py` | worker table in memory, config files on disk, OS processes | `ensure`, `stop`, `sweep`, `status`, `_poll`, `_spawn` | `Supervisor` |
| worker and exchange routes, `api/routes_worker.py`, `api/routes_exchange.py`, `api/flatten.py`, `api/app.py` | tenant and credential rows, the exchange account | connect, disconnect, kill with flatten, resume, restart, sweep loop | `Supervisor`, `Flatten` |
| auth, config and credential rows, `api/routes_auth.py`, `routes_config.py`, `deps.py`, `security.py` | tenant, token version, config, credentials | login, revoke, get and put config, upsert and delete credentials | `TenantAccess` |
| rate limiter, `api/deps.py` | deque of hit times per key | `check`, `_cleanup` | `RateLimiter` |
| chat linking, `api/routes_telegram.py`, `bot/commands.py` | pairing codes, bindings | issue, `/start CODE` | `ChatLinking` |
| bot conversation, `bot/commands.py` | conversation state, `user_data`, last command times | `/execute`: start, select, confirm, cancel | `BotCommands` |
| risk manager, `risk/` | breaker table, loss streak, state file; gates, sizer, tracker without state | `evaluate`, `update_monitoring_data`, `trigger`, `reset`, `reset_kill_switch` | `CircuitBreakers`, `RiskEvaluation` |
| trading cycle, `orchestrator/` | trade lock, open-position view, alert registry | cycle, rotation, serial close/open, TradingView webhook, `/execute` | `TradingCycle` |
| judge, `orchestrator/_rotation_mixin.py`, `_decisions_mixin.py`, `ai/validator.py` | daily budget, candle marks, decision rows | gate, call, escalation, validation, journaling, resolution | `Judge`, `DecisionValidator` |
| language-model client, `ai/groq.py` | key pool, usage window | `chat`, key rotation, fallback | `GroqClient` |
| worker life, `orchestrator/orchestrator.py`, `_bootstrap_mixin.py`, `bot/bot.py`, `__main__.py` | the subsystems, stop event, cycle task | start, run, signal, shutdown | `Lifecycle` |
| error sink, `monitoring/error_sink.py` | bounded queue, flush task | record, flush, stop | `ErrorSink` |
| market data, `market_data/websocket.py`, `engine.py`, `buffers.py` | subscriptions, pending topics, reconnect counter; caches, ring buffer | subscribe, unsubscribe, resubscribe, stop, dispatch; handle, read | `WebSocketManager`, `MarketCaches` |
| repositories, `persistence/repositories.py` | rows of all tenants | create, get, list, update, delete, hand-written queries | `TenantStore` |
| schema, `persistence/database.py`, `pg.py`, `models.py` | tables, columns, version | `initialize`, `migrate` | `Schema` |
| configuration, read-only bot commands, prompts and indicators, notifications, backtesting, CLI | settings, text | parsing, formatting, offline simulation | not modelled |

How they interact. The supervisor starts and stops workers as OS processes and
shares only the tenant registry (PostgreSQL) and config files with them; it runs
in the API's event loop, so every `await` in a route is a point where the sweep
loop or another request runs. In a worker, the trading cycle, the Telegram
callbacks, the webhook handler and the reconciliation loop are coroutines of one
event loop; they share the risk manager, the gateway and the adapter without
locks, except for one trade lock. The exchange is reached over HTTP, where an
answer can be lost after the effect happened.

What is hard here:

* an order POST whose answer is lost or that arrives late, under two nested retry
  loops (`exchange/bybit.py` `_request`, `execution/gateway.py` `submit`);
* state read before an `await` and used after it: the risk verdict in
  `execute()`, the tenant status in `build_worker_config`, the record check in
  `ensure()`;
* one step of several failing: the kill switch's open-order query, one cancel of
  a list, a spawn after the config file with decrypted keys was written;
* restarts: workers survive the control plane, whose table is in memory only; a
  migration, a pass over the executions or a pairing may be cut off halfway;
* check-then-act over a database that several requests and processes share:
  first logins, default rows, token versions, pairing codes, schema versions;
* shared pools and queues: the API keys and budgets of overlapping model calls,
  the error queue while it is being flushed, topics subscribed during a reconnect;
* things that must happen: `submit()` returns, the kill switch answers, a crashed
  worker comes back.

`PROJECT.json` lists these hazards with their lines and the properties that
would catch each.

What makes each part correct: the gateway creates at most one order per call and
tells the truth about it; the engine reports and journals only real fills, and
once the kill switch is thrown it posts for no call that had no verdict by then;
the kill switch accounts for every order; the supervisor, as long as its callers do
not overlap, runs one process per active tenant, never revives a halted tenant and
honours a crash-loop verdict, and in any case brings crashed workers back and
leaves no decrypted keys behind; the breakers block trading for as long as their cause lasts; the
trading cycle holds at most one position, trades under its lock only, acts on an
alert once and never stalls; gates, sizer and engine agree on what an approved
action may become; the judge stays within its budget and its rows follow the
positions; the loop journals an order once; a subscription is served and a stopped
feed is silent; the error sink writes no event twice and can account for each; a
worker closes what it opened in an order its parts survive; tenants never see each
other's rows, nor touch them but for the upsert of an account; a revoked token is
refused, a chat controls the tenant whose code it used,
and a killed account is flat.

## 2. Modules

### `OrderGateway`, `AtMostOnceOrder`

One record of progress per `submit()` call. `pc` is the await the call is at:
`posting` (inside `place_order`), `waiting` (for the confirmation event), `done`.
`tries` and `posts` are the attempt numbers of the gateway's and the adapter's
`retry_async` loops. `pending`, `active` and `completed` are
`_pending_confirmations`, `_active_orders` and `_completed_ids`. The exchange
(external) is `book`, the order under each `orderLinkId`, and `inflight`, POSTs
whose sender gave up and that may still arrive.

| action | code |
|---|---|
| `Submit` | client id, field-by-field copy of the request, event registration, first POST |
| `PostAcknowledged` | the answer arrives: a terminal status resolves the call, any other waits |
| `PostFailed` | refused, rate-limited, timed out or reset, with every effect on the exchange; retried by the adapter's loop, by the gateway's loop, or rejected |
| `ConfirmationTimeout` | `asyncio.wait_for` expires |
| `DelayedArrival`, `OrderMoves` | the exchange (external) |

`cancel`, `get_status` and `refresh_state` of the gateway look an order up in
`_active_orders`. `NothingTracked` is proved, so they always take their "not
found" path and have no action.

`AtMostOnceOrder` is the promise: per call at most one order, whose life is the
exchange's, and one answer, which is `rejected`, `timeout` or the order's status
at that moment. `OrderGateway` refines it with the order under the call's link id
as `order` and `outcome` as `answer`.

### `ExecutionEngine`

Extends `OrderGateway` with `execute()`: risk evaluation, quantity preparation
and the last-mile protection check, submission, collection of the result and
journaling, each separated by an `await`. `killed` is the KILL_SWITCH breaker.
The kill switch is a concurrent process: trigger the breaker, ask for open
orders (the query may fail), cancel them one by one (each cancel may fail with or
without effect), report.

The separate bracket submits in `execute()` need an entry whose request has
neither TP nor SL although its action has one. `_build_request` copies both, so
this code is never reached and is not modelled.

### `TradeJournal`, `TwapSlicer`

`TradeJournal` has the two writers of the trades table: `execute()`, which writes
a row for each order it saw filled, and the reconciliation loop, which walks
through the exchange's executions symbol by symbol and leg by leg, with a lookup
and an insert awaited for each. `jTodo` holds the places in `jExecs` of the legs
still to come and `jAt` the place of the last one; the next leg is the oldest to
come of the symbol the loop is at (`IsNext`). Orders trade in one or two
executions, brackets close positions between any two legs, the fetch of a symbol
fails and the symbol is passed over (`FetchSkips`), a lookup or an insert fails,
the worker restarts. `ForeignKeys` says
whether the table refuses `position_id` 0, as the schema does (`v_journal`); the
`records` run sets it to FALSE, to show what the writers guarantee on a table that
takes their rows. `OrderIsJournaled` speaks of orders, `FillIsJournaled` of single
executions; the second is what the docstring of the loop says (`v_journal`).

`TwapSlicer` computes the plan of a parent order from the slice count, unit, step
and notional floor, submits the slices one after the other, and at any check may
decide that it is late and send one urgent order for what the reports say is
missing. A slice fills fully, partly, ends without a fill, is rejected, or times out
and trades all the same (`tTruthful` becomes FALSE). `PlanCoversParent` is what the
plan does: the slices add up to the parent or, when nothing absorbs the dust, to its
whole units.

`Sums` defines the sum of a function over a finite set; slices, exposures and
token budgets are such sums.

### `Supervisor`

One tenant. `w` is its record in the worker table (`absent` when there is none)
with the process it tracks, `orphan` a live process no record tracks, `file` the
rendered config with decrypted keys, `status` and `creds` the registry rows.
`at[k]` is the await a request handler or the sweep loop is at; points with the
prefix `n_` are the `ensure()` inside a `sweep()`. `ensure()` runs a sweep first,
then its own body; a build consists of a tenant query, a credential query and the
spawn. Faults (a query or a spawn that raises) and control-plane restarts are
bounded by `MaxFaults` and `MaxReboots`. `serial`, chosen once at the start, restricts the
environment: when it is TRUE a request or sweep starts only when no other is in
progress.

### `TenantAccess`, `RateLimiter`, `Flatten`

`TenantAccess` is the registry as one Telegram user's overlapping requests see
it: `aTenants`, `aConfigs` and `aCreds` count rows, `aReq[r].at` is the await
request `r` is suspended at. A handler looks a row up, awaits and inserts it; the
UNIQUE constraint of the table refuses a second insert and the request fails. A
token is its `ver` claim. A revocation writes the version it read plus one, or
fails silently. `aDead` and `aSerial` are history.

`RateLimiter` keeps what `_hits` keeps and, as history, the log of all accepted
requests, against which `WindowExact` counts; `Cleaned` is the deletion of idle keys, which happens during another key's check.

`Flatten` is the exchange side of the kill route, over signed positions: cancel
all orders, list the positions, close each listed one with a reduce-only order,
stop the worker, halt the tenant. The worker trades until it is stopped, brackets
fire whenever they rest, each call may fail and is then collected as a warning.

### `ChatLinking`, `BotCommands`

`ChatLinking` has the codes, the bindings and a `/start CODE` handler per chat:
`StartWithCode` (lookup), `BindLookup`, `BindWrite` (UNIQUE on tenant and chat),
`MarkUsed`, each an await apart; `HandlerCut` ends a handler anywhere.

`BotCommands` is the `/execute` conversation. The bot handles updates
concurrently and a conversation changes state only when a handler returns, so
several taps on Confirm can be in progress (`bTaps`, `bBusy`). The choice lives in
`user_data` (`bChoice`); `bCard` is what the last card showed.

### `TenantStore`, `Schema`

`TenantStore` is one table shared by tenants, under repositories that are scoped
to a tenant (workers) or not (control plane). The generic methods are actions. A
query that a repository writes itself is a pair of sequences: what the
placeholders of its text stand for, in order, and what its parameter list holds,
in order; `Select` binds them by position, as `_rewrite_params` does for SQLite.
`Upsert` covers the legacy table that kept `UNIQUE(strategy_name)`. The table is of
one of three kinds, chosen at the start: `pLegacy` marks the legacy table and
`pAccounts` the table of accounts, which has the query that no other table has,
`UpsertAccount`: a conflict on the primary key updates every column, whosever row it
was. `WritesStayInTenant` says of that table only that what a repository writes is
its own tenant's.

`Schema` is the start of several processes on one database file of any earlier
version: `Initialize` (tables and indexes), `ReadVersion`, `Migrate` (one
transaction), `Dies` anywhere, and a tenant who changes the leverage that
migration 8 rewrites.

### `CircuitBreakers`

The seven breakers as one table of active flags, with what the checks remember
(`lossDay`, `streak`, `prev`, `near`, `spikes`), the state file `disk`, the open
cycle with the daily PnL it read (`seen`), and the world: the UTC day and the
realised PnL. The manager's lock spans no `await`, so each of its operations is
one action ending in `SaveState`, which may fail and leave the old or a truncated
file. What interleaves is the cycle's read of the PnL and its use at the end of
the cycle, with closing trades, midnight, the operator and restarts in between.

| action | code |
|---|---|
| `BuildContext` | `get_status` at the start of a cycle; a failed query reads 0 |
| `Monitor` | `update_monitoring_data` at its end: streak update, six checks, save |
| `TriggerKillSwitch`, `Reset`, `ResetKillSwitch` | operator commands |
| `Restart` | `__init__`, `_load_state` |
| `TradeCloses`, `Midnight` | exchange and clock (external) |

`Shows` is the set of parts of the market that a monitoring context carries. In
the running system it is empty (section 4); the `breakers` run sets it to
`{"funding"}`, so that the code of the funding check is exercised too. Days are
counted where the code compares `tm_yday`. `check_all` has no caller.

### `RiskEvaluation`

What `evaluate()` does after the breakers: a caller takes a context of one of the
kinds that exist in the code (`bare` for the close-all path, `cycle`, `bot`,
`full`), nine gates judge the requested quantity in their order, the sizer
replaces it, the engine fits it to the exchange filters. Positions open and close
between the snapshot and the order. Quantities are in thousandths, so that the
sizer's rounding to hundredths is visible. Exposures are sums over the contracts
held (`SumOf`).

### `TradingCycle`

Three kinds of task on one account: the main cycle, webhook handlers and
`/execute`. `at` is the await each is suspended in, `job` the decision it acts on,
`queue` the trade lock with its waiters in order (`asyncio.Lock` is first come,
first served), `loc` the locals of the cycle's iteration. A local is reset where
the code reads it no more. The judge is the choice of a decision; an order trades
one unit, and one whose sender gave up stays in `live` until it fills or dies.

| action | code |
|---|---|
| `CycleReads` | start of `_main_cycle_loop`: account and positions |
| `TrendHolds`, `RollCloses`, `HoldGuardCloses`, `Manage`, `ExitCloses` | `_run_ai_rotation`, case A |
| `TrendFlat`, `Scan` | case B |
| `ScalpStarts`, `TimeStop`, `ScalpJudged`, `ScalpNext` | `_run_scalp_rotation` |
| `LegacyStarts`, `LegacyDecides` | the path without rotation |
| `BeginAction`, `Refused`, `Filled`, `Unconfirmed` | `_execute_ai_action_locked` and the engine's answer |
| `CancelThenRaise` | `_close_all_positions` with a position open |
| `AlertArrives`, `AlertReads` | the webhook handler |
| `ManualTrade` | `execute_strategy` |
| `Restart` | a new worker, with its close of leftover positions |
| `PositionCloses`, `LateFill`, `Tick`, `RollDue` | exchange and clock |

`_close_all_positions` raises `NameError` when a position is open (see `v_roll`),
so the lines after its order tasks cannot be reached and are not modelled.

### `Judge`, `DecisionValidator`, `GroqClient`

`Judge` is one cycle at a time: resolve open decision rows against the positions
read at its start, gate a pair (signal, candle mark, daily budget), call the
judge, escalate to the second model, validate, journal, enter. Between the steps
candles and days change, brackets close positions and the worker restarts.
`scan.todo` holds the places in `Pairs` that the cycle has yet to ask about, and
`Names` the contracts that an answer may name, pairs of the rotation or not.
`DecisionValidator` holds the pure part: synonyms of directions, derived side,
confidence clamp with NaN, plausibility veto, minimum confidence, batch answers.

`GroqClient` is the client that overlapping callers share. `usage` is the rolling
window of token counts, a set of records with the number of the call. A call checks the
local budget and sends in one step, and the answer may be a result, a throttle, a
burst limit, a quota wall, a connection or a status error; the client sleeps and
retries, rotates the key of the pool or falls back to the second model.

### `WebSocketManager`, `MarketCaches`

`WebSocketManager` has one connection task (`task`: loop, connecting, snapshot,
reading, lost, unwinding), the subscriptions, the pending operations (a set: the
task groups them by kind before it sends, so neither their order nor a repetition
matters) and the topics the server sends (`server`). The API calls run between the steps of
the task; `stop()` and `resubscribe_all()` cancel it and wait under a lock.
`dropped` holds topics that an unsubscribe has silenced on this connection.

`MarketCaches` is fed with messages that may be repeated, overtaken or
renumbered, and is read with a maximum age; the price buffer wraps.

### `Lifecycle`, `ErrorSink`

`Lifecycle` runs the steps of `start()` in `StartOrder`; each may raise before or
after it assigned or opened its part. `held` are attributes that are set, `open`
the parts that run. A raise, or the end of `run_forever`, goes through
`ShutdownOrder`, where each stop method may raise. The leverage set-up, the polling
retries of the bot and the stop signal at any time are part of it. `lFailed` are
the pairs whose settings the exchange refused, `lSeen` the held pairs whose leverage
was read back and compared: the read may raise after some of them, and a leverage
that is missing or unreadable is passed over.

`ErrorSink` numbers events in the order they are logged. The flusher takes the
whole queue and awaits one insert per row; a failing insert logs an event of its
own; `stop()` cancels the flusher wherever it is and flushes the rest. A row whose
insert failed is not queued again, and a queue below the batch size waits for more
events or for `stop()`.

### Modules for TLC

`MCExecutionEngine`, `MCTradingCycle`, `MCJudge` and the other `MC` modules give
the constants their values. Components that share no state are put into one run:
`MCExchange`, `MCSupervisor`, `MCRecords`, `MCCircuitBreakers`, `MCJudge` and
`MCWorker` conjoin their initial states and let one component move while the
others rest in theirs (`ExchangeNext`, `ControlPlaneNext`, `RecordsNext`,
`RiskNext`, ...). Since no action of one reads a variable of another, the
interleavings that this leaves out are interleavings of steps that commute, and
every reachable state of each component is still visited.

## 3. Runs

`tlc -config X.cfg M` in this directory. Every property has a mutant: an operator
defined before the definition it changes, which models a plausible bug and under
which the property fails.

| run | configuration | what it shows |
|---|---|---|
| `exchange` | `MCExchange`, `Exchange.cfg` | 2 calls, 3 POSTs, 2 gateway tries: `AtMostOneOrder`, `AnswerMatchesExchange`, `BookkeepingSound`, `SubmitReturns`, and the refinement `AtMostOnce`. 3 subscriptions, two of them on one topic, 2 reconnects: `FeedSound`, `SubscriptionServed`. 3 books, 3 tickers: `CachesSound` |
| `engine` | `MCExecutionEngine`, `ExecutionEngine.cfg` | 2 executes and the kill switch: `NoPhantomTrade`, `OnlyClearedTrade`, `KillAccounting`, `EngineAnswers` |
| `control_plane` | `MCSupervisor`, `Supervisor.cfg` | overlapping request and sweep, crash, fault, control-plane restart: `KeysOnDisk`, `CrashedWorkerHandled`, `WorkersSound`. 2 overlapping requests and the limiter: `RequestsGuarded`. 2 chats, 2 tenants, 2 taps: `ChatsGuarded`. 2 markets: `KillFlattens` |
| `breakers` | `MCCircuitBreakers`, `CircuitBreakers.cfg` | `KillSwitchHolds`, `DailyLossHolds`, `FundingTripIsEarned`, `DailyLossBlocks`; gates and sizer on two symbols: `RiskSound` |
| `trading` | `MCTradingCycle`, `TradingCycle.cfg` | two pairs, four configurations, one handler: `OneTradeUnderLock`, `AlertOnce`, `CycleComesRound`, `AlertsAnswered` |
| `judge` | `MCJudge`, `Judge.cfg` | 2 callers, 2 keys, 2 attempts: `ClientSound`, `ChatEnds`. 2 pairs, answers that may name a third contract, a budget of 2, a midnight, candle and restart: `JudgeSound`, `RowsResolved` |
| `records` | `MCRecords`, `Records.cfg` | 3 orders of up to 2 executions: `JournalSound`, `OrderIsJournaled`. Parents around the boundaries: `TwapSound`. 2 tenants, every query, three kinds of table: `TenantIsolation`. 2 processes, versions 0 to 10: `SchemaSound` |
| `worker` | `MCWorker`, `Worker.cfg` | every step raising, the signal at any time: `LifecycleSound`, `SignalEndsTheProcess`. 5 events, a queue of 3: `SinkSound`, `SinkDrains` |
| `v_naked` | `V_EntryNeverNaked.cfg` | violated: an entry on the exchange carries its TP/SL |
| `v_overlap` | `V_OneProcess.cfg` | violated: one OS process per active tenant |
| `v_roll` | `V_Rolled.cfg` | violated: an open position is rolled |
| `v_journal` | `V_FillIsJournaled.cfg` | violated: a fill reaches the trades table, which has the foreign key of the schema |

A property whose name ends in `Sound`, `Guarded` or `Isolation` is a conjunction
of parts that are named and commented in its module:

| property | parts |
|---|---|
| `BookkeepingSound` | types; no confirmation event left (`NoLeakedConfirmation`), no order tracked (`NothingTracked`), completed ids finished and bounded (`CompletedAreFinished`) |
| `FeedSound` | types; `ActiveTopicsServed`: a subscription made at any moment is sent; `NobodyMissed`: a message reaches its subscribers (candles excepted); `StopReleases`: after `stop()` nothing reads |
| `CachesSound` | types; `BookIsNewest`, `BookReadIsFresh`, `BufferHoldsLatest` |
| `EngineAnswers` | `ExecuteReturns`, `KillReports` (liveness) |
| `WorkersSound` | types; without overlap `OneProcessSerially`, `HaltedStaysStopped`, `VerdictStands` |
| `RequestsGuarded` | `WindowExact`; `OneRowEach`, `RevocationExact`, `ScalpLeverageCapped` |
| `ChatsGuarded` | `OneChatPerTenant`, `CodeBindsOneChat`; `RunsWhatWasConfirmed`, `ExecutionsPaced` |
| `KillFlattens` | `KilledIsFlat`; `KillOnlyReduces`: no step of the kill opens, grows or turns a position |
| `RiskSound` | `SizedStillPasses`, `RaisedWithinCaps`, `ExposureAgreesWithGates`, `CloseIsNeverGated` |
| `OneTradeUnderLock` | types; at most one position (`OneTrade`), every order placed by the lock's holder (`TradesUnderLock`) |
| `ClientSound` | types, a key left in the pool; `SpendIsBounded`, `RescueTried` |
| `JudgeSound` | types; `SpendWithinBudget`, `JudgedOncePerCandle`, `TradesAreJudged`, `RowFollowsPosition` |
| `JournalSound` | `IngestedOnce`, `ClosePnlKept` |
| `TwapSound` | `PlanCoversParent`, `NoOverfill` |
| `TenantIsolation` | `ReadsStayInTenant`, `WritesStayInTenant` |
| `SchemaSound` | `ServesCompleteSchema`, `ChoiceSurvivesStart` |
| `LifecycleSound` | types; `NothingOutlivesItsNeeds`, `EverythingReleased`, `LiveTradesOnItsLeverage`, `ReadyMeansServing` |
| `SinkSound` | types; `WrittenOnce`, `NothingForgotten`, `DropsReported` |
| `SinkDrains` | `FullBatchFlushed`, `StopDrains` (liveness) |

Bounds. Two calls are enough for an interaction between calls, which share only
the ring buffer and the exchange; three POSTs cover a first, a repeated and a
last attempt. In the engine run the adapter has one attempt, since the `exchange`
run covers its loop and every outcome of a submission is still reached. One
handler and the loop give two overlapping tasks in `Supervisor`, which is what
the races need; one crash beyond the budget reaches the crash-loop verdict.
Two requests, chats or taps are the least that overlap; three token versions
allow a revocation after an overlapping pair. The limiter's clean-up runs every 3
accepted requests and the window is 2 of 5 ticks, so that keys expire, are
deleted and are used again.

A topic shared by two subscriptions, four calls and two reconnects reach every
step of the connection task under every call. Three numbered books with one
renumbering are repeated and overtaken in all orders.

In `breakers`, two days, one restart and one fault reach every mix of a stale
context, a day change and a restored file; PnL values -1, 0, 1 around the limit 0
are below, at and above it, and two spikes are the least that form a run.

In `trading`, two pairs are enough for a second position and for the wrap of the
rotation index; the configurations are trend with serial trading and rolling,
trend with neither, scalp without and legacy with serial trading, so that each
mode and each side of both switches is reached. Two units per symbol show a
stacked order, one order in flight a late fill. `MaxFaults` is 1: after a fault
`OneTrade` says nothing until the account is flat again (`clean`), so more faults
add nothing to it; a fault is a lost read, an unconfirmed order, a failed
adjustment, a manual trade or a restart. With `Fresh` 1 and `Window` 2 an alert can be repeated fresh,
remembered and stale, and forgotten and stale.

In `judge`, two keys and two attempts give a rotation with attempts left and one
without; two callers overlap on both. A budget of 2 is spent by a call and its
escalation. In `records`, three orders are an entry, its close and the next
entry; the real version numbers 5, 8 and 10 are used. In `worker`, one raise
during shutdown reaches each stop method; a queue of 3 with batches of 2 is full,
over-full and part-full.

Deadlock is checked in `breakers` and `trading`. The other runs contain
components that stop: the last call has returned, the worker has ended, the
events are used up.

Fairness. Weak fairness of each coroutine's next step: the event loop runs every
coroutine whose await has ended, and every await of this code ends because the
HTTP client, `wait_for` and the database driver have timeouts. The sweep loop
wakes every 60 seconds (`api/app.py`), and the trading cycle sleeps a bounded time
after success and after failure alike. The connection task, the reconciliation
loop, the error flusher and the steps of `start()` and of the shutdown are
coroutines of the same loop; the calls of the model client end because its HTTP
client has a timeout. Time passes until a roll is due. No request, no kill and no
step of the exchange is fair: operators and orders may do nothing.

## 4. What the models show

The four violation runs, each against a statement of the repository
(`PROJECT.json`, findings):

* `v_naked`: `submit()` copies the request without `take_profit_price` and
  `stop_loss_price`, after the engine's last-mile check saw them.
* `v_overlap`: `ensure()` decides before its awaits and spawns after them. A request
  and the sweep start two processes, and one of them is no longer tracked, against
  line 3 of `supervisor.py`. `WorkersSound` shows that overlap is what breaks
  it.
* `v_roll`: `_positions_mixin` imports `StrategyContext` for type checkers only and
  uses it where it builds the closing orders. Every close of an open position
  cancels all open orders, the brackets included, and then raises; rolls, hold
  limits, scalp time-stops, the close before a serial entry and the close at start
  all end this way. A position is closed by its brackets or by hand, or not at all.
* `v_journal`: both writers insert `position_id` 0 into a column that references
  `positions(id)`, with foreign keys on. No fill reaches the table, so the daily
  PnL that the loss limits read stays 0.

More behaviours follow from the models. They are not runs: the properties above
exclude them by a guard that their comments name, or describe the code as it is.
Those that contradict a statement of the repository come first.

Against a comment or a docstring:

* `_safety_mixin.py` 207 halts new entries "so nothing new is submitted while we are
  cancelling", but an `execute()` past its risk check enters `submit()` after the
  kill switch was thrown, also after the open orders were listed
  (`execution/engine.py` 232-301). What remains true is `OnlyClearedTrade`: such a
  call had its verdict before the switch was thrown;
* `docs/risk-management.md` 140 has the funding gate reject an entry above a limit,
  but no context that the running system builds carries the funding rates it reads
  (`gates.py` 466), so it refuses every entry that is judged with a snapshot;
* `engine.py` 823-826 says that the loop "upserts every fill". It looks a fill up by
  order id and side (880), so even on a table that takes its rows the second
  execution of an order is skipped; `OrderIsJournaled` counts orders for this reason;
* `twap.py` 12-13 and 154-155 say that the slices sum exactly to the parent. Without
  a step, or in a plan of one slice, what is missing to a whole unit is dropped
  (`PlanCoversParent`);
* `repositories.py` 84-86 says that a scoped repository's writes are guarded to its
  tenant. `upsert_account` (379-414) updates every column of the row that has the id,
  `tenant_id` included: it overwrites another tenant's account and takes it over.
  Only tests call the method so far;
* `_bootstrap_mixin.py` 397 says that live trading must not proceed on unverified
  settings. A read-back of the leverage that fails is logged at debug level (375), a
  leverage that is missing or unreadable is passed over (364-369), and the worker
  trades on (`lSeen`);
* `error_sink.py` 211-213 says that a failed write does not lose events that a retry
  could persist. The queue is emptied first, a row whose insert fails is skipped and
  nothing puts it back;
* `error_sink.py` 75-76 calls the flush interval the longest wait of an event. Only a
  queue that has reached the batch size is flushed (201), so a single event waits
  until `stop()` (`FullBatchFlushed` speaks of full batches only).

Orders and the kill switch:

* no code sets a confirmation event, so an order acknowledged as NEW always ends
  in a timeout and a REJECTED result, filled or not;
* a failed open-order query of the Telegram kill switch is logged, and the report
  says that there was nothing to cancel;
* the gateway's retry loop is dead code, because the adapter turns every error
  into an `ExchangeError` and the gateway retries only `TimeoutError` and
  `ConnectionError`; a call is rejected while its order may be live;
* the kill route stops the worker after it flattened the account, so what the
  worker opens after the positions were listed stays open; a reduce-only order
  for a listed position is harmless (`KillOnlyReduces`).

The control plane:

* with overlap, the body of `HaltedStaysStopped` fails: an `ensure()` in progress
  revives a tenant that was halted meanwhile. After a control-plane restart it
  fails even without overlap: `/kill` answers "stopped" for a worker that outlived
  the control plane;
* with overlap, the body of `VerdictStands` fails: a sweep that looked before the
  verdict clears it, since `ensure()` clears it whoever calls;
* two overlapping revocations write the same version, one after a later one even
  a smaller one (`aSerial`); `update_token_version` swallows a failed write and
  the route answers that all tokens are revoked;
* a pairing code can bind two chats when its redemptions overlap, or when one is
  cut off between `bind` and `mark_used` (`kClean`);
* two overlapping taps on Confirm run a strategy twice (`bSerial`); a Confirm
  button of an older card, tapped while a strategy is being picked, is read as a
  strategy's name;
* `GET /v1/pnl` uses an unscoped repository, whose `sum_pnl_since` sums over the
  rows of all tenants (`SumPnlSince`);
* five queries put `LIMIT $2` behind `tenant_id = $3` (`Limited`). SQLite binds by
  position, so tenant and limit are exchanged and the scoped query finds nothing or
  fails, although the wrapper's comment says that existing code works unchanged;
* on a table that kept `UNIQUE(strategy_name)` the fallback of `upsert` matches no
  row of a second tenant;
* a database older than version 5 cannot be opened: the indexes on `tenant_id` are
  created before the migration that adds the column;
* two processes that both read an old version both run the backfill of version 8
  (`dAlone`).

Risk:

* the state file of the breakers is rewritten in place: a write cut short loses
  a thrown kill switch at the next start (`KillSwitchHolds` excludes it by
  `lostSave`);
* the first check of a new day clears the daily-loss breaker without looking at
  today's loss; the next one does (`DailyLossBlocks`);
* `_save_state` omits the spike counts and the near-liquidation set, so a restart
  starts both over;
* the monitored context holds account, positions and orders only, and `get_status`
  always answers a drawdown of 0, so the drawdown, cascade, funding and volatility
  breakers never see their inputs;
* the loss streak compares two readings of the daily PnL across midnight, so the
  reset after a profitable day counts as a loss;
* the sizer rounds to hundredths and makes 0 of a close of 0.004; its caps compare
  dollars with contracts when no price is known; the daily-loss and liquidation
  gates refuse exits too, and breakers refuse closes.

Trading, judge and records:

* two positions are reachable in `TradingCycle` when `clean` is FALSE: after an
  unconfirmed entry the rotation goes on to the next pair and may enter it before
  the first order fills; with serial trading off a failed query passes for a flat
  account (`_positions_mixin.py` 496); `/execute` takes no lock and looks at no
  position (`orchestrator.py` 573, against the comment at 173); an EXIT is not
  reduce-only and takes its side from the positions of the cycle start, so after a
  bracket fired it opens the reverse position;
* the webhook acts with a context without an account: the portfolio gate refuses
  its entries and its exits are sized to zero (`Funded`), yet it answers ok;
* an alert is registered before it is acted on, so one that was refused or failed
  cannot be repeated within the window;
* two overlapping calls that are refused on one key rotate twice, and the second
  drops a key that nobody used;
* an escalation may exceed the daily budget by one call; one that fails, or that
  ends after midnight, is charged to no one or to the wrong day (`unbilled`).
  Budgets and candle marks are in memory and restart with the worker;
* a decision is journaled before its contract is pinned to the pair that was
  asked about, so a made-up contract leaves a row under another symbol;
* minimum confidence and the plausibility veto also block exits; a NaN confidence
  is clamped to 1.0; scalp decisions are not journaled;
* a row of `execute()` and one of the loop describe the same fill (order id 0
  against a digest); the close that flattens a symbol is ingested only when the
  symbol has a position again; partial fills break the pairing of entries and closes; a
  failed lookup inserts again;
* in TWAP, an urgent order or a failed final slice leaves the position without
  brackets, and a timeout leaves through `execute_twap`, which has no caller.

Market data and the worker:

* the pong clock is never advanced, so the heartbeat gives up a healthy connection
  and the feed ends after `ws_max_reconnects`; a silent connection is not noticed
  sooner;
* unsubscribing one of two subscriptions that share a topic silences the other;
  unsubscribes that wait in the queue survive a reconnect, and subscribes are sent
  before them;
* candle topics come back as channel `candle`, not `candle1m`, so candle handlers
  never fire (`NobodyMissed`);
* a book delta replaces the cached book, a ticker delta without a mark price
  caches 0;
* `stop()` after the feed gave up leaves the HTTP session open;
* a bot whose polling never started is not stopped, since `stop()` awaits the
  updater first; events logged after the sink's `stop()` stay queued.

## 5. Proofs

Every theorem holds for all values of the constants that satisfy the named
assumptions of their modules: limits and bounds are naturals (positive where the
code divides by or loops up to them), the sequences and records have the shapes
the code gives them, placeholders such as `Nobody` are no real value. TLC evaluates
these assumptions in the runs.

| proof module | about | theorems for properties of the runs |
|---|---|---|
| `ExchangeProofs` | `OrderGateway`, `ExecutionEngine`, `WebSocketManager`, `MarketCaches` and `MCExchange` | `BooksInOrder`, `AnswersAreTrue`, `Idempotent`, `Refinement`; `NoPhantoms`, `KillStopsTheRest`, `KillAccounted`; `FeedHolds`, `CachesHold`, `ExchangeFeedHolds`, `ExchangeCachesHold` |
| `TradingCycleProofs` | `TradingCycle` | `OneTradeHolds`, `AlertsOnce` |
| `ControlPlaneProofs` | `Supervisor`, `TenantAccess`, `RateLimiter`, `Flatten`, `ChatLinking`, `BotCommands` and `MCSupervisor` | `KeysAccounted`, `WorkersHold`; `RequestsHold`, `ChatsHold`, `KillHolds`, `KillRouteHolds`, `KeysHold`, `WorkersHoldThere` |
| `RiskProofs` | `CircuitBreakers`, `RiskEvaluation` and `MCCircuitBreakers` | `KillSwitchStands`, `DailyLossStands`, `FundingEarned`; `RiskHolds`, `EvaluationHolds` |
| `JudgeProofs` | `GroqClient`, `DecisionValidator`, `Judge` and `MCJudge` | `ClientHolds`, `JudgeHolds`, `BothHold` |
| `RecordsProofs` | `TradeJournal`, `TwapSlicer`, `TenantStore`, `Schema` and `MCRecords` | `JournalHolds`, `TwapHolds`, `StoreHolds`, `SchemaHolds`; `RecordsHold`, `IsolationHolds`, `StartsHold` |
| `WorkerProofs` | `ErrorSink`, `Lifecycle` and `MCWorker` | `SinkHolds`, `LifecycleHolds`, `WorkerSinkHolds`, `WorkerLifeHolds` |
| `SumsProofs` | `Sums` | lemmas only |

Every safety invariant and every action property that a passing run checks is
the statement of one of these theorems, and so is the refinement `AtMostOnce`.

Where several components share a run, their properties are also proved of the
run's specification, from the components' lemmas: a step of one leaves the others'
variables alone, and every inductive invariant survives a stutter.

### The arguments

**Gateway.** `IInv` adds to the checked properties what their induction needs: a
call that waits, or that timed out, has its order on the exchange
(`WaitingHasLanded`, `TimeoutHasLanded`); an outcome exists exactly when the call
is done (`OutcomeWhenDone`); and the exchange has seen, or may still see, no link
id of a call but its own (`OwnLinkOnly`). The last is why a delayed POST cannot
create a second order, and why a terminal answer stays true: the one order it
speaks of has left the live statuses, which the exchange never leaves backwards.
`Refinement` maps each call to the status of its one order and shows that every
step is a step or a stutter of `AtMostOnceOrder`.

**Engine.** Every step of the engine is a gateway step, a stutter of the gateway
or a cancellation; all three only move statuses forward. `EInv` is `IInv` with the
link between the two levels: before the submission the call is idle in the
gateway (`UnsubmittedIsIdle`), and a call inside the gateway is awaited by its
`execute()` (`InsideIsSubmitted`); what is reported or journaled as filled is the
gateway's answer (`FillsAreAnswers`). After the kill switch was thrown, every call between its
verdict and its result, and every call with an order out, had its verdict before
(`ClearedBeforeKill`): the breaker refuses all others, and a POST that arrives late
was sent by one of them. The kill switch lists only orders that are there
(`ListedHaveLanded`), and a listed order never becomes live again, so
`KillAccounting` is inductive.

**Cycle.** `LockInOrder` says that no task queues twice for the trade lock and
that whoever is past the first await of its action is the head of the queue.
`CleanIsFlat` carries the flat check over the awaits that follow it: as long as
no order went unseen and nobody traded outside the lock (`clean`), the account is
still flat when the holder submits. `ActedIsKnown`: an alert acted on is in the
registry or stale, hence a repetition finds it or fails the age test.

**Supervisor.** The record remembers every file it wrote (`Tracked`), which gives
`KeysOnDisk` for overlapping requests too. When requests do not overlap,
`SerialOK` says what a suspended task may count on: an `ensure()` under way
finds the worker stopped, and no task stands beyond the halt test while a `/kill`
is in force. Hence one process, none after `/kill`, and a crash-loop verdict that
stands (an action property).

**Control plane.** Registry: rows exist at most once because the table refuses the
second insert, not because of the look-up; while revocations come one by one, the
one in progress has read the version that is still in the row
(`VersionsInOrder`). Limiter: the deque is the log of accepted requests without
some expired ones at its front (`Kept`), the log is ordered in time, and the
request `Limit` places before the newest has expired; the deletion of idle keys
therefore forgets nothing that counts. Kill route: without a warning or a late
trade, markets already passed are flat and the others are as listed or closed by
their brackets (`FlattenInv`); a reduce-only order brings a position closer to zero
and never across. Linking: at most one chat is bound to a tenant at any time; a
code that bound a chat is used or about to be marked, as long as redemptions do
not overlap (`RedeemedInOrder`). `/execute`: each run done, claimed by a tap or
still open to one has been paid for with a cooldown (`BotPaid`).

**Breakers.** A restart reads the file back, so the invariant says that, unless a
write failed, the file holds what memory holds (`DiskCurrent`); that a trip of
today carries today's date, also on disk (`TrippedToday`); and that the spike
counts never exceed the real run of spikes (`CountsAreReal`).

**Risk evaluation.** A verdict that stands is what the gates would say of the same
action and context (`VerdictOK`), because a new context and a switched gate discard
it. `RiskSound` then is a fact about the gates, the sizer and the filters: for
every action they let through, on the grid of hundredths that the sizer rounds to,
the sized quantity passes all nine gates again; a quantity raised to the exchange's
minimum stays within the caps; and the two computations of the exposure are the same
sum.

**Sums.** The sum over a finite set is a fold, and the library's induction
principles for sets cannot be instantiated by the provers. `SumsProofs` replaces
them by a smallest counterexample: the subsets of a finite set are well-founded
under strict inclusion, so a collection of subsets that is not empty has a smallest
member. From this follow what the proofs on token budgets, exposures and slices
cite: a sum over one more element, over the union of disjoint sets, its bounds and
its growth.

**Model client.** Calls are numbered, so no call is recorded twice. What bounds the
overspending is `FlightOK`: the tokens recorded in the window and the estimates of
the requests under way together exceed the budget at most by the largest estimate
for each further caller. A request is let through only while the recorded tokens
leave room for it, an answer turns its estimate into a record of the same size, and
time only removes records. A key is removed only while another is left (`PoolOK`),
and `CallOK` remembers that a quota error is raised on the fallback model.

**Judge.** `SpendOK` counts what is paid against what is charged to the day, step by
step: a second call under way is paid and not yet charged, and it is made only
within the budget. `OnceOK`: a pair judged flat on this candle carries the candle's
mark, hence the gate holds it back. `RowsOK` and `ScanOK` say that the row of the
decision at hand is open until the entry is settled; that an entry reaches execution
with the side its direction implies is a fact about `NormalizeDecision`, proved for
every answer and every confidence, out of range or NaN, as is that the indicators of
the pair do not veto it.

**Journal.** Order ids count up along the executions and the legs of an order are
alike (`OrdersInOrder`); from one order of a pair to the next, entries and closes
alternate (`EntriesAlternate`); whatever is older than a leg still to come is still
to come too, or behind the loop in the same symbol (`PassInOrder`). Hence, when every
order trades at once, the loop's two queues hold what the last leg left open and
nothing else (`QueuesMatch`), a close finds its entry in them, and its row keeps the
PnL (`RowsMatch`). An order is ingested once because the loop looks it up before each
insert, and only a lookup that failed may let a second row through.

**TWAP.** A plan adds up to the parent or to its whole units: the raw slices are
those units, and with a step each but the last is rounded down to it and the last
takes what the others leave of the parent. While the slices go out, what the
reports say is filled and the slices still to come together fit into the parent
(`TwapInv`), and as long as the answers are true the reports are what has traded.

**Records.** Reads and writes stay in their tenant because every query of the
repositories names the tenant among its placeholders and binds it to the caller's
own (`NamesTenant`); the one query that does not is the upsert of the accounts table,
of which the statement on writes says only that the row it writes is the caller's. Schema: the columns of every version up to the recorded one
exist, and of every version up to the one a migrating process has read, also when
another process is migrating at the same time or died in between
(`ColumnsInOrder`).

**Worker.** Sink: batch and queue are rising sequences of event numbers, the batch
older than the queue, and nothing that waits has been inserted (`EventsInOrder`);
so no event is written twice, and one that is neither waiting nor written was
evicted and counted. Life cycle: the parts the trading stack rests on are open
once their step is over (`StartInOrder`); of the parts the unwinding has passed
none is held, and none is open but those whose own stop method raised
(`UnwindInOrder`).

**Market data.** Feed: while the snapshot is being sent, every active topic is in
it or queued; afterwards it is served, queued or was dropped by an unsubscribe
(`TopicsInOrder`); and once stopped, or having given up, no task connects or reads
(`TaskInOrder`). Caches: the book that is held is a message that was on the wire,
with the receive time the cache remembers, and the buffer is the end of what was
received, of the smaller of both lengths (`TicksInOrder`).

### Only model-checked

* Liveness (`SubmitReturns`, `SubscriptionServed`, `EngineAnswers`,
  `CrashedWorkerHandled`, `DailyLossBlocks`, `CycleComesRound`, `AlertsAnswered`,
  `ChatEnds`, `RowsResolved`, `OrderIsJournaled`, `SignalEndsTheProcess`,
  `SinkDrains`): fairness and ENABLED are beyond the prover.
* The four runs that expect a violation.

## 6. Not modelled

* Prompt text, indicators over floating-point series, statistics, strategies'
  signals, backtesting: numeric functions without state. Their results are
  nondeterministic inputs of the judge and of the cycle.
* Read-only bot commands, notifications, audit rows, health and metric views: text.
* Configuration parsing and validation, the CLI, historical downloads, backups.
* `execution/reconciler.py`: it acts on `_active_orders`, which is proved empty.
* Signatures, token lifetimes, encryption: libraries.
* The position-mode request at start: a conflict is logged and nothing else.

## 7. Plan

What was planned is done: every component of the inventory that has state of its
own is modelled or listed in section 6, and every safety property of the passing
runs is a theorem. Worth doing next, as the code changes:

1. A composition of `ExecutionEngine` and `TradingCycle` on one account, for the
   hazards of `PROJECT.json` that no property covers: the second entry after an
   unconfirmed one, and the manual trade beside the trade lock.
2. `Judge` over `GroqClient`: a judge that fails for the reasons for which the client
   raises, instead of at any time.
3. When `_active_orders` is filled before the answer of a submission, the order
   reconciler becomes reachable and needs a module; `NeverTracked` fails then, which
   is the sign to write it.
