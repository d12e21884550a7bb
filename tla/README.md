# Quantara trading backend: TLA+ models, checks and proofs

Quantara is a Node.js service that runs trading bots on futures exchanges for many
users. A user owns one account and one bot per coin; a bot runs a group of engines, one
per strategy, each with its own timer. All of it lives in one process, so nothing runs in
parallel, but every `await` lets other handlers run. Its hard questions are about that:
what may happen between a check and its use, between an order and its row in the
database, between a stop and the tick it did not wait for. Around the trading stand
services with questions of the same kind: payments whose notifications come twice, a
queue of backtest jobs over worker processes, a table of candles that everybody shares.

The modules here model those parts of the code. A step of a model is the code between two
`await`s. Line numbers refer to the files under `src/`; the trading code is under
`src/src/modules/trading/`.

- [Components](#components) – what the system consists of, modelled or not
- [Modules](#modules) – which module models which code, and how
- [Runs](#runs) – what TLC checks, with the bounds and why they are enough
- [Fairness](#fairness)
- [What the code gets wrong](#what-the-code-gets-wrong) – findings and further counterexamples
- [Proofs](#proofs)
- [Not modelled](#not-modelled) and [Plan](#plan)

To check a run: `tlc -config Group.cfg MCGroup`, or `tlc -config LiveChurn.cfg MCChurn`; a
proof: `tlapm TradingGroup_proofs.tla`.

## Components

### The core

| part (file) | state | operations | hard behaviour | correct when |
| --- | --- | --- | --- | --- |
| **AccountCoordinator** (`domain/AccountCoordinator.js`), one per user | map bot key → {margin, direction}; last reported equity; reports of daily loss | `canOpen`, `canStartBot`, `reserve`, `release`, `reserveGroup`, `releaseGroup`, `setAccountEquity`, `reportRisk`, `canTradeAccount` | synchronous itself, but called by many engines in any order; armed slots without a side share the map with positions | one reservation with a side per coin; positions of the account bounded; committed margin within the budget when a gate lets something through |
| **BotEngine** (`application/BotEngine.js`) | running, stop request, session, open positions, risk counters of the day | start (adopt rows), stop (final pass), monitor (reconcile, sync with the exchange, close, SL+ milestones), entry (cap, balance, gate, order, stop loss, row) | tick, `stop()` and a later generation interleave; each of order, stop loss, partial close and row may fail alone | positions on the exchange are tracked, stored, protected and reserved; results booked once and in full; no entry after a stop |
| **AdaptiveStrategyEngine** (`application/AdaptiveStrategyEngine.js`) | extends BotEngine, last prices, cooldowns | `_tick`: guard, candles, monitor, signal, filters, `canEnter`, entry | looks at the stop request only when the tick begins; shares the memory of signals and the strategy object with every other engine | as BotEngine; a signal enters once |
| **MultiStrategyCoordinator** (`application/MultiStrategyCoordinator.js`), one per live bot | engines, running, starting, stop requested | `start` (arm the group, start engines in turn), `stop`, `canEnter`, `reconcileStrategies` | a stop in the warm-up; an engine whose start throws | a stopped bot is silent; a failed start leaves nothing behind |
| **Bot routes** (`routes/bots-afs.js`) | row of the bot (`running`) | start, stop, config, strategies, delete | answer 202 and go on in the background; roll the row back when that fails | row and engines agree once all is answered |
| **Registry, resume, watchdog** (`src/src/server/app.js`) | `botsMap`, start locks, resumes in flight | `acquireStartLock`, `createMultiStrategyInstance`, `removeBotInstance`, `stopAllBotsInMemory`, `resumeRunningBots`, `runBotWatchdog` | check, await, register; callers without lock | one instance per coin; a row that runs is served |
| **botOpLock** (`src/src/shared/middleware/botOpLock.js`) | set of bots with a start or stop in flight | reject a second one with 409 | released on `finish` and on `close` | every operation frees it |
| **Exchange clients** (`infrastructure/exchange`) | chain of calls, candle table | maker and taker orders, plan orders, candles | a quote filled between poll, cancel and count; late writes; calls that fail or are refused | an entry holds what was ordered; a decision is made on a bar that ended; one failing call does not break the chain |
| **Exchange services** (`services/exchangeSwitch.js`, `ExchangeService.js`, `userExchange.js`, `routes/account.js`) | rows of keys, their copy in User, audit log | switch, save and delete keys, read keys | separate writes; a refusal or a conflict half way; requests that overlap | one exchange active; positions and engines on it |
| **Payment** (`modules/payment`) | payments, vouchers and usages, subscriptions | checkout, notification, subscribe and unsubscribe, deactivation | notifications twice, late, out of order, two at a time; a throw between two writes | granted once, slots counted, access ends |
| **Backtest** (`modules/backtest`) | job objects, wait queue, worker processes, result files, streams; the replay's position and counters | create, cancel, fetch, stream, purge; the loop over bars | message, exit, cancel and timeout settle one job in any order | each slot given back once; a result is not lost; a replay keeps the limits it replays |

How they interact: a route takes botOpLock, reads the balance under the user's start lock,
asks `canStartBot`, arms the group with `reserveGroup`, writes the row, and makes and
starts an instance. The instance starts engines; an engine ticks, asks its coordinator
(`canEnter`, over the trades table) and the AccountCoordinator (`canOpen`, over the map),
sends the order, stores the row, and later finds the position gone and closes the row.
Routes, resume, watchdog and the admin's stop-all all work on `botsMap` and on the row.
Engines of all users take their candles from one table and one chain of calls, which
backtests use too; the switch of the exchange changes what the next start or resume
trades on; a subscription decides which strategies a start may run.

### The rest

| part | state | what makes it correct | status |
| --- | --- | --- | --- |
| Admin routes | none of its own | stop-all really stops | stop-all inside `BotLifecycle`; not otherwise |
| Database (`infrastructure/db`) | trades, sessions, bots | `closeTrade` applies once; row queries | modelled where used |
| Position and execution engines (`core/position-engine`, `core/execution-engine`) | index of positions | SL/TP hits, adoption of rows | modelled where used |
| Risk engine (`core/risk-engine`) | none (counters are BotEngine's) | limits of the day hold and are reset | `RiskDay` |
| Signal engine (`core/signal-engine`) | map of remembered signals | a signal enters once in its window | `SignalDesk` |
| Entitlement (`modules/users`) | tier, subscription | access ends with the period | inside `Payments` |
| Balance cache and purge of keys | cached balances, backoff | a stale balance is one of the free equities of `StartGate` | not modelled |
| Strategy engine, analytics, research (`core/…`) | none that interleaves | numeric | not modelled |
| Auth (`modules/auth`) | sessions and tokens, one statement each | – | not modelled |
| ML, research, analytics modules | reports, suggestions | advisory | not modelled |
| Jobs, monitoring, notifications, market data, settings | flags, caches | one run at a time | not modelled |

`PROJECT.json` lists every component with its files and every hazard at its line.

## Modules

| module | models | composes |
| --- | --- | --- |
| `PositionSlot` | the abstract promise: a coin has one slot, held by at most one owner | – |
| `AccountCoordinator` | the map of reservations and the equity, under every order of calls | implements `PositionSlot` |
| `TradingGroup` | engines, exchange positions and trades table of the coins of an account | instantiates `AccountCoordinator` (its operators are the engines' calls); implements `PositionSlot` |
| `OrderEntry` | the orders of one live entry: quotes, market, stop loss and target, emergency close | – |
| `PositionLadder` | one live position: SL+ milestones, partial closes, software monitor, crash and adoption | – |
| `RiskDay` | counters and limits of a day, reports to the account, restarts | – |
| `SignalDesk` | what outlives a tick between signal and order | – |
| `SingleEngine` | the tick of an engine by itself, from closed candle to order | – |
| `CandleCache` | candles from the table, the exchange or a backtest; the chain of calls | – |
| `StartGate` | live starts of one user: lock, balance, gate, arming, and what becomes of the armed slots | instantiates `AccountCoordinator` |
| `BotLifecycle` | one bot: row, `botsMap`, instances, and every caller that starts or stops them | – |
| `ExchangeSwitch` | switch, keys, and what a bot reads of them | – |
| `Payments` | checkouts, notifications, grants | – |
| `BacktestJobs` | queue, workers, result files, streams | – |
| `Replay` | the loop of one strategy over stored candles | – |
| `LegReplay` | the loop of a strategy with several positions, one per leg | – |
| `SumTheorems` | theorems about the sum of a function over a finite set, for the folds of the models | – |
| `AccountCoordinator_proofs`, `Account_proofs`, `Services_proofs` | theorems about the modules of the run of that name, and about the run's own specification | extend `MCAccountCoordinator`, `MCAccount`, `MCServices` |
| `TradingGroup_proofs`, `BotLifecycle_proofs` | theorems | extend the module they are about |
| `Group_proofs` | theorems about ladder, orders and candles, and about the specification of the run `group` | extends `MCGroup`, `TradingGroup_proofs` |
| `Churn_proofs` | theorems about the single engine and the desk, and about the specification of the run `live_churn` | extends `MCChurn`, `TradingGroup_proofs` |
| `MC…` | constants for TLC, and the modules one run checks | see below |

Definitions named as mutants (a comment above each says so) are wrong on purpose: each
replaces one definition and makes one property fail, which shows that the property
depends on that code. Nothing else refers to them.

A run may check several modules. Its MC module then has a variable `unit` that says which
one moves, chosen once; the others keep their initial state.
These are separate state spaces side by side, never an interleaving: `Alone(u, step)`
takes a step of one unit, and the fairness of each module is restated for its unit.
Constants that two units both have get a name for each (`LossLimit` and `LegLossLimit`), and
an assumption of the MC module (`GroupAssumption`, `ChurnAssumption`, …) says of the values in
the `.cfg` what the theorems need.
`world` in several modules is chosen once as well: the set of things that may go wrong in
that behaviour, one of `Worlds`. It keeps the causes apart, so that a property can be stated for
exactly the failures it survives. `dryRun` of `TradingGroup`, one of `DryRuns`, is such a
choice too.

| MC module | units |
| --- | --- |
| `MCAccountCoordinator` | `AccountCoordinator`; `RiskDay` with engines on two coins, or of one group |
| `MCGroup` | `TradingGroup`, live or in dry-run; `PositionLadder`; `OrderEntry`; `CandleCache` |
| `MCChurn` | `TradingGroup` over two generations; `SignalDesk` with two users; `SingleEngine` |
| `MCAccount` | `StartGate`; `ExchangeSwitch`; `Replay`; `LegReplay` |
| `MCServices` | `Payments`; `BacktestJobs` |
| `MCBotLifecycle` | `BotLifecycle`, in three worlds: start and stop; with edits, stop-all, failures and a resume; with failures, a crash and resumes |
| `MCTradingGroup`, `MCStartGate`, `MCExchangeSwitch`, `MCRiskDay`, `MCSingleEngine` | one module, for the violation runs |

### AccountCoordinator

`reservations` is the Map, total over the bot keys with `NoReservation` for an absent key;
a key is ⟨coin, slot⟩ where the slot is a strategy of the group or `Legacy`, the
single-engine bot. `accountEquity` is the last report, 0 until the first. Queries
(`CommittedMargin`, `OpenCount`, `HasSymbol`, `HasGroupOpenPosition`, `HasGroupDirection`)
and gates (`CanOpen`, `CanStartBot`) are the methods of those names, updates (`Reserved`,
`Released`, `GroupReserved`, `GroupReleased`) what the methods leave in the Map. The
actions are the protocol callers follow: `CanOpen` and `Reserved` in one turn (`Open`),
`CanStartBot` and `GroupReserved` in one turn (`ArmGroup`), the arming without a gate
that `MultiStrategyCoordinator.start` does (`RearmGroup`), the second `reserve` of an entry
after its fill, which in dry-run has the margin of the simulation (`Settle`), and a side
reserved without asking (`Restore`): of a position `BotEngine.start` finds, or of an order
filled after a stop dropped its reservation. `origin` is history and says of each side whether
`canOpen` let it through (`asked`, `settled`) or not (`restored`). `Restore` finds no other side
on its coin; that the engines keep to this is `SinglePosition` of `TradingGroup`, and where a
stop breaks it the table of counterexamples has it. Amounts are natural numbers
and the utilization a fraction; the code's floating-point sums are not modelled. The share
of a strategy is `capital \div n`; the capitals of the runs divide evenly, as in the code.

### TradingGroup

An engine is ⟨coin, strategy, generation⟩: every start makes new engine objects, and a
tick of an old one may still be on its way. Each engine has two threads, `Tick(e)` and
`Stop(e)`; `pc` says at which await a thread stands, and what it read there and uses
afterwards is carried in `signal` (the side), `gone` (the sides missing from the exchange,
or the dry-run trades whose SL or TP was hit) and `todo` (positions still to be booked).

| action | code |
| --- | --- |
| `TickBegin` | the guard of `AdaptiveStrategyEngine._tick` |
| `Reconcile`, `Sync`, `SyncFails`, `Book`, `PassEnd` | `_monitorOpenPositions`: `_reconcileOpenPositionsFromDb`, then `_checkOpenPositions`; run by the tick and by the final pass of `stop()` |
| `Decide`, `Gate`, `Cap`, `Reserve`, `BalanceFails` | signal, `canEnter`, `_checkAccountOpenCap`, balance, `canOpen` + `reserve` |
| `OrderFilled`, `OrderRejected`, `Protect`, `EmergencyClose`, `Insert`, `InsertFails` | the order, its second `reserve`, SL/TP, `insertTrade`, and the catch around them |
| `StopBegin`, `StopFinish`, `CloseSession` | `BotEngine.stop` |
| `GroupStart`, `EngineStart`, `GroupStop`, `GroupStopped`, `Repost` | `MultiStrategyCoordinator.start/stop`, `BotEngine.start` with the rows it adopts, and `POST /start` of a bot that runs |
| `MarketCloses` | the exchange executes SL or TP; in dry-run, the price gets there (external) |

A trade records whether the market still holds it, its row, and how often its result was
booked. `Decide` chooses any side or none, which covers signals, regime filters and
validation. What may go wrong is chosen by the constant `Events`. `EngineStart` has both
catches of `BotEngine.start`: without an answer of the exchange all rows are taken over,
without one of the table none, and the engine runs on; `unseen` (history) are the rows that
were then open, until a pass has read them. A row closed while the process was away may fail
to be closed in the table (`ClosedOffline`), which is swallowed and left to the next pass. The other modules about
the engine look inside what is one step here: the orders of an entry (`OrderEntry`), the
life of the position after it (`PositionLadder`), the counters (`RiskDay`) and the way
from candle to signal (`SignalDesk`). Left out: the time stop.

### OrderEntry

One entry after `canOpen` said yes: `openPositionMaker` quotes, polls until a deadline,
cancels, fetches the order once more and counts what was filled; nothing filled means
another quote or the market, a part means a market order for the rest. `Protect` is one
attempt at stop loss and target, with each of the ways the client has to place them;
after the last attempt a position without a stop loss is closed (`Emergency`). On Bitget
a market order carries both (`embeds`). `book` keeps every quote, because one that was
not cancelled can still be filled during the next entry; `Fill` is the exchange, between
any two calls.

### PositionLadder

Prices are gains in tenths of R, so long and short look alike; `Part(p, k)` rounds as the
code does. `pass` is one run of `_checkOpenPositions` over the positions held, `op` the
await a milestone is at: close a part, cancel all plan orders, place them anew, store the
part as a row of its own. `exch` has the size of the position and of its two plan orders;
the exchange may execute either between any two awaits, and fills what is there. `Crash`
loses the memory, `Restart` adopts the open rows, whole and with the stop loss of the
entry. `manual` positions, without a confirmed stop loss or target, are watched by the
software monitor. Left out: the third milestone, which only logs.

### RiskDay

Each engine has counters (trades, loss, streak), a flag whether they are of another day,
and its last report to the AccountCoordinator. Its tick is cut where it awaits, and
`NewDay` may come in between. `done` is history: what the engine really did today. An
engine in `adaptive` has the tick of AdaptiveStrategyEngine and shares its coin, so
`getTodayRiskStats` gives it the rows of its mates after a `Restart`. That call may fail: then
the engine (one of `unread`) goes on with counters of 0 and no day. So may the write of a row
the monitor closes: a dry run counts that close all the same (its engine is in `missed` until the next
restart), live it counts nowhere. `done` starts over at a restart that did not find all of it.
A loss counts 1 and counters stop at their limit, the only thing the gates ask about.

### SignalDesk

The way from candle to order in the engines of one strategy. `signals` is the map of
`signalIdempotency`, one for the process; `meta` the last detection of the strategy
object, which `StrategyRegistry` hands to every engine; `lastPrice` the engine's, `live`
in the tick that read it and `old` afterwards. A candle is a number, a signal is
⟨coin, candle, side⟩, as in the code's key, which has no user in it.

### SingleEngine

The engine that `createBotInstance` builds when a strategy is chosen or groups are
switched off, live. `candle` is the last closed candle with its close and the signal
`detectSignal` gives on it; the tick reads it into `read` and carries `signal`
(`filteredSignal`) from `at` to `at`. The trend of the higher timeframe is chosen in
`Detect`, `UNKNOWN` if it could not be read. `lastSignal`, `lastLossSetup` and `cooldown`
are the fields of `state`, lost in a `Restart`; `seen` is the map of `signalIdempotency`,
which survives it. `exchange` holds what was opened and is still open, with the signal it
was opened for, and `position` the one of them the engine knows. `Confirm` is
`_applyGrokConfirmGate`. An engine of a group never calls it, so the setting
`grokConfirmEnabled` of a bot has no effect in a group.

### CandleCache

A candle is represented by the moment the exchange was asked: a bar asked for before its
end was still forming. `table` is `candle_cache`, `writes` the `cacheCandles` that nobody
waits for, `gate` the chain of promises of the rate gate, whose head is the call that is
out. `Answered`, `Limited`, `FallsBack` and `Fails` are the outcomes of a call, with the
retries of the clients and the fallback to CCXT. A backtest reads pool, table and exchange
(`History…`) and writes both. One timeframe; a call comes with one of `Ttls`, the times to live
of the two caches in half bars. The code passes the same 900 s for its own timeframe whatever
that is, so the row that answers may be a third of a bar old or three bars; `age` of an
answer is the time to live it was read with. Left out: the spacing of calls.

### StartGate

`pc[s]` follows the request of coin `s` from the lock over the balance read to the armed,
persisted and warmed-up bot. `queue` is the order in which requests await the promise of
the lock: the reactions of a promise run in the order they were added, so each release
lets the first through and the others queue again in the same order. The engines of a
running bot replace an armed slot by a real margin and release it (`EngineOpens`,
`EngineCloses`). `PersistFails` is a throw between the arming and the warm-up: the row may be
written, the request ends, and nothing gives the reservation back. `Crash` empties the map and
`Resume` arms again without lock or gate, after a crash or, by the watchdog, for a row that runs
without an instance.

### BotLifecycle

`inst` are the instances ever made and still of interest; `boot` counts how far `start()`
is: 0 not running, 1 in its pre-flight, k + 1 awaiting engine k. `Booted` is what an
answered await leaves: the abort when a stop was asked for, the next engine, or the end.
`op` is the one request that holds botOpLock, `resume` the resume in flight, `edit` a
DELETE, a PATCH or the admin's stop-all, `rollback` the row update a failed background
start still has to do. `Collect` forgets an instance nothing refers to. With `resume` in the
`world` the process may boot with a row that says running; `Fewer` are the instances where edits
make more of them. With `rows` calls of the database may fail: `Update` is an update whose
failure is swallowed (the rollback of a start, the end of the retries), `OperationThrows`,
`EditThrows` and `ResumeThrows` are the others, which end the request or the attempt.

Left out: a second request after the client closed the connection of the first (botOpLock
then frees the lock early), a second resume of the same bot, edits of strategies or
interval that keep the instance.

### ExchangeSwitch

`row` are the rows of UserExchange (active, soft-deleted or none), `legacy` the copy in
the columns of User. A request is at one of its awaits: a switch counts the switches of
the last day, asks for open trades and running bots, validates the new keys, stops rows,
revokes, saves, drops the others, copies, clears, enforces and writes the audit log. The
bot is reduced to what it reads: keys when it starts or is resumed, and where a position
is open (`held`) or known (`tracked`).

### Payments

`checkout` is `initiatePayment` of each order: reserve a slot of the voucher, store the
payment, open it at the provider, or give everything back. With `catch_fails` what it gives back
fails too and is swallowed (`UnreserveFails`, `ReleaseFails`, and `SnapFails` without its write):
the slot stays taken. `gateway` is what the provider
last decided and `announced` all it said; `due` what was not acknowledged, which it
repeats. A `hook` carries the status it loaded (`seen`) past its later awaits, and in a
grant the subscriptions its transaction saw (`replaces`). `UserTier` is the entitlement.

### BacktestJobs

A job is created, waits in `waitQueue` or takes a slot, and its worker fetches, computes,
writes a file and sends a message. `mail` holds what the parent has not served: the
message and the exit of the worker are separate. `Settled` is `settleOnce` with `release`:
the first way to end frees the slot for the first in the queue that still waits. The file
is read in a turn of its own, by the parent or by a client that asks for the result
(`reader`); `Purge` is the timer that ends silent jobs.

### Replay

The phases of the loop over bars: milestones of the open position, its exit, the order
waiting for a retest, the signal and its gates. A bar is what it means to what is open: a
low, a high and a close among six gains, or whether it touches the waiting limit and runs
on to the stop. `booked` adds the trades of a position up.

### LegReplay

A strategy with several legs (Scalping, Intraday, Swing) holds a position of each. `Bar`
is the first half of the loop: the new day, the milestones and exits of all legs; then
`turn` asks the legs for an entry, in order. `Book(l)` is the replay whose counters leg
`l` shares: one for all on one set of candles, its own in a triple-timeframe run. Prices
are gains relative to the last close. `HeldLegs` are the legs whose type has a time stop.
Left out: fees, slippage, the growth of the capital, and the language model asked about
trades afterwards.

## Runs

Passing runs:

| run | unit and constants | shows |
| --- | --- | --- |
| `coordinator` (1,049,433 states) | map: 3 coins, group of 2 and a legacy slot each, margins 2 and 4, equity 0 or 10 at 80 %, at most 2 positions let through, 1 side at a time that is restored or settled with another margin (`MaxUnasked`); symmetric | one open side per coin (`OneOpenPerSymbol`), positions the gate let through bounded (`OpenPositionsBounded`), what it lets through fits the budget of the whole account (`OpenFitsBudget`), implements the slot (`SlotSpec`) |
| | day: 2 engines, on two coins or one group, every limit 2, 1 restart | no engine opens past what it booked as lost today, whatever midnight and restart come between, as long as its rows could be written and read; without a restart past no limit of its day (`LimitsHold`) |
| `group` (279,413) | group: 1 coin, 2 strategies, 3 trades, live or in dry-run; live, orders are rejected and stop losses fail | one position (`SinglePosition`); tracked, stored and reserved (`Accounted`), and live no reservation with a side left behind (`NoGhostLive`); the engines implement the slot (`SlotSpec`); every close reaches the table (`ClosesAreBooked`) |
| | ladder: positions of 40 and of 12 lots, least part 5, 6 rows, 1 crash | parts and rest are booked for exactly the order (`BookedAsOrdered`), a position has a stop loss or a monitor (`Protected`) that only moves up (`StopTightens`), closes are booked (`ClosesAreBooked`) |
| | orders: size 2, 2 requotes, 3 attempts at the stop loss, 2 entries | what is tracked is what was bought (`TrackedIsWhole`), protected once the entry is over (`Protected`), and the entry ends (`CallsEnd`) |
| | candles: 2 engines, 3 bars per answer, times to live of one bar and of three, 4 ticks of half a bar, 1 backtest | what an engine is given is as current as the time to live says, without a gap, and it decides on a bar that had ended (`ServedIsCurrent`); every fetch ends (`CallsEnd`) |
| `live_churn` (3,502,697) | churn: 1 coin, 1 strategy, 2 generations, 2 trades; stops, restarts, repeated starts, every failure | results booked once (`BookedOnce`); open rows are held by the engine that runs, but for those it could not read yet (`RowsTracked`) |
| | desk: 2 users, 1 coin, time to live 1, bar 2, time 2 | a signal enters once in its window (in `NotRepeated`) |
| | single: trend and retest, with and without confirmation, 2 candles, 2 closes, 2 entries; every event | a setup that lost is not entered again on its candle (in `NotRepeated`) |
| `account` (212,393) | start: 3 coins of capital 4, equity 5 or 10 at 80 %: one or two fit; trades, stops, failed writes and warm-ups, crashes | mutual exclusion (`LockExclusive`), a start fits the budget it read (`GateKeepsBudget`), none waits forever (`StartsAreServed`) |
| | switch: 2 exchanges, 2 requests, 1 switch a day; one of four worlds | one exchange active, the copy in User the same, keys left after a refusal (`Consistent`); bots that run are served again (`StartsAreServed`) |
| | replay: with and without partial close and retest; 3 trades, 2 losses, 4 hourly bars a day | limits of the day hold when a waiting order is filled (`FillWithinLimits`); the trades of a position add up (in `TypesOK`) |
| | legs: 2 legs, with partial closes and a time stop for both, or each by itself; 3 trades, 2 losses, loss limit 300, 3 bars a day | what a day has lost and what is at stake stay within the limit and one full loss of each leg (in `FillWithinLimits`) |
| `life` (338,074) | routes: 2 engines, 3 instances; starts and stops, failing writes of the row | a stopped row is silent, every group that ticks is reachable (`RoutesQuiet`) |
| | edited: 2 instances (`Fewer`); edits, stop-all, a resume, failures of engines and of the table too | in every world a stop takes hold (`StopTakesHold`); it settles, and operations are answered (`StopsAndAnswers`) |
| | resumed: 3 instances, 1 try, 1 crash; starts, failures, resumes | a row that can be written never says running forever without an engine (`ResumedIsServed`) |
| `services` (187,230) | payments: 2 orders, a voucher of one slot, 2 notifications at a time, each announced twice, 1 fault; one of eight worlds | no slot lost but to a call that throws, none used twice (`SlotsCounted`), granted once (`GrantedOnce`), a payment is granted (`PaidIsGrantedUnlessFailing`) |
| | backtest: 2 jobs for 1 slot; one of five worlds | slots are given back once and move up (`SlotsMove`), jobs, workers and streams end and results are kept (`JobsEnd`) |

Violation runs, one property each: `dry_double_book`, `rejected_entry`,
`start_during_resume`, `partial_start`, `stranded`, `day_releases`; they are the findings
below.

Why the bounds are enough.

- *Coins and strategies.* Three coins are the least at which the limit of two positions
  bites before the rule of one per coin, and at which a budget for two refuses the third.
  Two strategies are the least that race for a coin; each gate compares the caller with
  one other, so races are pairwise.
- *Trades and generations.* Three trades let a coin be opened, closed and opened again by
  both engines; two let an old and a new generation each have one.
- *Instances.* One registered, one held by a resume, one dropped. Two engines in a warm-up
  give a stop before, between and after them.
- *Orders.* Size 2 is the least that can be filled in part; two requotes reach the market
  after more than one quote; a second entry meets the quote the first one left.
- *Ladder.* 40 lots have two milestones that close a part, 12 lots a part below the least
  lot. Six rows are more than a position has.
- *Candles.* A bar lasts two ticks, so a row can be asked for before and after its end. Times to
  live of 2 and of 6 ticks are those of a bar as long as `LTF_CACHE_TTL` and of one a third of
  it. The clock starts at 6, when as many bars have begun as an answer has, and stops at 10: a row
  is written, expires for the shorter one and is asked for again, and is served by the longer one
  up to two bars later. That the longer one and the backtest's pool expire as well takes a clock
  up to 12; `CandleCache` by itself, with the constants of its unit and `MaxTime = 12`, keeps
  `ServedIsCurrent` (242,726 states). The theorem has no such bound.
- *Day.* Limits of 2 let an engine be below, at and past each; one restart comes between
  any two steps.
- *Replay.* Four bars a day with a life of two bars for orders and positions let both span
  midnight. `LossLimit` 700 is one full loss of 500, or a half and a full one; a leg's 300 is
  less than its full loss of 400, so one trade of a leg passes it while the other is open.
- *Payments, jobs, switch.* Two orders and two jobs for one slot give one that has it and
  one that waits; each notification is repeated once; one fault hits every write in some
  behaviour. A second switch a day is refused by the code, so one is enough.

`NextTrade \in TradeIds`, `MaxGenerations`, `Room`, `MaxCrashes`, `MaxRestarts`,
`MaxRows`, `MaxEntries`, `MaxTime`, `MaxRequests`, `MaxAnnounced` and `MaxFaults` are
the bounds in guards. Reaching one is the end of a behaviour, and a service whose jobs or
orders are done rests: so the runs turn deadlock checking off, except
`start_during_resume`, `partial_start` and `coordinator`, where something can always
move.

In the group of `group` no `stop` occurs and no read fails: with a stop,
`SinglePosition` and `Accounted` do not hold (below), and if reads fail forever nothing
settles. `live_churn` has all the events and checks what survives them. In the same way
the worlds of a unit leave out what refutes a property; the table below says which.

## Fairness

Node runs every handler it has started to its end: promises settle (clients have
timeouts) and timers fire. So each step of a thread, a request, a warm-up, a stop or a
rollback is weakly fair. A running engine re-arms its timer after each tick, so ticks and
the passes in them are fair (`Ticks`, `Scanning`), the watchdog and the purge are
intervals, a process that went down is started again, and a call to an exchange is
answered or runs into its timeout (`Replies`, `AsksAgain`, `HistoryAnswered`). The replay
is one loop.

Strong fairness is used twice. The provider repeats a PAID notification until one is
acknowledged (`Redeliver`), though handlers of others are busy in between. The watchdog of
`ExchangeSwitch` gets its turn between requests, which keep it away only while they are
under way.

Nothing is assumed of users, of the market, of failures or of crashes.

## What the code gets wrong

Six disagreements between code and documentation are runs of their own
(`PROJECT.json`, findings, with quotations):

| run | what happens |
| --- | --- |
| `dry_double_book` | the dry-run close ignores whether `closeTrade` applied; the final pass of `stop()` and a tick in flight both add the result to stats and risk counters |
| `rejected_entry` | an entry that Grok rejects goes on with a signal of null, which is ordered as a short; its row needs a side, so the insert throws and the position stays on the exchange, known to nobody |
| `start_during_resume` | `createMultiStrategyInstance` checks `botsMap`, awaits the leverage, registers; a resume in between builds a second group, and both trade |
| `partial_start` | the start of the second engine throws; the first ticks on while the row is rolled back and no stop reaches it |
| `stranded` | the switch of the exchange looks for open positions in a table nothing writes; a stopped bot's position stays behind on the exchange whose keys were revoked |
| `day_releases` | the tick of AdaptiveStrategyEngine never resets the counters of the day; an engine that reached a limit is refused on every later day |

More of the kind can be reproduced by changing constants, in a configuration for the
module itself (`CHECK_DEADLOCK FALSE`). Each was found violated by TLC; they are not runs
of their own to keep the set small, and some passing runs leave out the event that leads
to them.

| module | constants to set | property violated | what happens |
| --- | --- | --- | --- |
| TradingGroup | `Events = {"stop"}`, 1 strategy, `MaxTrades = 1` | `StopHalts` | a tick past its guard sends its order after `stop()` returned; the session is closed, so the position gets no row |
| TradingGroup | `Events = {"stop", "restart"}`, 2 strategies, `MaxTrades = 2`, `MaxGenerations = 2` | `SinglePosition` | `stop()` releases the group while an entry awaits the exchange; the next start opens the coin a second time |
| TradingGroup | `Events = {"repost"}`, 2 strategies, `MaxTrades = 2` | `SinglePosition` | a start of a running bot re-arms the group and wipes the side of an entry in flight |
| TradingGroup | `AccountCap = 1`, 2 coins, 1 strategy, `MaxTrades = 2`, `Events = {}` | `WithinAccountCap` | the cap counts rows, inserted only after the order: two coins pass together |
| TradingGroup | `Events = {"insert_fails"}`, 1 strategy, `MaxTrades = 2` | `Accounted` | `insertTrade` throws after the order: the catch releases the reservation and forgets a position that is on the exchange |
| TradingGroup | `DryRuns = {TRUE}`, 2 strategies, `MaxTrades = 2`, `Events = {}` | `NoGhostReservation` | the dry-run close never releases the reservation, which blocks the coin's other strategies |
| TradingGroup | `Events = {"stop", "restart", "reads_fail"}`, 1 strategy, `MaxTrades = 1`, `MaxGenerations = 2`, live | `RowsHeld` | `getOpenTradesBySymbol` throws at start, is caught, and the engine runs without the position it has, until a pass reads the row |
| AccountCoordinator | as the run, by `MCSpec` | `SidesBounded` | the positions a start restores are reserved without `canOpen`: the account has more than `maxConcurrentPositions` |
| OrderEntry | `Worlds = {{"sl_fails"}}` | `NothingLeft` | an emergency close cancels no plan orders: the target that was placed stays behind on the exchange |
| PositionLadder | `Sizes = {40}`, `Worlds = {{"manual"}}` | `BookedWithinOrder` | the software monitor finds the position gone at the exchange and books the whole order on top of the parts |
| RiskDay | `Kinds = {{}}`, `MaxRestarts = 1` | `CountsSurvive` | after a restart the counters come from the rows closed today: a position still open is not among them, nor was its entry |
| RiskDay | `Kinds = {{}}`, `MaxRestarts = 1` | `LossSurvives` | `getTodayRiskStats` fails at a start and is swallowed: the counters start over, and the engine enters past its limit |
| RiskDay | `Kinds = {{"e2"}}`, `MaxRestarts = 0` | `AccountSeesAll` | the tick of AdaptiveStrategyEngine never reports its loss to the account |
| SignalDesk | `Users = {"u1"}` | `EntryAtLivePrice` | the entry takes the price the last pass over an open position saw for the live one |
| SignalDesk | `Users = {"u1"}` | `SameCandleOnce` | a signal is forgotten after 5 minutes, its candle lasts 15: it may enter again |
| SignalDesk | `Users = {"u1", "u2"}` | `OwnPlan` | the strategy object is shared; the stop loss is planned with what it last detected for another engine |
| SignalDesk | `Users = {"u1", "u2"}` | `DroppedIsOwn` | the key of a signal has no user in it: the engine of another user drops its signal as a duplicate |
| CandleCache | `Worlds = {{"recent"}}` (or `past`, `short`, `late_write`), 1 engine, 1 request, `MaxTime = 12` | `FrozenIsFinal` | a row old enough to be final may hold a bar asked for before its end, and is never asked for again |
| CandleCache | `Worlds = {{"down"}}` or `{{"limited"}}`, 1 engine, 1 request | `StaleBeforeSimulated` | made-up candles are returned though the table has stale rows: the client never throws where the cache would fall back |
| CandleCache | `Worlds = {{"down"}}`, `Ttls = {6}`, `Limit = 3`, 1 engine, 1 request, `MaxTime = 12` | `LastIsCurrent` | `LTF_CACHE_TTL` is three bars of five minutes, on which three strategies run: what they decide on may have ended three bars ago |
| StartGate | `Equities = {10}`, `Events = {"trade"}` | `ArmedWithinBudget` | the close of a trade deletes the armed slot, so a running bot no longer counts with its capital |
| StartGate | `Equities = {10}`, `Events = {"crash"}` | `ArmedWithinBudget` | after a crash a start passes the gate before the resume has armed the bots that ran |
| StartGate | `Equities = {10}`, `Events = {}` | `ReservedIsServed` | `bot.update` or the building of the engines throws after the arming: the outer catch gives the reservation back to nobody, and it counts against the user's other starts |
| BotLifecycle | `Worlds = {{"stop", "resume"}}` | `StoppedIsQuiet` | a stop skips the instance a resume has registered but not started; the resume read the row first |
| BotLifecycle | `Worlds = {{"start", "stop"}}`, no symmetry | `RunningIsServed` | a start during a warm-up already asked to stop is acknowledged; the warm-up aborts, and the watchdog sees an instance registered |
| BotLifecycle | `Worlds = {{"fail", "resume", "rows"}}`, no symmetry | `RunningIsServed` | the last retry of a resume fails, and so does the update that says so: the row runs, its instance is dead in `botsMap`, and the watchdog skips it |
| BotLifecycle | `Worlds = {{"start", "edit"}}` | `NoOrphanTicks` | DELETE or PATCH drops an instance in its warm-up without stopping it |
| BotLifecycle | `Worlds = {{"start", "admin"}}` | `StoppedIsQuiet` | the emergency stop drops an instance in its warm-up without stopping it |
| BotLifecycle | `NEngines = 1`, `Worlds = {{"start", "fail"}}` | `StoppedIsQuiet` | the rollback of a failed start lands after the next start wrote `running` |
| ExchangeSwitch | `Worlds = {{"conflict"}}` | `KeysAreLeft` | the upsert after the revocation fails, because the new key belongs to another account: no exchange is active any more |
| ExchangeSwitch | `Worlds = {{"concurrent"}}` | `KeysAreLeft`, `TradesWhereConnected` | two switches overlap: each revokes what the other has saved, and engines come back on the other's exchange |
| ExchangeSwitch | `Worlds = {{"keys"}}` | `TradesWhereConnected` | POST of keys of another exchange has no guard: a bot that runs goes on where it is |
| Payments | 1 user, 1 order, 2 hooks, `Worlds = {{"PAID", "hook_fails"}}` | `PaidIsGranted` | the grant throws after PAID was stored; the repeated notification is taken for a duplicate |
| Payments | as the run, `Worlds = {{"voucher", "FAILED", "PAID"}}` | `DiscountsCounted` | FAILED gives the slot back, somebody else takes it, and PAID comes for the first order: more orders are paid with the discount than the voucher has uses |
| BacktestJobs | 2 jobs, 1 slot, `Happenings = {{"fetch"}}` | `ResultKeptWhenFetched` | two readers of a finished job: the first one to load deletes the file under the second |
| Replay | `Modes = {{"partial"}}` | `StopFirst` | a bar that reaches a milestone and the stop books the milestone first, and the stop that is hit is the one it moved |
| LegReplay | `Modes = {{"timed"}}` | `LossBoundedTimed` | the time stop is asked before the stop loss, and books a close beyond it |
| LegReplay | `Modes = {{"apart"}}` | `SharedLimits` | a triple-timeframe run replays each leg with its own counters and the whole capital, though its comment says they share it |

For BotLifecycle the other constants are `NEngines = 2`, three instances (`Fewer` the same),
`MaxRetries = 2`; for the rest those of the run that has the module, or of the unit in the
MC module.

Seen in the code, and part of the models, without a property of their own:

- Two PAID notifications handled at the same time grant twice; the second subscription
  replaces the first (`GrantedOnce` allows exactly that). A hook that fails after FAILED
  was stored does not give the slot of the voucher back. A PENDING that comes late
  overwrites PAID. Unsubscribing has no effect while a Subscription is active.
- A job that ends as it is cancelled is stored as done; cancelling a finished one
  overwrites done. A stream that reconnects while the file is read ends with no result. A
  worker killed between file and message leaves the file. Killed workers hold no slot, so
  more processes than `MAX_CONCURRENT_BACKTESTS` may live for a while.
- A half-filled maker entry whose market order throws leaves what was filled untracked; a
  quote whose cancellation and last look both fail may be filled on top of the market
  order. `Reliable` in `OrderEntry` excludes these two from `TrackedIsWhole`.
- A stop adopted after a crash is the one of the entry: below the one the ladder had
  reached, until the next milestone. `StopTightens` compares within one life of the
  process.
- A reconciled position is closed in the table when its exchange is not the connected one.
- A restart after the user's tier lost a strategy adopts no row of that strategy; the row
  stays open and keeps the coin blocked (`BotEngine.js` 644–656; not modelled).

## Proofs

TLAPS proves the theorems below for every value of the constants. The assumptions are those of
the modules (`…Assumption`): amounts and bounds are naturals, limits and sizes positive, sets
that are counted or summed over are finite, names like `Legacy` and `None` are not among the
things they stand beside. Modules that a run instantiates cannot assume (TLC does not evaluate
an ASSUME of an instance); their theorems have the assumption as a hypothesis
(`RiskDayAssumption`, `BacktestJobsAssumption`, `ExchangeSwitchAssumption`, …, each `=> …`),
and the MC module assumes it of its constants.

Each proof has the same shape: an inductive invariant that TLC has checked, one lemma per
action or group of actions that preserves it, and a last step by temporal logic.

Every invariant and every action property a passing run checks is stated by a theorem. The
theorems are about a module by itself, and where a run composes modules, about the run's own
specification as well: `SharedLimits`, `AccountTyped`, `AccountConsistent`,
`ReplaysWithinLimits`, `ServicesTyped`, `ServicesSlots` and the theorems named `Group…` and
`Churn…` are of `MCSpec`. A step of `MCNext` is a step of each module or leaves it alone
(`OneRuns`, `GroupRuns` and their likes), so the invariants of the modules are kept side by
side. What a module has by instance carries the prefix of the instance (`Day!`, `Switch!`,
`Backtest!`, `Several!`, `Ladder!`, `Orders!`, `Candles!`, `Single!`, `Desk!`).

### Sums

The models add with the folds of the community modules, which are recursive functions behind
a CHOOSE. `SumTheorems` proves that such a function exists on the subsets of a finite set
and what it gives: `SumNat`, `SumEmpty`, `SumSame`, `SumPlus`, `SumLess`,
`SumAtMost` and `SumWithin`. The provers cannot use the library's induction theorems, which
take a predicate; a collection of sets does instead: the subsets that refute a claim are
empty in number, or one of them has fewest members (`SmallestSet`), and taking one member
out of it refutes that. Each module then shows that its own fold is `SumOf` (`MarginSumIs`,
`SumsAre`, `SingleSum`, and for the fold over the sequence of rows `FoldIs`).

### AccountCoordinator

| theorem | states | argument |
| --- | --- | --- |
| `TypeCorrect` | `[]TypeOK` | inductive as it stands; a freed key holds nothing, which is what the counts rely on |
| `RaceToConfirm` | `[]OneOpenPerSymbol` | inductive with `TypeOK`. `StepShape`: a step either opens one key and leaves the others, or removes sides of one coin (`Shrinks`) and adds none. `OpenAlone`: gates 2 and 3 leave no other key of the coin with a side |
| `MarginGate` | `OpenFitsBudget` | an entry gets the origin `asked` only from `Open`, which asked in the same turn; the sum over the other keys, restored and settled ones included, is the one the gate saw (`CommittedUnchanged`) |
| `ConcurrencyGate` | `[]OpenPositionsBounded` | the keys let through (`Asked`) are among the held keys `OpenCount` counts, whatever else is; finiteness of the key set gives the cardinalities |
| `Refinement` | `Spec => SlotSpec` | `Open` and `Restore` map to `Acquire`, `Settle` to a stutter; a step that removes sides maps to `Free` or a stutter, by `OneOpenPerSymbol` |

The arming steps (`ArmGroup`, `RearmGroup`, `ReleaseGroup`, `ArmLegacy`) may remove a
side of the coin, the reason why `Shrinks` and not "unchanged" is the shape of the other
steps. That is also why the race-to-confirm of the map does not by itself protect the
exchange: whether it does is a theorem about `TradingGroup`, with a hypothesis.

RiskDay, in the same file:

| theorem | states | argument |
| --- | --- | --- |
| `DayTypeCorrect` | `[]Day!TypeOK` | counters stop at their limits, `done` does not |
| `LimitsAreKept`, `SharedLimits` | `LimitsHold` | `CountInv`: what an engine booked as lost today is in its counters and, unless a row could not be written (`missed`), in the rows it would be restored from; a restart that does not find all of it starts `done` over; its trades and its streak are in the counters until the first restart; a tick begun on another day adds nothing. `ReportInv`: until then an engine past its report has reported its loss. So the losses of `Told` sum to no more than the reports (`SumLess`), nor these to more than all reports (`SumWithin`) |

### TradingGroup

| theorem | states | argument |
| --- | --- | --- |
| `TypeCorrect` | `[]TypeOK`, all events | `Base`: the types, that an engine at work on an order has a newest trade (`HasNewest`), and that what an engine holds are trades of its strategy (`HoldsOwn`) |
| `RowsAreTracked` | `[]RowsTracked`, all events | `Lives`: at each stage of a stop, which flags of the engine are up and what its other thread may still do; `RowsInv`: the engine holds the open rows of positions in the market or they are `unseen` (`Tracked`), and none of these is among what its tick found gone (`Gone`) |
| `LiveBookedOnce` | `[](~dryRun => BookedOnce)`, all events | `BooksInv`: a live engine books with the step that closes the row; a trade without a row is held by halted engines only |
| `OnePosition` | `Undisturbed => []SinglePosition` | see below |
| `PositionAccounted` | `Undisturbed => []Accounted` | |
| `NothingReservedIdly` | `Undisturbed => [](~dryRun => NoGhostReservation)` | |
| `ImplementsSlot` | `Undisturbed => (Spec => SlotSpec)` | a filled order maps to `Acquire`, a close of the market or an emergency close to `Free`; by `SinglePosition` the coin is free when an order fills |

`Undisturbed` says that no bot is stopped or posted again and that no insert of a row fails
(`Events` has none of `stop`, `repost`, `insert_fails`). Each of the three refutes
`SinglePosition` or `Accounted`, as the table of counterexamples above shows, so the
hypothesis is as weak as the code allows; orders that are rejected, stop losses and
emergency closes that fail, balances and exchanges that cannot be read are all included.
The four theorems rest on one invariant, `All`: positions belong to running engines
(`Owned`), each is where the stage of its engine says it is (`Placed`), an engine has one
at most, and from the order on a reservation with its side (`Backed`); a coin has one
reservation with a side (`OneOpenPerSymbol`), which has an engine behind it (`Armed`);
and what a pass found gone stays gone (`Found`). The
race is decided between `Gate` and `Reserve`, where the calls of the coordinator run
without an await; the invariant says what that atomicity is worth.

### PositionLadder, OrderEntry, CandleCache

In `Group_proofs`. PositionLadder, where sizes and the least lot are arbitrary:

| theorem | states | argument |
| --- | --- | --- |
| `LadderTypeCorrect` | `[]TypeOK`, all events | with `Whole` (the rest is all of it before the first milestone) and `AtWork` (the part of a milestone can still be taken), so that no size gets negative or larger than the order |
| `PositionProtected` | `[]Protected` | `OrderOnly`: one position, one row and the row of the part being booked; `Covered`: what the exchange holds and the part it has already closed are no more than what the position counts, and the stop loss covers it, except between cancelling and placing |
| `StopOnlyTightens` | `StopTightens` | `Climbed`: the upper level only after the second milestone, a milestone at work is the last one passed |
| `BookedIsOrdered` | `[]BookedAsOrdered` | `Ledger`: while the position is held, the parts booked, the part whose row is written but not closed (`Unstored`) and the rest are the order; once it is not, the parts and the row of the order are |

The worlds these are about are part of the properties: no crash and no failing table, for
`Protected` no stop loss that is refused, for the bookings no software monitor (`Honest`). The
table of counterexamples shows the monitor booking twice.

OrderEntry:

| theorem | states | argument |
| --- | --- | --- |
| `EntryTypeCorrect` | `[]TypeOK`, all events | `EntryTyped`: an entry under way was counted, a quote being polled is in the book, quotes and attempts stay within their bounds at the stages that count them |
| `OrderIsWhole` | `[]TrackedIsWhole` | `OrderWhole`: the position on the exchange is what the stage of the entry says (`Held`): nothing before the first quote, what the quote has filled until it is counted, `filledMaker` before the market order, all of it after; only the entry's own quote can be live, until it is cancelled |
| `EntryIsProtected` | `[]EntryProtected` | the same `OrderInv`: what is inserted, and so what is tracked, has its stop loss or is watched |

Both properties are about the worlds `Reliable`: no crash, no order that cannot be read and
no cancel that fails, and no failing order beside quotes. Rejected and voided quotes,
missing tickers, refused plan orders and emergency closes, and fills at any point between
the polls, the cancel and the count are all included.

CandleCache:

| theorem | states | argument |
| --- | --- | --- |
| `CandlesTypeCorrect` | `[]TypeOK`, all worlds | `CallsTyped`: an engine is in the chain of calls exactly while it calls, once; `RowsTyped`: table, pool and writes under way hold bars that had begun when they were asked for |
| `CurrentIsServed` | `[]ServedIsCurrent` | for any times to live up to as many bars as an answer has. `TableWhole`: a row was stored when it was fetched, and the other bars of its answer are in the table, none of them older; so the rows younger than the time to live are the last bars without a gap (`YoungSpan`), as the answer of the exchange is |

`ServedIsCurrent` leaves out answers with missing bars and three ways a backtest or a late
write puts rows into the table (`short`, `past`, `recent`, `late_write`); what those do is in
the table of counterexamples. Refused calls, retries and the fallback are included.

The run `group`: `GroupTyped`, `GroupProtected`, `GroupBooked`, `GroupTightens`,
`GroupTracksWhole` and `GroupServesCurrent` carry these over to its specification, and
`GroupAccounted`, `GroupReleases` and `GroupImplementsSlot` those of TradingGroup, under the
same `Undisturbed`. The step of a unit is a step of its module with everything else unchanged
(`GroupRuns`), and the conjunction `GroupInv` of the inductive invariants is inductive.

### SingleEngine, SignalDesk

In `Churn_proofs`.

SingleEngine:

| theorem | states | argument |
| --- | --- | --- |
| `EngineTypeCorrect` | `[]TypeOK` | inductive as it stands |
| `LostSetupStaysOut` | `LostSetupNotRepeated` | `SetupInv`: a candle has one signal (`ReadInv`); the one position is of the candle of the last loss or a later one (`PositionInv`); what lost on the candle of the tick is what `lastLossSetup` keeps (`LostInv`); a signal past the filter is not that setup, and no position is open (`DecidedInv`) |

SignalDesk:

| theorem | states | argument |
| --- | --- | --- |
| `DeskTypeCorrect` | `[]TypeOK` | `DeskTyped`: with the memory of each signal typed |
| `SignalOncePerWindow` | `OncePerWindow` | `WindowInv`: what was entered, and what a tick in flight is about to enter, is remembered until its window ends, and two entries of one signal are a window apart |

The run `live_churn`: `ChurnTyped`, `ChurnTracked`, `ChurnBookedOnce` and `ChurnNotRepeated`,
for its specification; the middle two are TradingGroup's, for every event.

### StartGate

| theorem | states | argument |
| --- | --- | --- |
| `StartLock` | `[]LockExclusive` | `LockInv`, inductive with the type of `pc`. Only `AcquireStartLock` enters the section and finds the lock free; three steps leave it and free the lock |
| `StartWithinBudget` | `GateKeepsBudget` | the sum over the keys is that over the other coins, which the gate saw, and over the group, which the arming sets to equal shares (`ArmedTotal`) of at most the capital together (`SharesAre`) |
| `GateTypeCorrect` | `[]TypeOK` | `AccountInv`: the map is typed through arming, trades, crashes and resumes, and no legacy slot takes part |

### BotLifecycle

| theorem | states | argument |
| --- | --- | --- |
| `TypeCorrect` | `[]TypeOK`, all worlds | |
| `StopHolds` | `StopTakesHold`, all worlds | `stopRequested` is never taken back, and every step that would make an instance run looks at it |
| `RoutesAreQuiet`, `OneGroup` | `[]RoutesQuiet`, `[](RoutesOnly => OneGroupTicks)` | `RInv`: an instance that is not asleep is the registered one (`Registered`), a start under way knows its instance (`StartTracks`), and past the end of a stop every instance was asked to stop or is not alive (`EndTracks`) |

`RoutesQuiet` says of the worlds with only starts and stops (`RoutesOnly`) that a bot whose row
says stopped is silent and that no group ticks out of reach, also where calls of the table fail
(`rows`). Resumes, edits, the admin's stop and failures of engines each refute one of the two (table above).

### ExchangeSwitch

| theorem | states | argument |
| --- | --- | --- |
| `SwitchTypeCorrect` | `[]TypeOK` | `Typed`, with the stages a request of each kind can be at (`Staged`) |
| `ExchangesAgree`, `AccountConsistent` | `[]Consistent` | `OneByOne`: at most one request is past its first read, except in the concurrent world; `Counted`: so at most so many switches pass the daily limit; `OneInv`: two active rows only while a request is about to drop the others; `CalmInv`: what the request at work has changed so far, stage by stage |

### Replay and LegReplay

| theorem | states | argument |
| --- | --- | --- |
| `ReplayTypeCorrect` | `[]TypeOK` | with `PhaseInv`: a position at its time stop and an order at its end leave in the phases of that bar; the trades of a position add up |
| `FillsAreWithinLimits` | `FillWithinLimits` | `PendingInv`: the limits hold as long as an order waits, since nothing is open beside it and no day makes them tighter |
| `LegTypeCorrect` | `[]TypeOK` | |
| `LossIsBounded` | `[]LossBounded` | a bar turns at most what was at stake into a loss (`BarLeg`), an entry comes below the limit and puts one full loss at stake (`OpensLeg`); the sums over legs by `SumPlus`, `SumLess`, `SumWithin` |
| `ReplaysWithinLimits` | the run's `FillWithinLimits` | both |

### Payments and BacktestJobs

| theorem | states | argument |
| --- | --- | --- |
| `VoucherCounted` | `[]SlotsCounted` | `SlotsInv`: the sets that are counted are finite, and the counter is at most the number of `Takers`, the orders whose checkout got past the reservation of a slot. A slot changes hands (`SameBalance`), is given back on both sides (`LessBalance`), or is lost to a call that throws, which adds a fault (`LostSlot`) |
| `PaymentGrantedOnce` | `[]GrantedOnce` | `GrantInv`: one notification at work, a grant about to be written is of a payment not granted yet, it replaces every active subscription of the user, and a user has one |
| `TypeCorrect`, `JobTypeCorrect` | `[]TypeOK` | `Payments` for finitely many orders, since the counter is bounded by their number |
| `SlotsGivenOn`, `ServicesSlots` | `SlotsMove` | `SlotInv`: those that hold a slot were dispatched and are `activeCount` many, and a job that may be called is in the queue while all slots are taken |
| `ResultStays` | `ResultKept` | `KeptInv`, for behaviours without a client's fetch: how far the worker, its messages, the file and the loader of a job can be apart |

### Model-checked only

- Liveness under fairness (`ClosesAreBooked`, `CallsEnd`, `StartsAreServed`,
  `StopsAndAnswers`, `ResumedIsServed`, `PaidIsGrantedUnlessFailing`, `JobsEnd`): out of
  the prover's reach, as is ENABLED.
- Properties a configuration above refutes are not proved under a weaker world than the one
  the passing run has.

No module here uses RECURSIVE operators, which would cost the SMT backend.

## Not modelled

- Strategies, indicators, regime classifiers, the filters of backtests, walk-forward and
  ML: about half of the source, numeric functions of candles with no protocol and no
  state that interleaves. The engines' modules choose a signal freely in their place.
  They, reports and routes that only read are why the modules stand for a seventh of the
  whole repository, though for most of its trading, payment and job code.
- HTTP to exchanges, databases, notifications, language models: external; their outcomes
  and failures are steps of the models.
- Middleware, validation, formatting, logging, reports.
- Money beyond size and sign: fees count against the result in the table and not in
  memory, and no property compares the two.
- The balance cache and the purge of unused keys: they delay what a bot reads, which is
  free here already. Sessions, tokens and password resets: single statements.
- Backtests inside the process (when a fork throws), and the judgement of finished trades
  by a language model.
- The spacing of calls by the rate gate, and the conflict resolver, which ranks signals by
  confidence.
- Deployment of parameters (`modules/research`): it reads rows of a table `Trade` no
  runtime code writes, and its automatic rollback has no caller.
- The strategy in which Grok decides by itself (`_tickGrokAi`, `_closePosition`), and the
  dry-run of an engine by itself. The handlers of a sideways market and
  `_handleMultiPositionSignal` of `BotEngine` are out of reach: no strategy has a signal
  type `PDF_*`, and `ADAPTIVE_FUSION` is normalized to another key before the engine sees it.

## Plan

1. `_tickGrokAi` of `BotEngine`: its gate is evaluated before the awaits, and
   `_closePosition` books without asking what `closeTrade` answered, so the final pass of a
   stop and a tick in flight may both book.
2. `BotLifecycle` with a second request after an early close of the connection, and with
   edits that keep the instance.
3. A composition of `BotLifecycle` and `StartGate`, for the reservation that a delete
   during a start leaves behind, and `TradingGroup` with a restart that drops a strategy.

Proofs: no invariant or action property of a passing run is left without a theorem. What
would say more: an abstract specification of one bot (a row, and the group it stands for) that
`BotLifecycle` implements where only the routes act; and what still holds of the properties
that configurations above refute, in the worlds that refute them.

