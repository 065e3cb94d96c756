# A TLA+ model of the 360-Crypto scalping engine

The engine scans Binance pairs, announces trade signals on Telegram channels,
follows every announced trade to its end and, when auto-execution is on, places
the orders.  It is one asyncio process: concurrency is the interleaving of
coroutines at their awaits, plus what the outside does meanwhile (Redis, the
exchange, Telegram, the clock, a crash).  The modules here model that: one TLA+
action is the code a coroutine runs between two suspension points.

Paths below are relative to the repository's root; `PROJECT.json` names the same
files with the prefix `src/` (so the package is `src/src/`), and maps every
definition to the lines it translates.

## 1. Inventory

How the parts interact:

    market data -> Scanner.scan_loop -> SignalQueue -> SignalRouter -> Telegram
                       |  ^                               | active_signals
        is_tripped,    |  |                               v
        is_symbol_tripped |        TradeMonitor <-> OrderManager -> exchange
                       v  |               |  remove_signal
                   CircuitBreaker <- record_outcome -> PerformanceTracker

| component (files under `src/`) | state it keeps | operations | what is hard |
|---|---|---|---|
| Signal router `signal_router.py`, `correlation.py`, `risk.py` | active signals, position lock per symbol, cooldown per (symbol, channel), daily best, free-channel flags | `start`/`_process` (gates, enrichment, delivery, retry, registration), `remove_signal`, `cleanup_expired`, `set_free_limit`, free preview, highlights, persistence | gates are read before two awaits and relied on after them; retries re-enter the queue; two other coroutines remove signals |
| Signal queue `signal_queue.py`, `redis_client.py` | Redis list, in-memory fallback, availability flag | `put`, `get`, `qsize`, `connect`, `mark_unavailable` | non-atomic length check; a command may have been executed when it fails; crashes |
| Trade monitor `trade_monitor.py`, `dca.py`, `performance_metrics.py` | status, stop, targets and outcome of each signal | poll rounds over a snapshot; evaluation: expiry, averaging, stop, invalidation, TP1-TP3, trailing | status and stop change on different sides of an await; the scan loop expires the same signals |
| Order manager `order_manager.py`, `exchange_client.py` | order ids, open quantity, closed levels | `execute_signal`, `close_partial` | refused calls, answers that are lost, levels skipped by a price gap |
| Circuit breaker `circuit_breaker.py` | rolling outcomes, consecutive losses, tripped/mode, per-symbol streak and suppression | `record_outcome`, `is_tripped`, `is_symbol_tripped`, `reset`, `status_text` | lazy expiry in several places; rolling windows; asked once per scan cycle, never by the router |
| Rate limiter and REST client `rate_limiter.py`, `binance.py` | used weight, window start, budget; depth timeouts and circuit, slots | `acquire`, `update_from_header`, `set_budget`, `_get` with retries | the window is reset before the sleep; late headers; retries and cancellations of concurrent calls |
| Scan loop `scanner/` | cycle count, cooldowns, semaphore, paused channels, cluster window | `scan_loop`, `_scan_symbol_bounded`, `_scan_symbol`, `_should_skip_channel`, `_prepare_signal`, `_enqueue_signal` | 15 concurrent jobs per cycle work on checks that age; three scores and three sets of levels overwrite each other |
| Channels, detector, scoring `channels/`, `filters.py`, `regime.py`, `signal_quality.py`, `confidence.py`, `mtf.py`, `vwap.py`, ... | regime history of the shared detector | `evaluate` of seven channels, gates, `build_risk_plan`, `compute_confidence`, `score_signal_components`, `predict`, `adjust_tp_sl` | tables in different files that must agree; rounding; the last write wins |
| WebSocket manager `websocket_manager.py` | connections, degraded flags, fallback task, session | connect, listen, back off, watchdog, REST fallback, recycle, stop | flags written on two paths of a reconnect |
| Candles `historical_data.py` | candle series, disk snapshot | seed, fill the gap, update, save | a gap counted in intervals; a crash between two saves |
| Pairs and tiers `pair_manager.py`, refresh loop of `main.py`, `/update_pairs` | pair dictionary with tiers, seeded pairs, subscriptions | refresh, merge, rank, prune, promote, demote, seed | the dictionary changes while the refresh awaits its answers |
| Order flow `order_flow.py` | open interest, liquidations and their buffer, CVD and snapshots | poll, buffer, flush, snapshot, divergence | streams of four intervals in one list; readings counted, not timed |
| Engine `main.py`, `bootstrap.py` | task list, sockets, signal history | boot, launch, restart, shutdown | the restart runs inside a task it cancels; a shutdown beside a refresh |
| Telegram `telegram_bot.py`, `commands/` | update offset, stale phase | `send_message` with retries, `poll_commands`, command handlers | lost answers, failing handlers, restarts |
| Lifecycle monitor `signal_lifecycle.py` | alert level and last check of a signal | rounds, assessments, alerts, close recommendation | acts on signals that may end meanwhile |
| Performance and learning `performance_tracker.py`, `stat_filter.py`, `trade_observer.py`, `feedback_loop.py` | record file, rolling win rates, observed trades | record, save, load, reset, digest | a crash or a failing write after the file was truncated |
| Macro watchdog `macro_watchdog.py`, evaluators `predictive_ai.py`, `ai_engine.py`, ... | headlines seen, last index value | poll, classify, alert, start, stop | marks that are set before the send, pruned and shared |
| Gem scanner `gem_scanner.py` | daily count, thresholds, regime, switch | `scan`, `adjust_for_regime`, `/gem`, `/gem_config` | the cap is checked before an await and counted after it |

The components left are the API limit trackers, the backtester and the simulation,
charts, logging and telemetry, configuration, and two sets of code that nothing runs
(`src/scanner.py`, shadowed by the package `src/scanner/`, and the helpers once cut out
of it).  `PROJECT.json` lists every component with its status and the reason.

What makes each component correct:

* router: at most one position per symbol and locks exactly for positions; channel
  caps, correlation limits and cooldowns hold across the awaits; nothing is announced
  twice; locks are released and queued signals decided, in the end;
* queue: bounded, no eviction, at most one duplicate, no starvation;
* monitor and orders: a proven trade keeps its gain, one outcome per trade, status
  only advances, only a trade averaged beyond its stop is cancelled, never more sold or bought than ordered;
* breaker: trips in time, pauses are served and end, trades open in a pause only from the backlog;
* limiter and client: a window's budget is never exceeded nor given back, a depth
  outage costs one timeout per call, every call returns;
* scan: every cycle ends, signals of a pair are spaced, caps overshot by a bounded
  number, no level on the wrong side of its entry, no signal below its channel's bar,
  a regime that changes only after its dwell, every configured channel heard;
* sockets and candles: an outage of a critical pair is always polled, a dead socket is
  replaced, a series has no hole;
* pairs: whatever is scanned in full was seeded;
* engine and Telegram: a restart completes, nothing opens after a shutdown, a command
  is handled once;
* the rest: no outcome is lost, no liquidation is counted twice or missed, no headline
  repeats, the gem cap of a process holds but for one signal, a closed signal is advised on at most
  once.

## 2. The modules

Each component has a module with its constants and assumptions, variables, one
action per step, its specification and its properties; a module `...Proofs` with
theorems (`ScanningProofs` and `ServiceProofs` hold those of several components, a
section each); and a module `MC...` with the values the `.cfg` files use.  A definition
named `...Faulty` (or `...Unbounded`, `...Unchecked` and so on)
directly before the definition it resembles is a plausible slip of it: no action
uses it, and putting it in the original's place must violate a property.

### SignalRouter

The single consumer of the queue.  `router` is its coroutine: idle, or suspended
with a signal in `enrich` (the AI predictor), `send` (premium delivery), `backoff`
(the retry sleep) or `free` (the free-channel preview).

| action | code |
|---|---|
| `Fire` | `Scanner._enqueue_signal`; a signal may enter twice (see SignalQueue) |
| `Take` | `start` pops, `_process` runs its gates: lock, cooldown, channel cap, correlation, sanity, staleness; without AI also confidence, risk, channel id |
| `Enriched` | `_enrich_with_ai` returns, perhaps with another confidence; then the same checks |
| `Delivered`, `DeliveryFailed`, `Requeue` | delivery, registration and ranking; retry at most twice, 1 s and 2 s later, or drop |
| `PreviewDone` | `_maybe_publish_free_signal` after its send |
| `IdleTimeout` | the `TimeoutError` branch of `start` |
| `RemoveSignal`, `CleanupExpired` | the monitor's and the scan loop's removals: both release the lock and stamp the cooldown |
| `SetFreeLimit`, `NewDay`, `Tick` | admin command, midnight, the clock |

Ages and cooldowns are ticks that saturate beyond the last threshold the code
compares them with.  The free channel is assumed configured.  Confidences are a
small set of integers on both sides of the thresholds.

### SignalQueue

`put` and `get` with every Redis command split into request, execution by the server
and reply; any of them may fail, which disables Redis (`available`) and sends the
signal to the fallback, also when the server has stored it.  `Restart` ends the
process at any point: the fallback and all coroutines are gone, `connect` decides
about Redis.  `OtherUserFails` is any other user of the shared client.  Its result
that a signal is consumed at most twice is why `Copies` in SignalRouter is at most 2.

### TradeMonitor

The monitor and the order manager it drives.  `pc[t]` is where the evaluation of a
trade is suspended: `ready` (snapshot taken), `order`, `averaged` (DCA message),
`tp1`, `tp2` (message), `close1..3` (partial close), `outcome`, `cancel` (final message).
`StartRound` is the gather over a snapshot; the next round starts when all
evaluations have ended.  Prices are integers on the profit side of the trade, so a
SHORT is the mirrored case; positions are percents of the entry order.  The exchange
may refuse an order, or execute it and lose the answer.  `CleanupExpired` is the scan
loop dropping the same signals, without an outcome.  Trailing is on and TP3 set, as
every channel configures.

`entry_2` is the price of the second entry, from which entry, break-even and targets are
computed.  Nothing keeps a DCA zone above the stop: the channel computes the zone from
its own stop (`channels/base.py:423`), the plan replaces the stop (`scanner/__init__.py:1362`)
and leaves the zone, and `check_dca_entry` runs before the stop is looked at.  The average
can then lie beyond the stop, and the sanity check after it (`Cancel`,
`trade_monitor.py:573-592`) cancels the trade: message and removal, but no outcome, and the
position stays.  `StopFollowsStatus` says that it hits no other trade (`CancelFits`).

`TradeLifecycle` is what the component promises of each trade, without evaluations,
orders or the scan loop: `open`, `proven`, `locked`, `ended`, `reported`, targets only
forward, a protected result unless the hold limit ended the trade, one report; or
`cancelled`, from `open` only and without a report.
`TradeMonitor` implements it (`ImplementsLifecycle`) under the mapping `LifePhase`,
`LifeResult`: the end is the moment the exit is decided, the report the later call of
`record_outcome`.  A trade that the scan loop expires between rounds just stays as it is.

### CircuitBreaker

The breaker between its users.  `window` holds what the code counts: the outcomes
since `_monitoring_started_at`, oldest first, each with its age and the equity before
it relative to now (a loss is a change of log-equity, so the compounding of
`calculate_drawdown_metrics` is addition and the peak is a maximum).  A scan cycle is
`CycleStart` (the only question to `is_tripped`) and then its jobs: `JobCleared` asks
`is_symbol_tripped`, `JobEnds` is the way from there to the queue, where `gather` stops
waiting (`scanner/__init__.py:675`).  `SignalRouted` is the router, which drains the queue
without asking the breaker, in any later cycle and in a pause (`signal_router.py:327-367`).
A symbol has at most one open trade (`OnePositionPerSymbol`).  `credit` is a history
variable: when the breaker trips, each job is credited its signals in the queue and
one more if the cycle under way may still find it; each trade opened in the pause takes
one.  `PauseOpensBacklogOnly` says the credit is never overdrawn.
`RecordOutcome` is the monitor; `TradeForgotten` a trade the router expired.

### RestClient

One client's `_get` calls and its market's limiter.  A call is `idle`, `asleep` in
`acquire`, `ready` (also during a burst-protection sleep), in `flight`, `held` by a 429
with its slot or in `backoff` after a timeout without it.  `acquire` never waits for its
lock, because nothing awaits inside, so `Start` is the depth circuit and `acquire` at
once.  `Retry` is the end of a back-off: another turn of the loop or the last.  `GiveUp`
is a `wait_for` or a cancellation around the call, at any point.  The header of an answer
is any of a set: other clients and processes count as well, and it may be old.  Other
clients of the market appear through it; `SetBudget` is the boot's change of budget.

### Scanner

The loop with its jobs.  `CycleSkipped` is a cycle of a tripped breaker (after
`cleanup_expired`), `CycleStarts` chooses the pairs of the turn (Tier 1 always, Tier 2
and 3 every so many cycles, prefiltered, the degraded list when the rate limit is near),
`Prefetched` the jobs it creates, `CycleEnds` the gather.  A job waits for a permit, asks
for the data of its symbol, then per channel: skips, verdicts, the cap of scalps,
verification (awaits), the `put`, and only after it the cooldown.  Jobs may raise
anywhere in `_scan_symbol`: `_scan_symbol_bounded` catches it.  The router's side
(registration, removal) and the clock are free.  What candle data says is a free choice
of a finding.

### SignalPipeline, with ChannelStrategies, MarketGates, Confidence, SignalQuality, SignalLevels

One job's way, computed instead of chosen: `ScanSymbol` builds the context, each channel
step is a skip, no proposal, or a proposal with its risk plan, verification
(`_verify_and_enrich`: on-chain, prediction), the first confidence with its penalties, the
component score, the composite score that replaces it, the statistical filter and the
cluster gate, and the queue.  Positions, cooldowns, pauses and the cluster window change
at the awaits.  The five modules below it are pure operators, one per function of the
source, over integers (hundredths of a point, prices in hundredths of 1e-8, so that the
rounding to 8 decimals is division and matters for micro-caps):

* `SignalLevels`: stops and targets of `build_channel_signal`, `build_risk_plan`,
  `adjust_tp_sl`, DCA zones;
* `SignalQuality`: market state, pair quality, setup class, execution check, component
  and composite score;
* `Confidence`: sub-scores, weights, prediction, decay;
* `MarketGates`: timeframes, open interest, kill zone, VWAP, spoofing, volume, majors;
* `ChannelStrategies`: `evaluate` of SCALP, FVG, VWAP, SWING, SPOT.  CVD and OBI read keys
  that the detector's dictionary does not have (`SMCResult.as_dict`), so they never
  propose; the model says so with the first check they fail.

`RegimeDetector` is the detector with its hysteresis, asked by all scans (the trade
monitor asks the same one).  Nothing forces a regime, because no volume delta is passed.

### MCServices: WebSocketManager, CandleStore, PairUniverse, Engine, TelegramBot, SignalLifecycle, Learning, OrderFlow, MacroWatchdog, GemScanner

These components run beside the scan and share little with it; each has its own state
and its own `..Next`.  `MCServices` runs them in one model whose `focus` says which one
moves: states add up instead of multiplying, and no property relates two of them.
`MCScanning` does the same with the loop, one scan and the detector.

| module | actions are | abstracted |
|---|---|---|
| `WebSocketManager` | a connection's connect, listen, close and back-off, the watchdog's turn, the fallback's start, turn and end, session recycling, stop | seconds: a back-off ends, a silent socket becomes stale some time |
| `CandleStore` | boot seeding or gap filling from the snapshot, closed candles, fallback polls, saves, a crash | a candle is its number; time in half candles |
| `PairUniverse` | the refresh (fetch, merge, rank, prune, seed, resubscribe, each at its await), `/update_pairs`, promotion by volume surge | volumes: an answer is a ranked list |
| `Engine` | boot, tasks, refresh stop and start, `/restart` in the polling task, shutdown step by step, signal history | what the other tasks do |
| `TelegramBot` | a send's attempts, polls, updates, handlers that raise, restarts and the stale phase | message contents |
| `SignalLifecycle` | rounds over a snapshot, one signal at a time with its awaited message | assessments are lights |
| `Learning` | record, queued and immediate save, failing write, restart, reset; rolling win rates; observer | statistics for reports |
| `OrderFlow` | trades, closed candles of each interval, divergence; readings, buffer, flush, window | prices and values from small sets |
| `MacroWatchdog` | polls, headlines per coin, mark, classify, send, prune, start and stop | texts |
| `GemScanner` | the scan at the end of a cycle, screening, count, midnight, admin commands, regime | candles: a candidate's figures |

## 3. Runs

| run | module, cfg | asks | shows |
|---|---|---|---|
| `router_safety` | MCSignalRouter, `MCSignalRouter.cfg` | `OnePositionPerSymbol`, `ChannelCapRespected`, `CorrelationLimitRespected`, `CooldownRespected`, `NeverAnnouncedTwice` | admission stays valid across the awaits |
| `router_liveness` | MCSignalRouter, `MCSignalRouterLive.cfg` | `LockReleased`, `EventuallyDecided` | no symbol stays blocked, no signal circulates for ever |
| `queue` | MCSignalQueue, `MCSignalQueue.cfg` | `OvershootBounded`, `NothingEvicted`, `AtMostOneDuplicate`, `FallbackDrained` | bounds, losses and duplicates under failures and a restart |
| `monitor` | MCTradeMonitor, `MCTradeMonitor.cfg` | `StopFollowsStatus`, `ProvenExitKeepsProfit`, `OutcomeRecordedOnce`, `PositionWithinOrder`, `DecidedIsRecorded`, `ImplementsLifecycle` | a trade from registration to outcome, over every price path |
| `monitor_expiry` | MCTradeMonitor, `MCTradeMonitorExpiry.cfg` | `NoFullLossOnceProven`, violated | expiry exits at the price, before the protective stop |
| `breaker` | MCCircuitBreaker, `MCCircuitBreaker.cfg` | `SafeWhileRunning`, `PauseOpensBacklogOnly`, `EventuallyResumes` | the breaker trips in time, pauses end and open nothing but the backlog |
| `rest_client` | MCRestClient, `MCRestClient.cfg` | `WindowWithinBudget`, `FailsFastInOutage`, `EveryCallReturns` | limits hold and calls end under every order of answers, timeouts and cancellations |
| `scanning` | MCScanning, `MCScanning.cfg` | `SignalsSpaced`, `ScalpOvershootBounded`, `EveryCycleEnds` (the loop); `LevelsOrdered`, `TierIsEarned` (one scan); `RegimeDwell` (the detector) | what concurrent jobs can and cannot break, and what a queued signal looks like |
| `muted_channels` | MCScanning, `MCScanningMuted.cfg` | `NoChannelIsMuted`, violated | the FVG and VWAP channels propose signals that a missing table entry rejects always |
| `services` | MCServices, `MCServices.cfg` | `OutageCovered`, `DeadSocketReplaced`, `FilledGapsAreWhole`, `ScannedPairsSeeded`, `QuietAfterShutdown`, `CommandsHandledOnce`, `OneLateUpdate`, `OutcomesKept`, `LiquidationsCounted`, `HeadlineOnce`, `GemCapBounded` | one question or two per service, see its module |
| `cvd_grid` | MCServices, `MCServicesCvd.cfg` | `CvdOnTheGrid`, violated | the CVD list mixes the candles of several intervals |
| `engine_restart` | Engine, `MCEngineRestart.cfg` | `RestartCompletes`, violated | `/restart` waits for its own task |

The four violated properties are statements of comments, docstrings or the repository's
README that the code does not keep; `findings` in `PROJECT.json` quotes each.

Properties that are stated in the modules and no run checks:

* `TypeOK` of the components with proofs, `FallbackOnlyWhenDown`, `StreakSuppresses`,
  `StatusNeverFallsBack`, `PauseServed`, `GatesStillHold`: they hold on the instances of
  the runs and are theorems, or part of `RouterInv` (section 4);
* `ScTypeOK`, `PlTypeOK` and `NoOpposingEnqueued` (no scan queues a signal against an open position
  of its symbol) hold on the instance of their run and are theorems of `ScanningProofs`;
* `ServicesTypeOK` (all services) holds on the instance of `services`;
* statements that TLC refutes on the instances of the runs, kept as a record of what
  the code does not promise: `RouterCleansUp` (the router's own cleanup is dead code
  with the production queue), `RedisDrained` (nothing reconnects to Redis),
  `SentWithinBudget` (an exhausted window is reset before its caller sleeps),
  `FullTPLeavesNothing` (a gap past a target leaves its part open), `ScalpCapRespected`
  (the cap itself, of which `ScalpOvershootBounded` is what holds),
  `RegimeDwellsPerSymbol` (one dwell count serves all symbols), `SkippedWasSent`
  (a headline whose send failed is not tried again), `ExtremesAnnounced` (the fear and
  greed index drifts to an extreme without an alert), `OnlyOpenSignals` (advice on
  closed signals, of which `OneLateUpdate` is what holds).

Bounds, and why they are enough:

* router: four signals of which every pair meets another gate (same symbol and channel,
  same symbol on another channel, same channel with cap 1, same correlation group and
  side); one of them may be queued twice; one retry in the safety run (the next retry
  is the same step) and both retries in the liveness run, whose queue of 1 is full when
  a retry wants in; on one channel a copy is stale before a trade can end, on the other
  not.
* queue: size 1, so the second put meets a full queue, and two producers race for it;
  three signals; one restart.  With more of each, the theorems take over.
* monitor: a market and a limit trade, so evaluations of one round interleave; for the
  market trade prices below the stop, in the DCA zone, at both entries and break-evens
  and at every target, for the limit trade a jump to its last target, through its stop,
  or into a DCA zone beyond that stop, which averages it to the wrong side; two trailing
  distances; the hold limit one tick after the youngest evaluable age.
* breaker: two symbols; thresholds of two losses, one tick of hour and cooldown, two
  of a day, results that are a loss, a losing stop-free exit or a win; two outcomes
  kept, so that the deque evicts; room for one signal in the backlog, so that a job may be
  credited two and a put may be refused.  History counters are not bounded by guards: they
  are finite because trades and signals are, or because `credit` is set anew by each pause.
* REST client: two depth calls and one of double weight compete for one slot and a
  budget of 3, lowered to 2; headers below and at the budget; a threshold of two timeouts
  and one retry, so that one call opens the circuit while the other backs off.
* scan loop: two pairs, one of which is ranked up and down, two permits, a scalp channel
  before a swing channel, cap 1, cycle numbers modulo 2 with Tier 3 every second cycle,
  and one finding per reason to skip: two jobs pass the cap together, and a cooldown of
  one tick ends while the next cycle runs.
* one scan: 18 contexts, each a market that reaches another branch (both directions, two
  micro-caps whose stop distance is a few units of the last digit, each regime, each
  objection of the gates, weak and poor scores, a pair that left the universe), with
  positions of the same and of other symbols, a crowd of signals on one side, and one
  channel that is paused.  For all other contexts and prices there are the theorems.
* detector: two scans in turn, two timeframes, three readings and the dwell of the code.
* services: two sockets of which one is critical, with two attempts told apart; a series
  of 6 candles and two restarts, gaps of zero, whole, and too old; three pairs, one per
  tier, that leave and return; three updates in batches of two; a gem and a swing signal;
  two trades for the learning modules, and a filter that nothing wires, as in the code;
  two intervals of one and two minutes and 4 minutes; liquidations two deep; two
  headlines and two coins with marks that live two polls; two candidates and caps 0 to 2.
  `CsMaxTime`, `CsMaxRestarts`, `LastUpdate`, `MaxPolls`, `MaxViews`, `MaxMinute` and `Flood`
  bound the counters; each is above what its property needs to be violated by the
  mutants.

Deadlock is checked in every run but the two in which the system really stops: in
`services` each instance is used up (all candles seen, all updates handled, the engine
shut down), in `engine_restart` likewise.

Fairness.  The event loop resumes every coroutine whose await has ended, and every
exchange, Redis and Telegram call has a timeout, so the steps of a coroutine are
weakly fair: of the router, the queue's consumer, an evaluation, a scan job (`JobStep`),
the scan loop (`LoopStep`), a connection's task and its watchdog (`WsFairness`), the tasks and the
shutdown of the engine (`EnFairness`).  The clock is fair.  `CleanupExpired` is fair in the
router because `scan_loop` calls it first in every cycle, also while the breaker is
tripped.  The trade monitor is not fair in the router's run: a symbol without a price is
never evaluated.  In TradeMonitor `Tick` and `CleanupExpired` are not fair: what has been
decided is recorded without them.  In Scanner neither the router nor the clock is fair: a
cycle ends without them, because `put` never waits for room.  `Fire`, failures, restarts
and the operator are never fair.  `asyncio.Semaphore` serves its waiters in order, so `Send`
is strongly fair; of the answers to a request some one comes.  `RestartSpec` adds
fairness of the restart's own steps, so that `RestartCompletes` fails only because the
restart waits for itself.

## 4. Proofs

All theorems hold for every value of the constants that satisfies the named
assumptions; the runs evaluate them on their instances.  Most say what kind of value
a constant is.  Those with content:

| assumption | says | why the code keeps it |
|---|---|---|
| `FinitenessAssumption` | finitely many signals | a process sees no others |
| `LifespanAssumption` | a trade may be closed before it can expire | the configured lifespans are minutes (6 hours for gems), the hold limits an hour and more (30 days) |
| `LevelsAssumption` | a registered stop is below the entry; entry, break-even and targets are in order, also after averaging; the average is not beyond the second entry | what the router's sanity gate lets through; `recalculate_after_dca` adds multiples of a distance to the weighted entry.  Nothing is assumed of DCA zones or of a stop against an averaged entry |
| `ClientAssumption` | no call weighs more than a budget | the heaviest call has weight 40 |
| `ScannerAssumption` | a channel is in the list of strategies once | `Scanner` is given the seven channels by `main.py` |
| `FillAssumption` | a gap fill ends before more candles close than the buffer holds | the buffer is 5 candles of at least a minute, a download a few requests; a download of that length would leave a hole |
| `ContextAssumption` | what a scan finds are numbers, a close is a positive multiple of 1e-8, and one of the short timeframes has candles | prices of the exchange have at most 8 decimals; `_scan_symbol` turns a symbol without candles away, and seeding loads every timeframe |
| `BarAssumption` | every channel's minimum confidence is 65 or more | configured are 68, 72 and 65; the admin command `/confidence` can set less (section 5) |
| `OrderFlowAssumption` | the CVD list is longer than the lookback | the defaults in `order_flow.py` |
| `"none" \notin Frames`, `Missing \notin Int`, `None`, `NoLock`, ... | a marker is none of the values it stands beside | the code's `None` |

* `SignalRouterProofs`: `TypeCorrect`, `PositionsExclusive`, `ChannelCapHolds`,
  `CorrelationLimitHolds`, `CooldownHolds`, `AnnouncedOnceHolds`.  None of the safety
  invariants is inductive alone: a registration relies on gates that were passed two
  awaits earlier.  `RouterInv` adds `GatesStillHold`; that in turn is preserved because
  every removal stamps a cooldown only for the symbol it unlocks, which the exact locks
  of `OnePositionPerSymbol` show to be another symbol than the router's.
  `AnnouncedInv` says that an announced signal is active or old: any other copy of it
  meets the lock, or the staleness gate.
* `SignalQueueProofs`: `TypeCorrect`, `OvershootHolds`, `BackendsExclusive`,
  `NoEviction`, `OneDuplicateHolds`, for any number of producers and restarts.  The
  bound counts pushes on their way together with the list; `PushedAccounted` says that
  a stored signal is accounted for before `put` has returned.  For the duplicates the
  copies of a signal are counted, wherever they are: list, fallback, consumer, consumed.
  A second one appears only in the step in which the reply of a push fails, after which
  its producer is done with the signal.
* `TradeMonitorProofs`: `TypeCorrect`, `StopFollows`, `ProvenExitHolds`,
  `OutcomeOnceHolds`, `PositionHolds`, `StatusHolds`.  `MonitorInv` ties status, stop,
  outcome and position to the point the evaluation has reached: between a target's
  status and its stop lies an await, in which `StopFits` does not hold but nothing
  judges the trade.  `CancelFits` follows from it: an unproven trade has its first stop,
  which is below its first entry, so the check can only hit an averaged one, and the
  average is not beyond the price of the second entry.
* `TradeMonitorRefinement`: `Implements`, that `Spec` implies the specification of
  `TradeLifecycle` under the mapping.  `MonitorInv` supplies what the steps need: before
  a step of an evaluation nothing is recorded or decided, and a decided exit of a proven
  trade keeps its gain.  Each action is shown to be one abstract step or a stutter.
* `CircuitBreakerProofs`: `TypeCorrect`, `SafeHolds`, `StreakHolds`, `BacklogHolds`,
  `PauseHolds`.  `SafeHolds` rests on two lemmas about rolling windows: neither
  pruning nor ageing raises the loss count or the drawdown, and the code evaluates
  whenever an outcome is added.  `BacklogInv` says that during a pause the credit of a
  job covers its signals in the queue and the one it may be about to put, which no cycle
  begun in the pause can add to.
* `RestClientProofs`: `TypeCorrect`, `WindowHolds`, `FailsFastHolds`.  `WindowWithinBudget`
  is inductive because a header only raises `used`; the second rests on the count staying
  at its threshold until a depth call succeeds.
* `ScanningProofs`, of Scanner: `ScannerTypes`, `SpacingHolds` and `ScalpOvershootHolds`.  `Spacing`
  adds to `SignalsSpaced` that a job suspended over a candidate has found its channel
  cool, which stays so because no other job is of its symbol and the list of strategies
  has the channel once.  `Overshoot` counts the scalps of a direction where they are
  (candidates, queue, active): each step moves one from a count to the next or removes
  it, and one is added only while the active ones are below the cap; `Capacity` bounds
  the candidates by the permits and the queue by its size.  Of SignalPipeline:
  `PipelineTypes`, `TierHolds`, `LevelsHold` and `OpposingHolds`, for every context.
  `ScanInv` says that a signal under verification has a sound plan (`PlannedSignal`:
  whole prices in order, a reward that is a number) and that an offered one is ordered
  and has earned its tier.  Three arguments carry it.  The tier is a band of the last
  confidence, so each partial score must be shown to be a number; `Best` and `FvgTry`
  choose from sequences, which takes a least index.  `TargetsApart` shows that the
  targets of a plan, at 1.2, 2.1 and 3.0 times the risk or farther, stay apart when
  rounded even if the risk is one unit of the last digit; `ScaledOrder` that scaling
  distances loses nothing.  And RANGE_REJECTION, whose plan does not have this property,
  is a setup that no scanned channel lists (`SetupAllowed`; the gem channel
  does, whose signals take another way).  Of RegimeDetector:
  `RegimeDwellHolds`, from `DwellInv`: while a regime is pending, the dwell count is the
  number of equal readings the history ends with.
* `ServiceProofs`, a section per service:

| theorem | inductive invariant | why the property alone is not inductive |
|---|---|---|
| `OutageCoveredHolds` | `OutageInv` | the fallback is started for the degraded flag, which is set before the backoff and cleared after it |
| `ShutdownIsQuiet`, `RestartNeverCompletes` | `EngineInv` | each phase of the shutdown relies on what the earlier ones stopped; a restart that has begun waits in the polling task, which it has cancelled |
| `CommandsOnceHolds` | `CommandInv` | the batch in hand follows the offset without a gap (`BatchFollows`), and what was handled lies behind the offset or is confirmed (`HandledBehind`) |
| `LateUpdateHolds` | `LateInv` | an update of a closed signal was the last of its round, and no later round has it |
| `OutcomesKeptHolds` | `OutcomeInv` | memory and files agree, but for torn writes and outdated trades of the observer |
| `HeadlineOnceHolds` | `HeadlineInv` | the mark is set before the alert, so the headline between the two (`UnderWay`) is remembered since its detection |
| `GemCapHolds` | `GemInv` | a gem that waits for `put` has room left, unless midnight has passed; all of it per process, since the count is in memory (`gem_scanner.py:98`) |
| `GapsFilledHolds` | `StoreInv` | series in memory, snapshot files and metadata are each whole up to a time of their own (`SeriesWhole`), and what is being fetched covers what is missing (`Filling`) |
| `LiquidationsCountedHolds` | `WindowInv` | buffer and deque together repeat what was received, from the end and in order, as far as the deque reaches |
| `ScannedSeededHolds` | `PairsCovered` | of pairs of every tier, since a promotion may raise any; new pairs wait in `toSeed` |

  The last needs what a recursive function computes for every list (`WithoutEntries`:
  the entries that remain are those not taken out).  That is an induction over data
  which the provers have no rule for; it is done by the least counterexample
  (`LeastIndex`, from `WellFoundedInduction`; `UpTo`).

Every inductive invariant was model-checked before it was proved, on the instance of
its run.

Only model-checked: the liveness properties (`LockReleased`, `EventuallyDecided`,
`FallbackDrained`, `DecidedIsRecorded`, `EventuallyResumes`, `EveryCallReturns`,
`EveryCycleEnds`, `DeadSocketReplaced`): fairness needs ENABLED, which is out of the
provers' reach.  Every safety invariant and action property of a passing run is a
theorem.

No module uses a RECURSIVE operator, so that each can be proved about.

## 5. What the modelling showed and no property says

Read off the code while modelling; where there is no hazard of its own in `PROJECT.json`,
it is recorded here.

* Router: the result of `put()` is ignored on a delivery retry (`signal_router.py:574`), so
  a full queue drops the signal; a message that was posted although the request timed
  out is posted again (`:555`); `restore()` is never called (`:234`); concurrent highlights can
  pass the daily limit (`:719`).
* Trades: stop, expiry and invalidation close nothing on the exchange
  (`trade_monitor.py:613`); `close_partial` sells the ordered quantity even if a limit entry
  was not filled (`order_manager.py:343`); one escaping exception ends a round early
  (`trade_monitor.py:399`); a trade averaged beyond its stop is cancelled
  without an outcome, so the breaker and the statistics never see its loss, and its
  position stays open (`trade_monitor.py:575`).
* Breaker: a loss recorded after the cooldown resumes the breaker first, which starts
  a fresh window (`circuit_breaker.py:154`); a job that asked before its symbol was suppressed
  still enqueues; neither the pause nor a suppression holds back what is queued
  (`signal_router.py:327`).
* Scan: signals of confidence 50 to 64 are kept as WATCHLIST while 65 to the channel's
  minimum are rejected; re-running the detector per channel drops the pair profile and
  the regime context (`scanner/__init__.py:2226-2240`); an unknown spread counts as 0.01 %.
* Pairs: `/update_pairs spot` prunes the pairs that only the futures market lists.
* Order flow: futures streams carry no trades, so their CVD stays 0; the open-interest
  trend counts readings, not time; a restart would start the poller twice.
* Watchdog: a failed index fetch answers a neutral 50, so an extreme is announced again
  after an outage; a headline is skipped in the first hour of the host's uptime (default
  0.0 against a monotonic clock).
* Gems: thresholds set by `/gem_config` last until the next symbol is scanned, which calls
  `adjust_for_regime`; a restart forgets the day's count (`gem_scanner.py:98`);
  cap 0 still lets one signal a day pass; the comment at `main.py:290`
  calls the scanner off by default, the configuration turns it on.
* Learning: `FeedbackLoop`, `TierManager` and the filter's `record` have no caller.

What the proofs brought up:

* A full fetch that stands for a gap and fails leaves the whole gap missing beside the
  snapshot (`Asked` in CandleStore, `historical_data.py:376`): the losses that
  `FilledGapsAreWhole` excepts had been stated too small for it, and the instance of the
  run was too small to show it.
* A hole remains if filling a gap takes longer than the buffer of 5 candles
  (`FillAssumption`); nothing in the code limits the time of a download.
* The plan of a RANGE_REJECTION has targets at 0.9 and 1.3 of the risk
  (`signal_quality.py:693`), which rounding can bring together when the risk is a few units
  of 1e-8.  What keeps such a signal from the queue is that no scanned channel lists the setup.
* `/confidence` takes any number (`commands/channels.py:61`).  Below 65 a swing or spot
  signal passes with the tier WATCHLIST, which is meant for scalps; hence `BarAssumption`.

## 6. What is not modelled

* Persistence of the router: `_persist_state` writes keys that no code reads back, since
  `restore` has no caller.  Highlights, recaps and the weekly scoreboard; a Telegram message that was posted although the call failed.
* The content of messages, alerts, logging, statistics that nothing reads back.
* Exceptions that escape an evaluation of the trade monitor or `_process`.
* Why an open signal is invalidated and how far its stop trails: any reason, any of a
  set of distances.
* What remains on the exchange after a stop, an expiry or an invalidation: no code
  closes it, and no document speaks of it.
* How indicators, sweeps, gaps and chart patterns are computed from candles: loops over
  floating-point arrays; their results are inputs.
* The order-book spread cache, the suppression tracker (it only counts), the API limit
  trackers (the same windows as the limiter's, a second time).
* The remote evaluators and fetches (`openai_evaluator.py`, `ai_engine.py`, `onchain.py`,
  `exchange.py`): they answer anything.
* Backtester: it passes `ai_insight` to every `channel.evaluate` (`backtester.py:995`), which no
  channel takes; each call raises a TypeError that is caught and skipped, so that a
  faithful model of it has no trade.  `src/simulation` is imported by its test only.
* Code that nothing runs: `scanner.py`, `scanner_core.py` and the helpers beside it,
  `TierManager`, `FeedbackLoop`, the adaptive detector and thresholds.
* Charts, formatting, telemetry, configuration, deployment.

## 7. Plan

Done: SignalRouter, SignalQueue, TradeMonitor with OrderManager, CircuitBreaker,
RestClient; Scanner, SignalPipeline with the pure modules below it, RegimeDetector, and
the ten services; proofs of all their safety properties.

Next, in this order:

1. A lossy queue with at most one duplicate as an abstract specification that
   SignalQueue implements and SignalRouter assumes.
2. Type correctness of the services.
3. Highlights and their daily limit.
