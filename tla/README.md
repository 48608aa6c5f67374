# Verification of the Hermes trading bot

TLA+ modules, TLC configurations and TLAPS proofs about the crypto trading bot of this
repository: one Python process (asyncio) that trades spot and futures, on paper or on an
exchange through ccxt, from algorithmic strategies or from signals of Telegram channels.
Source paths are relative to the repository root.

- [1. The system](#1-the-system)
- [2. What makes it hard](#2-what-makes-it-hard)
- [3. Modules](#3-modules)
- [4. Runs](#4-runs)
- [5. Theorems](#5-theorems)
- [6. Findings](#6-findings)
- [7. Not modelled](#7-not-modelled)
- [8. Plan](#8-plan)

## 1. The system

Everything runs as tasks of one event loop over shared singletons: `risk_manager`,
`execution_engine`, `event_bus`, `settings`, `bot_registry.current_bot`. A task keeps the
processor until it awaits, so code between two awaits is atomic, and everything across an
await may meet the others. There are two locks (connecting to the exchange, and fetching the
history of a channel). The
process may be killed at any await; PostgreSQL keeps what was committed, and
`TradingBot.initialize` rebuilds the rest.

| Component | Source | State | Operations | Correct when |
|---|---|---|---|---|
| Risk manager | `src/risk/risk_manager.py` | day's PnL and its date, limit latch and time of its lift, pause, kill switch, time of the last trade, drawdown base, registered positions, profile | `on_trade_closed`, `on_position_added/closed`, `on_balance_update`, `can_trade`, `check_signal`, `pause`, `resume`, kill switch, `configure`, two account resets, `restore_daily_pnl_from_db` | the count is the day's booked PnL; a lost limit stops every entry until midnight and no longer |
| Paper account | `src/execution/executor.py` | balance, positions; tables `orders`, `trades` | `create_order`, `close_paper_position`, `reset_paper_account`, `clear_test_and_demo_data`, restore | a restart rebuilds balance and positions; no order is closed for more than it filled |
| Position exit | `src/main.py`, `src/utils/trading_math.py` | stop, target, ladder, counter of hits of the loop's copy of a position, the engine's copy, the order's rows | `_apply_trailing_stop`, `_check_position_exit`, `_on_channel_stop_hit_report`, `edit_position`, restore of the stop | exits fit the position; targets are profits; a stop never falls back to the losing side; a restart keeps it |
| Real positions | `src/execution/executor.py` | positions, stop orders on the exchange, orders in flight | `_execute_real_order`, `close_real_position`, `sync_stop_loss_order`, watch tasks, reconciliation, adoption | every fill on the exchange is booked once; memory converges to the exchange; no stop order without a position |
| Trading loop | `src/main.py`, `src/runner.py` | open positions, active symbols, last prices | `_trading_iteration`, `_process_symbol`, universe refresh | exits before entries; entries respect all limits |
| Telegram admission | `src/main.py`, `src/web/api.py` | rows `telegram_signals`; the loop's copies, the risk manager's count and the list of pairs, which it writes too | `_on_telegram_signal`, `_execute_telegram_signal`, `_save_telegram_signal`, decisions of the operator, `register_manual_position` | a position is in all books once nobody is opening it; a signal is decided once |
| Protections, sizing | `src/risk/protections.py`, `src/risk/expectancy_sizing.py` | journal of closes and locks in the database | `on_close`, `is_locked`, the size multiplier | a lock stops every entry it concerns; a source without profit stays out |
| Signal outcomes, decision logger | `src/telegram/signal_outcomes.py`, `quality_scorer.py`, `src/execution/decision_logger.py` | counters per channel in memory, rows of signals and trades, steps kept per order | `link_signal_to_closed_trade`, restore at start-up, flushing | an outcome is counted once, whichever way a position was closed |
| Event bus | `src/event_bus.py` | subscribers, history | `publish`, `subscribe`; inside the process only, its subscribers send notifications (`main.py:511`) and push to web sockets (`websocket.py:37`) | a failing handler harms no other |
| Exchange connections | `src/execution/executor.py` | clients and watch tasks per market | `initialize`, `_ensure_exchange_connected`, `_start/_stop_watch_task(s)` | one live client and one watcher per market; no position is forgotten |
| Settings store | `src/web/settings_store.py`, `src/config.py` | settings, table `bot_config` | `apply_settings_update`, load | what is saved is what runs |
| Outcome tracker | `src/execution/trade_outcome_tracker.py` | tracking rows | tracking, reading back | numbers nobody decides by |
| Channel monitor and parsers | `src/telegram/channel_monitor.py`, `*_parser.py` | chats heard, ids of their rows, messages on their way | start-up, adding and deleting channels, the handler of messages, expressions and the cascade of language models | what is heard is what is listed; no signal ends without a trace |
| Channel history | `src/telegram/history_backfill.py`, `signal_outcome_simulation.py`, `signal_quality_training.py` | rows `historical_signals` with status and label | fetching older messages, replaying signals on candles, choosing the rows to learn from | no hole below the cursor; every signal with candles gets a label of the right sign |
| Backtest | `src/backtest/engine.py` | one simulated position | walk over candles | same exits as live trading |
| Strategies, ML, market data | `src/strategy`, `src/ml`, `src/data_ingest` | models, caches | indicators, training, fetching | numeric |
| Dashboard, auth, deploy agent | `src/web`, `scripts` | sessions, running deploy | endpoints | thin layers over the above |

How they meet. The loop calls the engine to close and the risk manager to count. The Telegram
handler, the dashboard and the loop call `create_order` and the two `close_*_position`
methods, each with its own copy of what it believes is open (`TradingBot.open_positions`
against `ExecutionEngine.paper_positions`/`real_positions`). The engine talks to the exchange
and the database, publishes trade events, and, for closes it discovers on the exchange, calls
the risk manager itself. After a close the journal, the locks, the record of the channel and
the decision log are written by the closer, each closer another part of them; the entries read
them. The settings store reconfigures all of them at run time.

## 2. What makes it hard

`PROJECT.json` lists each hazard at its line. The kinds that dominate:

- **Atomicity.** Paper opening changes memory first and writes afterwards; paper closing
  writes first and changes memory afterwards; real closing changes memory first again. A
  crash, or another task, meets any of these half-done.
- **Restart.** Balance, positions, the reached stop of a ladder and the day's loss are
  recomputed from orders, trades and signals, by other code than the one that produced them.
- **Stale copies.** The loop, the engine and the rows each keep a position's plan; the loop's
  copies, the risk manager's count and the list of pairs are told of a position at different
  moments.
- **Reconfiguration.** The clients of the exchange are closed and made anew while tasks hold
  them, and a watch task is cancelled wherever it is.
- **Long requests.** A message may be with a language model for minutes, a look-up of a channel
  for seconds, while the list of channels changes.
- **Progress.** Fetching and replaying go on from what the rows say; a row that says nothing
  can hold them up for ever.
- **Time.** A lift of the daily stop is an absolute time computed by one call and used by
  another; the day is rolled by whichever call comes first after midnight.
- **Numeric edges.** Prices jump over targets; an order fills beyond its first target.

## 3. Modules

| Module | What it is |
|---|---|
| `DailyLossStop` | abstract: what the daily loss limit promises, with an eager midnight |
| `RiskManager` | detailed: `src/risk/risk_manager.py` and its callers; implements `DailyLossStop` |
| `PaperAccount` | `ExecutionEngine` in paper mode with its callers, split at the awaits |
| `PositionExit` | one paper position from open to closed: ladder, stops, edits, restart |
| `RealPosition` | one futures position on a real account: exchange, rows, memory and the five tasks that touch it |
| `SignalEntry` | how positions come to be: signals, operator, manual orders, strategies, beside closes and the refresh of the pairs |
| `CloseAftermath` | what follows a close: journal, locks, sizing, record of the channel, decision log |
| `Connections` | clients of the exchange and watch tasks while the settings change |
| `SignalLabels` | pure: the replay of a past signal on the closes after it, and its label |
| `ChannelHistory` | fetching the history of a channel and replaying its signals |
| `SignalText` | pure: classifiers, expressions and language models by the marks of a text |
| `ChannelIntake` | the list of channels, the chats heard, and messages on their way |
| `RiskManagerProofs`, `PaperAccountProofs`, `PositionExitProofs`, `RealPositionProofs`, `SignalEntryProofs`, `CloseAftermathProofs`, `ConnectionsProofs` | the theorems about the module named, [below](#5-theorems) |
| `ChannelProofs` | the theorems about `ChannelHistory` and `ChannelIntake` |
| `MC...` | small instances for TLC |

`ChannelHistory` and `ChannelIntake` extend their pure modules; the others stand beside each
other, each with the state it shares with a neighbour reduced to what it needs: `SignalEntry`
has no prices (`PositionExit`), `CloseAftermath` books a close in one step (`PaperAccount`,
`RealPosition`), `Connections` has positions only as what is known and what the database calls
open. Every module defines a type invariant. `RiskManager`, `PositionExit` check it in a run;
in the others it documents the state and is checked, where it is needed, as a part of the
inductive invariant that is proved.

### RiskManager

Each method runs without an await, so each call is one action: `TradeClosed` is
`on_trade_closed` (`update_daily_pnl`, `record_trade_time` and
`check_daily_loss_limit_reset`, in that order), `IterationHead` is the head of
`_trading_iteration` with its own call of `check_daily_loss_limit_reset`, `BalanceUpdate` is
`on_balance_update` or a balance that could not be read. The variable `daily` holds
`daily_pnl`, `daily_pnl_date`, `daily_loss_limit_reached` and `daily_loss_reset_time`; a
midnight is named by its day. `booked` is the database, the sums of the day's trades per
mode, written before `on_trade_closed` is called. Two history variables make the properties
exact: `complete` (the count accounts for the whole database: an operator's reset, or a
restore that failed to read, forgives part of the day) and `enforced` (the limit the count
was last compared with: `configure` does not compare again).

Order of callers is left free: any call may come at any time in any mode.

### PaperAccount

Tasks `signal`, `manual` (the dashboard's `/manual/order`), `loop` and `api` (the dashboard's
`/positions/close`) each hold a program counter. Opening: `CheckFree`, then at the price
`Buy`, `SellShort`, `SellLong` or `RejectSell` change memory in one step, then `InsertOrder`
(or `InsertFails`), then `Register` in the loop's copy. Closing: `LoopStartsClose` or
`ApiStartsClose` compute amount and fee, `RecordClose` (or `RecordFails`) commits the closing
order and the trade, `ApplyClose` changes memory, `LoopSettles` the loop's copy. `Restart` may
happen at any point; `RestoredPositions` and `RestoredBalance` are
`_load_open_positions_from_db` and `_restore_paper_state_from_db`. Fees are a rate per unit of
volume, slippage is part of the price, and two buys average in as in the code.

### PositionExit

The position's three copies are `bot`, `engine` and `order`. One loop iteration is
`IterateQuietly` (trailing stop, nothing to close) or `IterateToClose` followed by
`SettlePart` or `SettleAll`: the await of the close lies between, and `loop` holds the local
variables that survive it (level, part, the stop, the counter and the levels as they were
read). Edits and a crash may come in between. `Restart` rebuilds both copies from `order` and
the link to the signal, which `Link` writes only at the very end of the opening. History
variables: `fired`, the levels that closed something, and `moved`, whether something other
than the ladder set the stop. That two tasks may close at once is `PaperAccount`'s subject;
here one closes at a time.

### RealPosition

The exchange (`held`, `stops`, `fills`), the rows (`orders`, `trades`), the engine's position
(`pos`), the loop's copy (`bot`) and, for each of five workers, the job it is in the middle of
(`work`). The workers are an opening (`_execute_real_order`), the loop (reconciliation and
exits), the report handler of a channel, the dashboard and the watch task.

- Opening: `OpenSend` (the order leaves, and the exchange executes it or not), then
  `OpenUnconfirmed` or `OpenConfirmed` (row, memory in place of a position adopted meanwhile,
  stop order).
- Closing, by the loop, a channel or the dashboard: the stop is cancelled (`LoopCloses`,
  `ChannelCloses`, `RequestCloses`); the sale fails, unconfirmed though it may have happened,
  or succeeds (`CloseFails`, `CloseSells`); the memory forgets the volume (`CloseForgets`); the
  rows and the loop's copy follow (`CloseRecords`).
- Sales the bot did not make, by a stop or by the owner of the account: the watch task
  (`WatcherHears`) or the reconciliation (`ReconcileSuspects`, then `ReconcileSettles`,
  `ReconcilePostpones` or `ReconcileWritesOff`) finds them; `SettleForgets` and
  `SettleRecords` are the two halves of `_record_external_close`.
- `ReconcileGrowth`, `ReconcileHeld`, `Adopt`, `Edit`, and `Restart`, which rebuilds `pos` and
  `bot` from the rows and rearms the stop.

What else may happen is a constant, so that a run names what it allows. `Mishaps`: an opening
confirmed in part; contracts the bot did not buy; a wrong answer of the exchange; a crash while
a worker is busy; a cancellation that is lost; a position adopted before the loop has dropped
its copy of the last one; a position opened or adopted while a row of the symbol that nobody
tracks still has something open (`NoOtherRow`). `Overlaps`: the pairs of workers that may be in the middle of
something at the same time (steps that take a single action need no permission but that of
the workers that are busy).

Abstractions. Volumes are numbers of contracts, and the history of the account fits the
position when the volumes are equal (15 % in the code). Every position has a stop price;
prices, fees and leverage are left out. A confirmed close books the volume that was asked for,
as the code does. A new stop is placed for the contracts the exchange reports. The awaits
inside `OpenConfirmed`, `Adopt`, `Edit` and the write-off are not split. The spot branch, the
retries of a request inside one call and the manual recovery of an unconfirmed opening are
left out.

### SignalEntry

Tasks are the signals (each handled once, `_on_telegram_signal`), the dashboard's requests
`operator` (`decide_telegram_signal`), `manual` (`create_manual_order`) and `dashboard`
(`close_position_manually`), and the loop. Their program counters are the awaits between which
the books are written: `ordering` (the engine is asked), `booked` (its memory and the row of
the order are there), `notify` (the loop's copy is set, the notification is being sent),
`settle` (the risk manager has counted; the row of the signal is written last), `closing`, and
`dropping` (the loop edits a notification before it drops a copy whose position is gone).
`HandlerRejects`, `HandlerKeeps` and `HandlerExecutes` stand for everything
`_on_telegram_signal` looks at; which of the reasons of a rejection it was is left out.
`NotifyFails` is the `KeyError` of `main.py:1354`. `RefreshStarts` takes the new list of pairs,
`RefreshEnds` sets it after the candles were awaited. `tracked` holds `open_positions`,
`counted` the risk manager's positions, `active` the list the loop visits. The account is the
paper one; there is no restart (`PaperAccount`, `PositionExit` and `RealPosition` have theirs).

`Overlap` tells whether two tasks may open, or two close, on one pair at the same time, and
whether one may open it while the loop drops its stale copy. The code does nothing against it.

### CloseAftermath

`Closers` are the loop, the report handler of a channel, the dashboard and the exchange
(`_record_external_close`). A close is one step of `Book`, then comes what this closer does:
`on_close` commit by commit (`WritesEvent`, `Cooldown`, `Guard`, `Streak`, or `CommitFails`),
`Link`, `Flush`, or the dashboard's own `DashboardTallies`. Entries are `LoopAsks` (locks),
`LoopSizes` (multiplier), `Opens` or `Refused`, and `HandlerSizes` for a channel, which asks for
no lock. `RowSaved` is the row of the signal, written after its position was opened.
`RestoreReads` and `RestoreApplies` are the two sides of the await in
`restore_channel_stats_from_db`. Locks expire at any time. `Races` admits what breaks
`StatsAgree`: a close during the start-up or before the row is saved, one of a partly closed
position by the dashboard, and a failing commit under a channel's close.

### Connections

One action per await of `initialize` as called from `apply_settings_update` (`UpdateSets`,
`UpdateStops`, `UpdateStopped`, `UpdateCloses`, `UpdateConnects` or `UpdateFails`,
`UpdateClears`, `UpdateRestores`, `UpdateOther`, `UpdateEnds`), of `_ensure_exchange_connected`
(`RequestMarket`, `RequestLocks`, `RequestConnects` or `RequestFails`) and of a watch task
(`LoopLooks`, `LoopHears`, `LoopBooks`, `LoopDies`). A client is a number with the exchange and
the market it was made for; `open` holds those whose sessions are open, whoever knows them.
`Alone` excludes requests and other updates while one update runs; `DbFails` lets the restore of
the positions fail.

### SignalLabels, ChannelHistory

Messages are numbered in the order they were posted, and each has a kind. A press of the button
is `Press` (it waits for the lock of the channel), `Locks`, `Reads` (the cursor,
`MIN(telegram_message_id)`), `Fetches` (a batch below it) and `Stores` (one message, one
commit). A request to replay is `SimStarts` (the oldest signals without a label), then
`SimFetches` and `SimWrites` for each. What the hours after a signal close at is chosen in
`Init`; `Walk` is the position after each close (`Bar`: stop, furthest target, shares, the stop
after a target) and `Simulate` what its end is called. `Plan` is what the parser found, also with
targets on the wrong side or shares that grow; the shares of a text add up to the whole, because
`extract_tp_weights` divides them by their sum. Prices are integers and gains are units times ways of the price, so that
a gain has the sign of the percentage in the code. `Fails`, `SimFails` and `Restart` may come
anywhere, within `MaxFaults`.

### SignalText, ChannelIntake

A text is a set of marks, one for each thing the patterns look for, and the pairs it names by
the pattern that finds them; `parse_with_regex`, the classifiers and `extract_stop_hit_pair`
decide on those. The language models answer with anything (`ReadBy` says what each parser makes
of it). `flight` follows a message: `Arrives`, `Downloads` (a picture), `Asks` (one model after
the other), `Judges` (`_get_channel_settings`). Beside it run the start-up (`Connects`,
`ReadsList`, `LooksUp`), the dashboard's `Creates`, `Adds`, `Deletes`, `TakesOff`, and
`Restart`. `live` is a history variable: the channels some look-up has found. With
`Overlap = FALSE` requests about one channel do not overlap each other or its being looked up.

## 4. Runs

Deadlock is checked except in `close_aftermath` (every position is opened and closed once),
`connections` and `channel_intake` (clients, updates, rows and messages are used up).

| Run | Instance | What it shows |
|---|---|---|
| `risk_daily` | 1 symbol, one size, PnL of -1 and 1, profiles with limits 1 and 2, 2 days, booked sums within 2 | `DailyInv` (inductive), `BookedLossIsCounted`, `LossStopsEntries`, `KeepsTheDailyPromise` (refinement), `StaleStopLifts` (liveness) |
| `paper_account` | 2 symbols, tasks signal, manual, loop, 4 orders, volume 2, prices 2 and 4 | a crash at any await loses neither position nor money |
| `paper_stress` | 1 symbol, tasks overlapping freely, one failing write, 3 orders | whatever happens, an order that closed something is never restored as an entry |
| `position_exit` | 6 setups, 6 prices, 2 edits, trailing off and 25 %, fees 5 % | see the properties below |
| `real_position` | 2 openings of 2 contracts, account of 2, 2 stops, 2 sales; the watch task beside the channel or the dashboard; partial confirmation, foreign contracts, crash, wrong answer | `BookedOnce`, `LedgerCovered`, `NoStopLeftBehind` |
| `real_liveness` | the same with 1 opening and what is adopted, and `second row` | `GoneIsForgotten`, `HeldIsTracked` |
| `signal_entry` | 2 pairs, 2 signals on one of them, the three requests of the dashboard, 2 lists of liquid pairs, 2 orders, limits of 2 positions and 1 of strategies; `Overlap = FALSE` | `OpenIsTracked`, `OpenIsCounted`, `OpenIsLinked`, `DecidedStays`, `VisitedAgain` (liveness) |
| `close_aftermath` | a channel with 2 positions, a strategy with 1, results -1 and 2, guard after 1 stop, streak of 2, 1 restart; `Races = FALSE` | `LockedEntersNot`, `StatsAgree`, `ExcludedForGood` |
| `connections` | 2 exchanges, 2 markets with a position each, 4 updates one after another, 2 requests at once, 7 clients; `Alone = TRUE`, `DbFails = FALSE` | `ClientsInUse`, `WatchedOnce`, `NothingForgotten` |
| `channel_history` | 6 messages of all kinds, 2 fetched and 2 replayed at a time, 1 waiting press, 1 fault | `HistoryIsWhole`, `LearnsSoundLabels`, `Backfilled` and `Labelled` (liveness) |
| `channel_intake` | 2 channels, 4 rows, 1 restart, 1 message of 7 contents, 2 models with keys; `Overlap = FALSE` | `HeardAsListed`, `JudgedByItsChannel`, `NoSignalUnseen` |
| `exit_gap` | one ladder, no edits | [finding](#6-findings) |

The properties, and why each could fail:

- `BookedLossIsCounted`: once the counter is today's it equals the database, over midnights,
  restarts and mode switches. A call that forgets to roll breaks it.
- `LossStopsEntries`: neither the strategies' gate nor the engine's opens after the day's
  trades lost the limit in force, whichever of restart, other mode or late roll came between.
- `KeepsTheDailyPromise`: `RiskManager` implements `DailyLossStop`. Reading an old counter as
  0 and an old latch as no stop, each call is an abstract step or a stutter.
- `StaleStopLifts`: a stop of an earlier day is gone after the next iteration unless the kill
  switch halts the loop. Without the loop's own check a stopped day would never end, because
  only closes would look.
- `PositionsAreBooked`, `BalanceIsBooked`: when no task is half-way, memory is what a restart
  would rebuild. Partial closes, fee shares, shorts and averaged entries all enter.
- `ClosesFitTheOrder`: trades never close more of an order than it filled.
- `EntriesAreNotExits`: see `paper_stress`.
- `ExitsFitThePosition`: sold plus left is what was bought, and the counter of hits is the
  number of trades (a restart depends on it).
- `RestartKeepsThePlan`: a restart reproduces the loop's position field by field, the stop
  reached by the ladder included, as long as the ladder alone moved it and the signal is
  linked.
- `TakeProfitIsAProfit`: a target the fill had already passed never closes at a loss.
- `StopStaysBehindPrice`: the stop set by a partial take profit is not hit at that very price.
- `StopKeepsItsSide`: the stop a partial take profit sets is no farther than the one it replaces,
  or than the entry. The stop of a signal is compared with the market, while its order fills at the
  price the channel gave, so that a stop may lie beyond the fill; the first take profit then moves
  it back, half the way to the entry (`main.py:2975`), but never to the losing side. The second part says
  the same of restarts, on plan.
- `BookedOnce`: no sale on the exchange is in two trades, whoever of closer, watch task and
  history search finds it, over crashes between a sale and its rows.
- `LedgerCovered`: when nobody is at work, what the rows have open is tracked, or was sold by a
  sale no trade knows of: a crash before the rows, or a sale that was not confirmed.
- `NoStopLeftBehind`: no step leaves a stop order without its position. Exempt is a position
  of which the rows know less than the memory does: the reconciliation raises a volume in
  memory only, and a restart loses it.
- `GoneIsForgotten`, `HeldIsTracked`: the memory follows the exchange in both directions.
- `OpenIsTracked`: a position nobody is opening any more is in the loop's copy, else nobody
  looks at its stop. The loop deletes copies after awaits of its own, and a signal's handler
  overwrites one.
- `OpenIsCounted`: the risk manager counts it. It is told only after the notification was sent,
  when the position may be closed again: a pair may stay counted without a position (the safe
  direction), never the reverse.
- `OpenIsLinked`: the row of a signal, written last, names the order; a restart takes the ladder
  from there.
- `DecidedStays`: an executed signal is never decided again, although the operator's request
  writes the row after awaiting the order.
- `VisitedAgain`: a refresh that began before a position was opened drops its pair from the
  list; a later one brings it back.
- `LockedEntersNot`: the lock is read before two awaits; no other task's close writes a lock that
  concerns a strategy meanwhile. A report with the reason of a stop would.
- `StatsAgree`: with nobody at work, the counters in memory are what a restart restores from the
  tables, closes in parts included.
- `ExcludedForGood`: a source with a mean of 0 or less that has nothing open, and for which nobody
  has passed the question of the size (`Shut`), stays so and never trades again, restarts included.
  This is what the code does; an operator should know.
- `ClientsInUse`, `WatchedOnce`: with nobody connecting, the open clients are those in the table,
  each for its own market and the exchange in force, and each market has one watch task, the one
  that can be cancelled. Two requests for one market and a task that is slow to die could break it.
- `NothingForgotten`: a task cancelled between taking a position out of memory and booking its
  trade loses nothing, because the positions are read again.
- `HistoryIsWhole`: whatever fails between two commits, the stored part has no holes, so the
  oldest row is all that has to be remembered; and "the start is reached" is true.
- `Backfilled`, `Labelled`: pressing on stores everything older and labels every signal that has
  candles, past those that leave no row or get no label.
- `LearnsSoundLabels`: however the price jumps, no replay whose shares do not grow from target to
  target sells more than the position, and where the targets lie where the trade wins, the
  classifier's target is 1 exactly for signals that lost. A level may count twice, so that the
  first is a statement about sums of earlier shares; without either condition it fails (see
  [Findings](#6-findings)).
- `HeardAsListed`: chats heard and rows listed agree once requests about a channel are over,
  around restarts and failed look-ups.
- `JudgedByItsChannel`: a signal falls to the settings for everything only if the row its channel
  had when the message came is gone or cannot be read.
- `NoSignalUnseen`: a message ends without a trace only if it is a known report or has nothing to
  read; no report becomes a signal, whatever the models answer.

Bounds and why they are enough. Two days give one midnight with everything before and after
it; the sum of a day is bounded because only its relation to the limit matters, and profiles
with two limits cover a limit that is changed below or above the count. Four orders on two
symbols give open, partial close, full close and a re-entry beside another symbol; the
volume 2 halves once, which is where fee shares and remainders differ. The prices of
`position_exit` lie below the stop, between stop and entry, on the entry, on the first target,
between the second and third, and on the last, so that every jump over one or two targets
occurs; the setups differ where the code branches (own shares, shares of the wrong length,
break-even rule, no stop, short filled beyond its first target, stop beyond the fill, single target,
not a signal).
Two contracts, two openings and two sales of `real_position` are a partial close and the rest, or a
sale, its late discovery and the position after it. The run is an instance of the hypotheses of
`RealPositionProofs`; longer sequences than it has room for are the theorems' part. One of them
gave the mishap `second row`, because the code does not ask for other open rows before it opens: a
stop that sold less than its row says, since the owner had sold some of it, leaves the row open
and nothing tracked; another position is opened; a restart makes one position of both rows, as old
as the older, and looks up the booked sales of the newer alone, so that the stop's sale is booked
again. It takes foreign contracts and three sales.

`signal_entry` has two signals for one pair, so that the second meets the first in each of its
phases, while strategies use the other; two orders are an entry and a re-entry, or one on each
pair; each limit lets a case through and stops one. `close_aftermath` has two positions of a
channel (a streak, two outcomes to count) and a strategy that may be locked by either; one
restart comes at any point. `connections` switches exchange, market and back while two requests
want the same market; seven clients are the first, and those of the updates with an on-demand
one between. `channel_history` has a message without a text, a report, a signal without an
entry, one without candles and two that are replayed, fetched in three presses; the candles jump
over targets, take them and hit stops before and after. `channel_intake` has a content for each
branch of the handler; four rows list two channels, delete and list them again, around a
restart.

The overlaps of `real_position` are the ones under which its properties hold. The code forbids
no other: an opening beside anything but the adoption, the loop beside a channel's report, a
request or the watch task, and a request beside a report do break `BookedOnce`,
`LedgerCovered` or `NoStopLeftBehind` when they are added, and so do the mishaps `lost cancel`
(`NoStopLeftBehind`), `stale copy` and `second row`. They are hazards in `PROJECT.json`. The properties say
what the engine keeps as long as closes of one symbol do not overlap.

Fairness. `risk_daily` assumes weak fairness of the two halves of a loop iteration: `run`
repeats `_trading_iteration` with a sleep of a minute and catches every exception, and each
half is enabled until taken. Nothing is assumed of closes, operators, the exchange or
midnight. `real_liveness` assumes weak fairness of the steps of a job under way (every request
has a timeout and ends in a result or an exception) and of the loop's check of its own copy,
strong fairness of the reconciliation (each iteration begins with it, but at any moment a
worker may be in its way), that a search fails to be postponed for ever (a position grows
older than `RECONCILE_MIN_AGE_SECONDS`), that adoption is not skipped for ever, and that the
process is restarted finitely often. `signal_entry` assumes weak fairness of the refresh: the
scheduler runs it again and again and every request has a timeout. `channel_history` assumes
that both buttons are pressed again and again, as their descriptions ask the operator to, and
that a request under way goes on unless it fails, which happens `MaxFaults` times; the phases
are enabled until taken, so weak fairness is enough. All other runs check safety only.

Each property of a passing run has a mutant, a plausible bug in one definition (comment
"Mutant:" in the module), under which TLC finds it violated.

## 5. Theorems

Each theorem holds for every value of the constants that satisfies the module's assumption, so
for any number of tasks, pairs, positions, channels, orders and failures; the bounds of the runs
(`MaxOrders`, `MaxRestarts` and so on) are arbitrary numbers here. Where a constant has to
exclude a sequence that breaks the property, it is a hypothesis of the theorem, and
[Findings](#6-findings) tells what it excludes.

**`RiskManagerProofs`** (hypothesis `ResetBeforeRoll = FALSE`)

- `TypesHold`: the type invariant, without the hypothesis and without the rest of `DailyInv`.
- `DailyCounterIsCorrect`: `Spec => []DailyInv`. `DailyInv` adds to the two checked
  invariants what they rest on: types with the counter never ahead of the calendar;
  `ResetTimeIsNextMidnight` (a lift is due after the counter's own day, so the branch that
  zeroes a stopped counter is never taken on it); `NothingBookedBeforeRoll` (a counter of
  another day means an empty book, so rolling to 0 is right); `LimitLatched` (the flag the
  gates read). None is inductive alone. One lemma per operator, one per group of actions.
- `BookIsCounted`, `LossesStopTheDay`: the two safety properties from it.
- `RollingKeepsThePromise`: initial states map to initial states, every step under `DailyInv`
  to a step or a stutter of `DailyLossStop`.

**`PaperAccountProofs`**

- `EntriesStayEntries`: `EntriesAreNotExits` whatever overlaps, fails or restarts. `EntriesInv`
  follows the id of an opening order through everything that holds one: trades, positions,
  loop's copies, tasks across their awaits. `HasNewest` in it says that a set of rows has a
  newest, carried along the steps.
- `PositionsStayBooked`, `ClosesStayWithin` (hypotheses `Overlap = FALSE`, `MaxFailures = 0`):
  `PositionsAreBooked` and `ClosesFitTheOrder`, with the dashboard's closes too, for any number of
  orders, parts, resets and restarts. `AccountInv` says for each symbol who may be on it (`Alone`),
  that outside the halves of an order or close the tables know a position by exactly one order with
  that much left, or by none (`BookInv`), that the loop's copy is of the position (`TrackInv`), and
  for each await of a task what it relies on when it comes back (`TaskInv`: the position it opened
  is the one it will register, half of what is left is half of what was left, the row is there and
  the memory not yet). That gives the restart's view too: `RestoredPositions` is the memory for
  every symbol no task is in the middle of.
- `BalanceStaysBooked` (the same, and no closes from the dashboard): `MoneyInv` adds that the fees in
  positions, copies and closes under way are the rate times the volume (`FeesInv`), and that the
  balance is what the books come to, `Books`, minus what tasks between two halves still owe it
  (`CashInv`). The dashboard is left out because it breaks the property, not the proof: it charges
  the whole entry fee for what a partial close left.

  The sums over rows (what is closed of an order, profits, cost of the open longs) are split by
  lemmas over finite sets: a sum over a set with one element more is the sum and the element's
  value (`Sums`), which gives what one more trade or order does to each of them.

**`PositionExitProofs`**, for every setup, price, edit, trailing distance and fee

- `TypesHold`, `ExitsFit`: `ExitInv` is the type invariant, which holds the facts about a close
  under way (the part is at least 1 and at most what is left; the counter that was read is still
  the counter), with `ExitsFitThePosition`. They hold over edits because an edit touches neither
  volume nor counter, and over crashes because a crash forgets the close.
- `TargetsAreProfits`, `StopIsLeftBehind`: add `CloseInv`, which ties the level and the stop of
  the close under way to the ladder as it was read. The ladder is sorted in the direction of the
  trade, so the levels at or above the first reachable one are profits. `StopIsLeftBehind` has the
  hypothesis `FeesCount`, that the fee of one side is at least a step of the price: prices are
  whole numbers here, and where fees are lost in the rounding two levels at thirds of a short way
  may fall together.
- `StopStays` rests on `CloseInv` for the partial closes, on `PlanInv` for the restarts.
- `RestartRebuilds`: adds `PlanInv`, the loop's stop as a function of the number of
  trades, for as long as the ladder alone, level by level, has moved it.

**`RealPositionProofs`** (hypotheses `Apart`: no two workers overlap but the watch task with a
channel's or the dashboard's close; `Mild`: no lost cancellation, stale copy or second row; crashes
at any await, wrong answers, partial confirmations and foreign contracts are allowed)

- `LedgerHolds`: `LedgerInv`, from which the rest follows. It compares three numbers: what the last
  row has open (`Owed`), the contracts held, and the sales no trade knows of (`Loose`). `RowsInv`:
  no sale is booked twice and every earlier row is closed by sales older than the last row, which is
  why a search of the account's history never meets one of theirs. `HeldInv`: what is owed is held
  or loose. `Accounted`: it is tracked, loose, or in the hands of a close that will book it.
  `PositionInv`: the tracked position is the last row's, and its stop order is large enough for what
  loose sales leave, so that once it has executed nothing is left to book twice. `CloserInv` and
  `SettlerInv` say for each await of a close or a settling what it relies on when it comes back: its
  sale is booked by nobody else, although the watch task settles the same symbol meanwhile, because
  a close has cancelled the stop order the watch task would hear of.
- `SalesAreBookedOnce` (`BookedOnce`), `OpenRowsAreCovered` (`LedgerCovered`), `TypesHold`: from it.
- `StopsAreNotLeftBehind` (`NoStopLeftBehind`): each step under `LedgerInv` replaces the position's
  stop order together with the position, or cancels it.

  Volumes are sums over sets of sales, trades and rows. The folds of the community modules are
  defined by a recursive function over subsets that takes elements in an order of its own; the
  lemmas first show that a function exists that takes them in any order and is the fold
  (`AdditiveExists`, `FoldIsAdditive`), then the laws of one element more, a part and the rest.

**`SignalEntryProofs`** (hypothesis `Overlap = FALSE`)

- `Tracked`, `IsCounted`, `Linked`, `ExecutedOnce`. `EntryInv` has the shape of the tasks, at most
  one of them opening and one closing on a pair (`OneEach`), what each phase of an opening has
  already written (`Booked`, and `RowInv` for the rows of signals), and what a close under way
  will remove (`Knows`): every order of the position, since a pair is only opened while it is free.

**`CloseAftermathProofs`**

- `LocksHold`: `LockedEntersNot`, also with `Races`. `LockInv` says that while the loop is between
  lock and order its strategy and "global" stay unlocked, because of all the others only the
  report handler writes locks, for its channel, and never reaches the stop-loss guard.
- `ShutForGood`: `ExcludedForGood`, also with `Races`. A shut source has no task that could
  write to the journal in its name, and an entry that asks for the size is refused; `PosInv` gives
  the tasks their shape, and what an entry by another source appends leaves the results of this one
  as they were (`Upto` of the longer journal, an induction over its length).
- `RecordsAgree` (hypothesis `Races = FALSE`): `StatsAgree`. `BookInv` says that the counters are
  those of the closed positions without the ones some closer still owes (`Told`), that no two
  closers owe one position, that what is owed has a row that is not linked, and what the start-up
  has read; `EntryInv`, that what is opened was new, so that no position is closed twice. A position that is told moves from owed to counted in one step.

**`ConnectionsProofs`** (hypothesis `Alone = TRUE`)

- `NoneLeftOpen`, `OneWatches`, and with `DbFails = FALSE` `AllRemembered`. The invariant says that
  the table of clients, the open sessions and the watch tasks agree (`Sound`) except while an
  update has torn them apart (`Torn`), and how far each update has got in putting them together
  (`Progress`); that one request holds the lock and wants a market without a client (`Wanted`);
  and which positions memory and watch tasks cover (`CoverInv`). `Exclusive` is what `Alone` gives.

**`ChannelProofs`**, about `ChannelHistory`

- `HistoryStaysWhole`: `HistoryInv` adds that a request under way has read the oldest row and
  stores downwards from there, everything above its place being complete.
- `LabelsAreSound`: `LearnsSoundLabels`, for every plan, any number of targets and any closes.
  `WalkInv` holds at each close of the walk, by induction over the closes: what is sold is at most
  what the first `hits` targets sell (a level that counts twice sells at most what the one it stands
  for would, where shares do not grow), and the gain of a position that is still open is not
  negative where the targets win. `LabelInv` carries it to the rows: a
  request writes only labels that `Simulate` gave.

and about `ChannelIntake`

- `ListIsHeard`, `SignalKeepsItsChannel` (hypothesis `Overlap = FALSE`): `ListInv` ties rows, ids,
  chats heard and requests under way; `FlightInv` says that a message's channel still has the row
  it had, or a newer one, or none.
- `NothingUnseen`: `SoundInv` says at each step of a message what its text can and cannot be.

Only model-checked: `StaleStopLifts`, `GoneIsForgotten`, `HeldIsTracked`, `VisitedAgain`,
`Backfilled`, `Labelled`: liveness under fairness is out of the prover's reach. Every invariant and
action property of the passing runs is proved.

Induction. The library's induction theorems take a predicate as a parameter, which no installed
prover instantiates. Where a proof needs induction over numbers (rows of the journal, closes, orders)
it takes the set of numbers that refute the claim and its least element
(`NatLessThanWellFounded`, `WFMin`); over finite sets, the least cardinality of a set that does.

## 6. Findings

`exit_gap` is a run whose property states what a comment says and which TLC refutes; the
quotation is in `PROJECT.json`: after a jump over a target the next target fires twice, because
the counter of hits is raised by one and not to the level that fired.

The constants below exclude sequences under which a property of a passing run fails. They are
in the modules, so that setting them shows the sequence:

| Constant | What happens otherwise |
|---|---|
| `ResetBeforeRoll` (`RiskManager`) | an account reset between midnight and the first call of the day leaves yesterday's lift scheduled; the close that reaches the limit lifts it at once |
| `Overlap` (`PaperAccount`) | the loop and the dashboard close one position at once and book it twice |
| `Overlaps`, `Mishaps` (`RealPosition`) | the same on a real account, a lost cancellation of a stop, a copy the loop has not dropped yet, a position opened beside an open row nobody tracks |
| `Overlap` (`SignalEntry`) | two tasks open one pair: the second is booked beside the first; an opening while the loop drops its stale copy loses the new copy |
| `MaxFailures` (`PaperAccount`) | an order whose row cannot be written stays in memory until a restart loses it; a close whose rows cannot be written stays open |
| `"api"` in `Tasks` (`PaperAccount`) | the balance: a close from the dashboard of what a partial take profit left charges the whole entry fee again |
| `Races` (`CloseAftermath`) | an exchange close during the start-up is counted twice; the dashboard counts the last part of a position as the whole; a failing commit leaves a channel's outcome uncounted until the next restart |
| `Alone` (`Connections`) | a client connected on demand while `initialize` awaits is left open with its watch task, or serves the exchange that was just left |
| `DbFails` (`Connections`) | the positions are dropped before the database is read; when it cannot be, a real engine goes on without any |
| `Overlap` (`ChannelIntake`) | a channel deleted while its name is looked up is heard until the next restart |
| `Limit`, `SimLimit` (`ChannelHistory`) | as many messages without a text in a row, or as many signals without candles, as one press takes are fetched again by every press |

Seen while modelling: a restart in real mode takes the balance of the moment as the drawdown
base and hides a drawdown that has happened; a restart clears the kill switch although
`README.md:557` says only an operator does; an account reset lifts the operator's pause; a
restart forgets a daily stop that a later gain of the same day brought above the limit; a manual
close of what a partial take profit left charges the whole entry fee again; editing only the take
profit takes the stop back to where it was opened; a crash between an order and the saving of its
signal loses ladder, shares and rule; the first partial take profit loosens a stop that
had passed the entry, by trailing or because the order filled behind it; an opening order whose row cannot be written stays in memory until a
restart loses it; a close of a real position that fails after its stop was cancelled leaves the
position without one; two requests of the operator for one pending signal both buy; a replay with
shares 10, 40 and 10 of 60 sells 80 when the price passes the second target twice
(`signal_outcome_simulation.py:133` counts hits, `:149` takes the share of the level), and nothing
ensures that targets lie on the winning side, although the docstring takes partial take profits for
profits by construction.

## 7. Not modelled

`components` in `PROJECT.json` gives the status of each part and what is left out of those
modelled in part. Not modelled at all:

- strategies, features, models of machine learning, the classifier of signals and the size of the
  multiplier: formulas over floating point numbers without a protocol;
- the backtest: one thread over candles, apart from the running bot;
- the event bus: a call of each subscriber inside the process; none of them changes what trades;
- the outcome tracker: it writes rows about prices after a trade that no decision reads;
- the wording of patterns, formatting, notifications, logging, encryption, HTTP clients, read-only
  endpoints, authentication, migrations, the dashboard page and the deploy agent.

## 8. Plan

Done: the modules above with their theorems. What would add most from here:

1. For `RealPosition`: an abstract ledger of sales, open and booked, which it implements under the
   hypotheses of its theorems; the spot branch; the manual recovery of an unconfirmed opening.
2. `SignalEntry` on a real account and with a restart, so that adoption and the restore of the
   loop's copies meet the handlers.
3. Two messages of one channel in `ChannelIntake`, a signal that is still being read and the report
   of its stop (`channel_monitor.py:137`), composed with the closes of `PositionExit`.
4. The replay of `SignalLabels` against `PositionExit` on the same prices: where the two walks over
   a ladder part ways.
