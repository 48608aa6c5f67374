----------------------------- MODULE RiskManager -----------------------------
(***************************************************************************)
(* The process-wide risk manager (src/risk/risk_manager.py): the daily     *)
(* loss counter with its lazily rolled UTC day, the pause, the kill        *)
(* switch, the cooldown, the drawdown base and the registered positions.   *)
(*                                                                         *)
(* Every method runs without an await, so a call is one action.  Who calls *)
(* it when is left open: the trading loop, the dashboard, the Telegram     *)
(* handlers and the settings store share the one instance.  Restarts lose  *)
(* all of it except what the database holds.                               *)
(***************************************************************************)
EXTENDS Integers, FiniteSets, Folds

CONSTANTS
  Symbols,        \* trading pairs
  Sizes,          \* position sizes, in percent of the balance
  Pnls,           \* realised PnL of one close, in USDT
  Equities,       \* equities the loop may compute
  StartupCapital, \* settings.startup_capital_usdt
  Profiles,       \* the risk profiles the operator may configure
  MaxDay,         \* bound: the last UTC day
  MaxBook,        \* bound: largest gain or loss of one day
  MaxElapsed,     \* bound: clock ticks after a close that are told apart
  ResetBeforeRoll \* may an account be reset after midnight, before the
                  \* first roll of the new day?

Modes == {"paper", "real"}
NoReset == -1     \* daily_loss_reset_time is None
NoTrade == -1     \* last_trade_time is None

ASSUME RiskAssumption ==
  /\ Pnls \subseteq Int /\ Equities \subseteq Int /\ Sizes \subseteq Nat
  /\ StartupCapital \in Int
  /\ MaxDay \in Nat /\ MaxBook \in Nat /\ MaxElapsed \in Nat
  /\ Profiles \subseteq [limit : Nat, maxOpen : Nat, maxSize : Nat,
                         maxNotional : Nat, maxDrawdown : Nat, cooldown : Nat]
  /\ ResetBeforeRoll \in BOOLEAN

VARIABLES
  day,           \* today, UTC
  elapsed,       \* ticks since last_trade_time, or NoTrade
  daily,         \* daily_pnl, daily_pnl_date, daily_loss_limit_reached and
                 \* daily_loss_reset_time (a midnight, named by its day)
  paused,        \* RiskState.paused
  killSwitch,    \* RiskState.kill_switch_active
  startBalance,  \* RiskState.start_balance, the base of the drawdown
  openPositions, \* RiskState.open_positions: symbol -> size_pct
  profile,       \* RiskProfile, saved in bot_config
  mode,          \* settings.trading_mode
  loopPc,        \* where the trading iteration is: at its head, or between
                 \* the day check and the balance
  booked,        \* the database: PnL of the trades closed today, per mode
  complete,      \* ghost: daily accounts for every trade booked today
  enforced       \* ghost: the limit the count was last compared with

stops == <<paused, killSwitch>>
ghosts == <<complete, enforced>>
vars == <<day, elapsed, daily, stops, startBalance, openPositions, profile,
          mode, loopPc, booked, ghosts>>

Fresh == [pnl |-> 0, date |-> day, reached |-> FALSE, reset |-> NoReset]
Booked == booked["paper"] + booked["real"]
-----------------------------------------------------------------------------
(* The daily loss counter. *)

\* Mutant: the day is taken from a clock that is ahead of UTC.
RollAheadOfUtc(d) == IF d.date = day + 1 THEN d ELSE [Fresh EXCEPT !.date = day + 1]

\* _roll_day_if_needed: a counter of another day is worth nothing today.
RollDayIfNeeded(d) == IF d.date = day THEN d ELSE Fresh

\* Mutant: a close adds to the count of whatever day it is.
UpdateWithoutRoll(d, pnl) ==
  [d EXCEPT !.pnl = @ + pnl, !.reached = @ \/ d.pnl + pnl <= -profile.limit]

\* Mutant: the limit itself is still allowed.
UpdateAboveLimit(d, pnl) ==
  LET r == RollDayIfNeeded(d)
  IN [pnl |-> r.pnl + pnl, date |-> r.date, reset |-> r.reset,
      reached |-> r.reached \/ r.pnl + pnl < -profile.limit]

\* update_daily_pnl: roll, add, and latch the limit.
UpdateDailyPnl(d, pnl) ==
  LET r == RollDayIfNeeded(d)
  IN [pnl |-> r.pnl + pnl, date |-> r.date, reset |-> r.reset,
      reached |-> r.reached \/ r.pnl + pnl <= -profile.limit]

\* Mutant: the lift is scheduled for the midnight that has just passed.
CheckAtLastMidnight(d) ==
  LET r == RollDayIfNeeded(d)
  IN IF ~r.reached THEN r
     ELSE IF r.reset = NoReset THEN
          [pnl |-> r.pnl, date |-> r.date, reached |-> TRUE, reset |-> day]
     ELSE IF day < r.reset THEN r
     ELSE [pnl |-> 0, date |-> r.date, reached |-> FALSE, reset |-> NoReset]

\* check_daily_loss_limit_reset: schedule the lift, or do it when it is due.
CheckDailyLossLimitReset(d) ==
  LET r == RollDayIfNeeded(d)
  IN IF ~r.reached THEN r
     ELSE IF r.reset = NoReset THEN
          [pnl |-> r.pnl, date |-> r.date, reached |-> TRUE, reset |-> day + 1]
     ELSE IF day < r.reset THEN r
     ELSE [pnl |-> 0, date |-> r.date, reached |-> FALSE, reset |-> NoReset]

\* The two account resets zero the count but keep daily_loss_reset_time.
ResetDaily(d) == [pnl |-> 0, date |-> day, reached |-> FALSE, reset |-> d.reset]

\* Mutant: the count is restored, the stop it stood for is not.
RestoreWithoutStop == [pnl |-> Booked, date |-> day, reached |-> FALSE,
                       reset |-> NoReset]

\* restore_daily_pnl_from_db on the fresh state of a new process.
RestoreDailyPnl ==
  [pnl |-> Booked, date |-> day, reached |-> Booked <= -profile.limit,
   reset |-> NoReset]
-----------------------------------------------------------------------------
(* The gates an order passes. *)

TotalNotionalPct ==
  MapThenFoldSet(+, 0, LAMBDA s : openPositions[s],
                 LAMBDA S : CHOOSE s \in S : TRUE, DOMAIN openPositions)

CheckMaxPositions == Cardinality(DOMAIN openPositions) >= profile.maxOpen

CheckMaxTotalNotional(size) ==
  profile.maxNotional > 0 /\ TotalNotionalPct + size > profile.maxNotional

CheckCooldown ==
  profile.cooldown > 0 /\ elapsed # NoTrade /\ elapsed < profile.cooldown

\* can_trade: what strategies ask before an entry.
CanTrade == /\ ~killSwitch /\ ~paused /\ ~daily.reached
            /\ ~CheckCooldown
            /\ ~CheckMaxPositions

\* check_signal: can_trade, the size, the sum of the sizes, the symbol.
CheckSignal(symbol, size) == /\ CanTrade
                             /\ size <= profile.maxSize
                             /\ ~CheckMaxTotalNotional(size)
                             /\ symbol \notin DOMAIN openPositions

\* ExecutionEngine.can_execute: what every order asks, whoever places it.
CanExecute == ~killSwitch /\ ~paused /\ ~daily.reached

\* check_max_drawdown, true only for a positive base.
CheckMaxDrawdown(equity) ==
  /\ startBalance > 0
  /\ (startBalance - equity) * 100 > profile.maxDrawdown * startBalance
-----------------------------------------------------------------------------
Init == /\ day = 0
        /\ elapsed = NoTrade
        /\ daily = Fresh
        /\ paused = FALSE /\ killSwitch = FALSE
        /\ startBalance = StartupCapital
        /\ openPositions = [s \in {} |-> 0]
        /\ profile \in Profiles
        /\ mode = "paper"
        /\ loopPc = "head"
        /\ booked = [m \in Modes |-> 0]
        /\ complete = TRUE
        /\ enforced = profile.limit

\* The clock: a tick of the cooldown, and midnight.
Tick == /\ elapsed # NoTrade /\ elapsed < MaxElapsed
        /\ elapsed' = elapsed + 1
        /\ UNCHANGED <<day, daily, stops, startBalance, openPositions, profile,
                       mode, loopPc, booked, ghosts>>

Midnight == /\ day < MaxDay
            /\ day' = day + 1
            /\ booked' = [m \in Modes |-> 0]
            /\ complete' = TRUE
            /\ UNCHANGED <<elapsed, daily, stops, startBalance, openPositions,
                           profile, mode, loopPc, enforced>>

\* Mutant: only a close looks whether the stop is over.
IterationHeadWithoutCheck ==
  /\ loopPc = "head"
  /\ ~killSwitch
  /\ loopPc' = "balance"
  /\ UNCHANGED <<day, elapsed, daily, stops, startBalance, openPositions,
                 profile, mode, booked, ghosts>>

\* _trading_iteration up to the balance; with the kill switch on it returns.
IterationHead == /\ loopPc = "head"
                 /\ ~killSwitch
                 /\ daily' = CheckDailyLossLimitReset(daily)
                 /\ loopPc' = "balance"
                 /\ UNCHANGED <<day, elapsed, stops, startBalance, openPositions,
                                profile, mode, booked, ghosts>>

\* on_balance_update, or nothing when the balance could not be read.
BalanceUpdate ==
  /\ loopPc = "balance"
  /\ loopPc' = "head"
  /\ \/ \E equity \in Equities :
          paused' = (paused \/ CheckMaxDrawdown(equity))
     \/ UNCHANGED paused
  /\ UNCHANGED <<day, elapsed, daily, killSwitch, startBalance, openPositions,
                 profile, mode, booked, ghosts>>

\* on_trade_closed, after the Trade row is in the database.
TradeClosed(pnl) ==
  /\ {booked[mode] + pnl, UpdateDailyPnl(daily, pnl).pnl} \subseteq -MaxBook..MaxBook
  /\ booked' = [booked EXCEPT ![mode] = booked[mode] + pnl]
  /\ daily' = CheckDailyLossLimitReset(UpdateDailyPnl(daily, pnl))
  /\ elapsed' = 0
  /\ enforced' = profile.limit
  /\ UNCHANGED <<day, stops, startBalance, openPositions, profile, mode, loopPc,
                 complete>>

\* on_position_added and on_position_closed.
PositionAdded(symbol, size) ==
  /\ openPositions' = [s \in DOMAIN openPositions \cup {symbol} |->
                         IF s = symbol THEN size ELSE openPositions[s]]
  /\ UNCHANGED <<day, elapsed, daily, stops, startBalance, profile, mode, loopPc,
                 booked, ghosts>>

PositionClosed(symbol) ==
  /\ openPositions' = [s \in DOMAIN openPositions \ {symbol} |-> openPositions[s]]
  /\ UNCHANGED <<day, elapsed, daily, stops, startBalance, profile, mode, loopPc,
                 booked, ghosts>>
-----------------------------------------------------------------------------
(* The operator's calls: /risk/*, the settings tab, /paper/reset. *)

Pause == /\ paused' = TRUE
         /\ UNCHANGED <<day, elapsed, daily, killSwitch, startBalance,
                        openPositions, profile, mode, loopPc, booked, ghosts>>

Resume == /\ paused' = FALSE
          /\ UNCHANGED <<day, elapsed, daily, killSwitch, startBalance,
                         openPositions, profile, mode, loopPc, booked, ghosts>>

TriggerKillSwitch ==
  /\ killSwitch' = TRUE /\ paused' = TRUE
  /\ UNCHANGED <<day, elapsed, daily, startBalance, openPositions, profile,
                 mode, loopPc, booked, ghosts>>

ClearKillSwitch ==
  /\ killSwitch' = FALSE
  /\ UNCHANGED <<day, elapsed, daily, paused, startBalance,
                 openPositions, profile, mode, loopPc, booked, ghosts>>

\* configure: new thresholds; what was already latched stays as it is.
Configure == /\ profile' \in Profiles
             /\ UNCHANGED <<day, elapsed, daily, stops, startBalance,
                            openPositions, mode, loopPc, booked, ghosts>>

\* A reset lifts every pause unless the kill switch is on.
LiftPause == /\ paused' = (paused /\ killSwitch)
             /\ UNCHANGED killSwitch

MayReset == ResetBeforeRoll \/ daily.date = day

\* POST /paper/reset: the paper trades are deleted, then
\* reset_for_new_paper_account.
PaperReset == /\ mode = "paper" /\ MayReset
              /\ booked' = [booked EXCEPT !["paper"] = 0]
              /\ daily' = ResetDaily(daily)
              /\ startBalance' = StartupCapital
              /\ openPositions' = [s \in {} |-> 0]
              /\ LiftPause
              /\ complete' = (booked["real"] = 0)
              /\ UNCHANGED <<day, elapsed, profile, mode, loopPc, enforced>>

\* reset_for_real_account, whenever the exchange is connected anew (real mode
\* entered, exchange, sandbox or market type changed) or the dust is swept.
RealReset == \E equity \in Equities :
               /\ MayReset
               /\ mode' = "real"
               /\ daily' = ResetDaily(daily)
               /\ startBalance' = equity
               /\ LiftPause
               /\ complete' = (Booked = 0)
               /\ UNCHANGED <<day, elapsed, openPositions, profile, loopPc,
                              booked, enforced>>

\* POST /admin/clear-test-data with nothing open: every trade is deleted, then
\* the account is reset as above; in real mode that needs the balance.
ClearTestData == /\ openPositions = [s \in {} |-> 0]
                 /\ booked' = [m \in Modes |-> 0]
                 /\ UNCHANGED <<day, elapsed, openPositions, profile, mode, loopPc,
                                enforced>>

ClearAndReset ==
  /\ ClearTestData
  /\ MayReset
  /\ daily' = ResetDaily(daily)
  /\ startBalance' \in IF mode = "paper" THEN {StartupCapital} ELSE Equities
  /\ LiftPause
  /\ complete' = TRUE

ClearWithoutBalance ==
  /\ ClearTestData
  /\ mode = "real"
  /\ complete' = (daily.date # day \/ daily.pnl = 0)
  /\ UNCHANGED <<daily, startBalance, stops>>

\* The same where the balance cannot be read: nothing is reset.
EnterRealUnread == /\ mode = "paper"
                   /\ mode' = "real"
                   /\ UNCHANGED <<day, elapsed, daily, stops, startBalance,
                                  openPositions, profile, loopPc, booked, ghosts>>

\* trading_mode set back to paper: the risk state is not touched.
EnterPaper == /\ mode = "real"
              /\ mode' = "paper"
              /\ UNCHANGED <<day, elapsed, daily, stops, startBalance,
                             openPositions, profile, loopPc, booked, ghosts>>
-----------------------------------------------------------------------------
\* The process is started again: a new RiskState, the saved profile, in real
\* mode the drawdown base from the exchange (when the balance can be read), the
\* positions registered again with sizes of today, then the day's PnL from the
\* database (when it can be read).
Restart ==
  /\ elapsed' = NoTrade
  /\ paused' = FALSE /\ killSwitch' = FALSE
  /\ loopPc' = "head"
  /\ openPositions' \in [DOMAIN openPositions -> Sizes]
  /\ startBalance' \in IF mode = "real" THEN Equities \cup {StartupCapital}
                                        ELSE {StartupCapital}
  /\ \/ daily' = RestoreDailyPnl /\ complete' = TRUE
     \/ daily' = Fresh /\ complete' = (Booked = 0)
  /\ enforced' = profile.limit
  /\ UNCHANGED <<day, profile, mode, booked>>

Next == \/ Tick \/ Midnight
        \/ IterationHead \/ BalanceUpdate
        \/ \E pnl \in Pnls : TradeClosed(pnl)
        \/ \E s \in Symbols, z \in Sizes : PositionAdded(s, z)
        \/ \E s \in Symbols : PositionClosed(s)
        \/ Pause \/ Resume \/ TriggerKillSwitch \/ ClearKillSwitch \/ Configure
        \/ PaperReset \/ RealReset \/ EnterRealUnread \/ EnterPaper
        \/ ClearAndReset \/ ClearWithoutBalance
        \/ Restart

\* The loop sleeps a minute and runs again, whatever the others do.
Fairness == WF_vars(IterationHead) /\ WF_vars(BalanceUpdate)

Spec == Init /\ [][Next]_vars
FairSpec == Spec /\ Fairness
-----------------------------------------------------------------------------
(* Properties. *)

\* Types; the counter is never ahead of the calendar.
TypeOK ==
  /\ day \in 0..MaxDay
  /\ elapsed \in {NoTrade} \cup 0..MaxElapsed
  /\ daily \in [pnl : Int, date : 0..MaxDay, reached : BOOLEAN, reset : Int]
  /\ daily.date <= day
  /\ paused \in BOOLEAN /\ killSwitch \in BOOLEAN
  /\ startBalance \in Int
  /\ DOMAIN openPositions \subseteq Symbols
  /\ \A s \in DOMAIN openPositions : openPositions[s] \in Sizes
  /\ profile \in Profiles
  /\ mode \in Modes
  /\ loopPc \in {"head", "balance"}
  /\ booked \in [Modes -> Int]
  /\ complete \in BOOLEAN
  /\ enforced \in Nat

\* When a lift is scheduled, it is for the midnight that ends the counter's own
\* day: no stop is ever due for lifting on the day it was raised.
ResetTimeIsNextMidnight ==
  daily.reset # NoReset => daily.reset = daily.date + 1

\* Once the counter is today's, it is exactly what the database holds for today:
\* across midnights, restarts and modes no close is lost, doubled or carried
\* over (an operator's reset, or a failed restore, forgives the day).
BookedLossIsCounted ==
  daily.date = day /\ complete => daily.pnl = Booked

\* After the day's trades have lost the limit no entry passes the strategies'
\* gate nor the engine's, whatever was lost when: before a restart, in the
\* other mode, or before the loop noticed the new day.
LossStopsEntries ==
  daily.date = day /\ complete /\ Booked < 0 /\ Booked <= -enforced =>
    /\ \A s \in Symbols, z \in Sizes : ~CheckSignal(s, z)
    /\ ~CanExecute

\* A counter of another day means that nothing was booked today yet.
NothingBookedBeforeRoll == daily.date # day => \A m \in Modes : booked[m] = 0

\* The latch behind LossStopsEntries: it names the flag the gates read.
LimitLatched ==
  daily.date = day /\ complete /\ Booked < 0 /\ Booked <= -enforced
    => daily.reached

\* The inductive invariant of the daily counter.  LimitLatched needs
\* BookedLossIsCounted (the flag is raised from the count, the property speaks
\* of the database), which needs NothingBookedBeforeRoll (a roll restarts the
\* count at 0) and ResetTimeIsNextMidnight (the branch that zeroes a raised
\* counter cannot be taken on the counter's own day).
DailyInv == /\ TypeOK
            /\ ResetTimeIsNextMidnight
            /\ NothingBookedBeforeRoll
            /\ BookedLossIsCounted
            /\ LimitLatched

\* The lazily rolled counter keeps the promise of the eager daily limit: seen
\* through the day it belongs to, every call is a step of DailyLossStop.
CountedToday == IF daily.date = day THEN daily.pnl ELSE 0
StoppedToday == IF daily.date = day THEN daily.reached ELSE FALSE

Promise == INSTANCE DailyLossStop WITH
  ledger  <- Booked,
  counted <- CountedToday,
  limit   <- profile.limit,
  stop    <- StoppedToday

KeepsTheDailyPromise == Promise!Spec

\* A stop of an earlier day does not outlive the next iteration: closes are not
\* needed to lift it (the loop calls check_daily_loss_limit_reset itself).
StaleStopLifts ==
  (daily.reached /\ daily.date # day) ~> (killSwitch \/ daily.date = day)
=============================================================================
