-------------------------- MODULE RiskManagerProofs --------------------------
(***************************************************************************)
(* Theorems about RiskManager, for every value of its constants.  The      *)
(* counter is right, and the limit holds, in every behaviour in which no   *)
(* account is reset between midnight and the first roll of the new day;    *)
(* otherwise TLC breaks DailyInv (ResetBeforeRoll = TRUE).                 *)
(***************************************************************************)
EXTENDS RiskManager, TLAPS

Daily == [pnl : Int, date : 0..MaxDay, reached : BOOLEAN, reset : Int]

-----------------------------------------------------------------------------
(* What the three operators of the daily counter return. *)

\* A rolled counter is today's, and one that was today's is not changed.
LEMMA RollIsToday ==
  ASSUME day \in 0..MaxDay, NEW d \in Daily
  PROVE  /\ RollDayIfNeeded(d) \in Daily
         /\ RollDayIfNeeded(d).date = day
         /\ d.date = day => RollDayIfNeeded(d) = d
         /\ d.date # day => RollDayIfNeeded(d) = Fresh
BY DEF RollDayIfNeeded, Fresh, Daily, NoReset

\* update_daily_pnl returns today's counter, with the close added, and raises
\* the flag when the sum is at the limit; the scheduled lift is not touched.
LEMMA UpdateAdds ==
  ASSUME day \in 0..MaxDay, profile \in [limit : Nat, maxOpen : Nat, maxSize : Nat,
                         maxNotional : Nat, maxDrawdown : Nat, cooldown : Nat],
         NEW d \in Daily, NEW pnl \in Int
  PROVE  LET u == UpdateDailyPnl(d, pnl)
             r == RollDayIfNeeded(d)
         IN /\ u \in Daily
            /\ u.date = day
            /\ u.pnl = r.pnl + pnl
            /\ u.reset = r.reset
            /\ u.reached = (r.reached \/ r.pnl + pnl <= -profile.limit)
<1>1. RollDayIfNeeded(d) \in Daily /\ RollDayIfNeeded(d).date = day
  BY RollIsToday
<1> QED
  BY <1>1 DEF UpdateDailyPnl, Daily

\* When a lift is only ever scheduled for the next midnight, the check leaves
\* today's count and flag as they are.
LEMMA CheckKeepsToday ==
  ASSUME day \in 0..MaxDay, NEW d \in Daily, d.date = day,
         d.reset # NoReset => d.reset = day + 1
  PROVE  LET c == CheckDailyLossLimitReset(d)
         IN /\ c \in Daily
            /\ c.date = day
            /\ c.pnl = d.pnl
            /\ c.reached = d.reached
            /\ c.reset # NoReset => c.reset = day + 1
<1>1. RollDayIfNeeded(d) = d
  BY RollIsToday
<1>2. CASE ~d.reached
  BY <1>1, <1>2 DEF CheckDailyLossLimitReset
<1>3. CASE d.reached /\ d.reset = NoReset
  BY <1>1, <1>3 DEF CheckDailyLossLimitReset, Daily, NoReset
<1>4. CASE d.reached /\ d.reset # NoReset
  <2>1. day < d.reset
    BY <1>4 DEF Daily
  <2> QED
    BY <1>1, <1>4, <2>1 DEF CheckDailyLossLimitReset
<1> QED
  BY <1>2, <1>3, <1>4

\* The check on a counter of another day returns a fresh one.
LEMMA CheckRollsOldDay ==
  ASSUME day \in 0..MaxDay, NEW d \in Daily, d.date # day
  PROVE  CheckDailyLossLimitReset(d) = Fresh
<1>1. RollDayIfNeeded(d) = Fresh
  BY RollIsToday
<1>2. ~Fresh.reached
  BY DEF Fresh
<1> QED
  BY <1>1, <1>2 DEF CheckDailyLossLimitReset
-----------------------------------------------------------------------------
\* The variables the three facts about the counter depend on.
dailyVars == <<day, daily, booked, complete, enforced>>

LEMMA InitDailyInv == Init => DailyInv
<1> SUFFICES ASSUME Init PROVE DailyInv
  OBVIOUS
<1> USE RiskAssumption DEF Init
<1>1. profile.limit \in Nat
  OBVIOUS
<1>2. daily \in Daily /\ daily.date = day /\ daily.pnl = 0 /\ daily.reset = NoReset
  BY DEF Fresh, Daily, NoReset
<1>3. booked \in [Modes -> Int] /\ Booked = 0
  BY DEF Modes, Booked
<1>4. TypeOK
  <2>1. daily \in [pnl : Int, date : 0..MaxDay, reached : BOOLEAN, reset : Int]
    BY <1>2 DEF Daily
  <2>2. openPositions = [s \in {} |-> 0] => DOMAIN openPositions = {}
    OBVIOUS
  <2>3. day \in 0..MaxDay /\ daily.date <= day
    BY <1>2
  <2> QED
    BY <1>1, <1>3, <2>1, <2>2, <2>3 DEF TypeOK, Modes, NoTrade
<1> QED
  BY <1>2, <1>3, <1>4 DEF DailyInv, NothingBookedBeforeRoll, ResetTimeIsNextMidnight, BookedLossIsCounted,
                          LimitLatched

\* Calls that leave the counter, the calendar and the book alone.
LEMMA OtherCallsKeepDaily ==
  ASSUME DailyInv, UNCHANGED dailyVars, TypeOK'
  PROVE  DailyInv'
BY DEF DailyInv, dailyVars, ResetTimeIsNextMidnight, NothingBookedBeforeRoll,
       BookedLossIsCounted, LimitLatched, Booked

LEMMA MidnightKeepsInv == DailyInv /\ Midnight => DailyInv'
<1> SUFFICES ASSUME DailyInv, Midnight PROVE DailyInv'
  OBVIOUS
<1> USE RiskAssumption DEF Midnight, DailyInv
<1>1. TypeOK'
  BY DEF TypeOK, stops, Modes
<1>2. ~(daily'.date = day')
  BY DEF TypeOK
<1>3. ResetTimeIsNextMidnight'
  BY DEF ResetTimeIsNextMidnight
<1> QED
  BY <1>1, <1>2, <1>3 DEF BookedLossIsCounted, LimitLatched,
                          NothingBookedBeforeRoll

LEMMA HeadKeepsInv == DailyInv /\ IterationHead => DailyInv'
<1> SUFFICES ASSUME DailyInv, IterationHead PROVE DailyInv'
  OBVIOUS
<1> USE RiskAssumption DEF IterationHead, DailyInv
<1>1. day \in 0..MaxDay /\ daily \in Daily
  BY DEF TypeOK, Daily
<1>2. CASE daily.date = day
  <2>1. /\ daily' \in Daily /\ daily'.date = day /\ daily'.pnl = daily.pnl
        /\ daily'.reached = daily.reached
        /\ daily'.reset # NoReset => daily'.reset = day + 1
    BY <1>1, <1>2, CheckKeepsToday DEF ResetTimeIsNextMidnight
  <2>2. TypeOK'
    BY <2>1 DEF TypeOK, Daily, stops, ghosts
  <2> QED
    BY <1>2, <2>1, <2>2 DEF ResetTimeIsNextMidnight, BookedLossIsCounted,
                            NothingBookedBeforeRoll, LimitLatched, Booked, ghosts
<1>3. CASE daily.date # day
  <2>1. daily' = Fresh
    BY <1>1, <1>3, CheckRollsOldDay
  <2>2. /\ daily' \in Daily /\ daily'.date = day /\ daily'.pnl = 0
        /\ daily'.reset = NoReset
    BY <1>1, <2>1 DEF Fresh, Daily, NoReset
  <2>3. booked' = booked /\ Booked' = 0
    BY <1>3 DEF NothingBookedBeforeRoll, Booked, Modes
  <2>4. TypeOK'
    BY <2>2 DEF TypeOK, Daily, stops, ghosts
  <2> QED
    BY <2>2, <2>3, <2>4 DEF ResetTimeIsNextMidnight, BookedLossIsCounted,
                            NothingBookedBeforeRoll, LimitLatched
<1> QED
  BY <1>2, <1>3

\* What a close leaves in the counter: today's count with the close added, and
\* the flag of today raised at the limit and never lowered.
LEMMA TradeClosedResult ==
  ASSUME DailyInv, NEW pnl \in Pnls, TradeClosed(pnl)
  PROVE  LET r == RollDayIfNeeded(daily)
         IN /\ r \in Daily
            /\ complete => r.pnl = Booked
            /\ daily' \in Daily /\ daily'.date = day /\ daily'.pnl = r.pnl + pnl
            /\ daily'.reset # NoReset => daily'.reset = day + 1
            /\ daily'.reached = (r.reached \/ r.pnl + pnl <= -profile.limit)
            /\ Booked' = Booked + pnl /\ Booked \in Int
            /\ booked' \in [Modes -> Int]
<1> USE RiskAssumption DEF DailyInv
<1> DEFINE u == UpdateDailyPnl(daily, pnl)
           r == RollDayIfNeeded(daily)
<1>1. /\ day \in 0..MaxDay /\ daily \in Daily /\ pnl \in Int
      /\ booked \in [Modes -> Int] /\ mode \in Modes
      /\ profile \in [limit : Nat, maxOpen : Nat, maxSize : Nat,
                      maxNotional : Nat, maxDrawdown : Nat, cooldown : Nat]
  BY DEF TypeOK, Daily
<1>2. /\ r \in Daily /\ r.date = day
      /\ r.reset # NoReset => r.reset = day + 1
      /\ complete => r.pnl = Booked
  <2>1. CASE daily.date = day
    BY <1>1, <2>1, RollIsToday DEF ResetTimeIsNextMidnight, BookedLossIsCounted
  <2>2. CASE daily.date # day
    BY <1>1, <2>2, RollIsToday DEF NothingBookedBeforeRoll, Booked, Modes, Fresh
  <2> QED
    BY <2>1, <2>2
<1>3. /\ u \in Daily /\ u.date = day /\ u.pnl = r.pnl + pnl
      /\ u.reset # NoReset => u.reset = day + 1
      /\ u.reached = (r.reached \/ r.pnl + pnl <= -profile.limit)
  BY <1>1, <1>2, UpdateAdds
<1>4. /\ daily' \in Daily /\ daily'.date = day /\ daily'.pnl = u.pnl
      /\ daily'.reset # NoReset => daily'.reset = day + 1
      /\ daily'.reached = u.reached
  <2>1. daily' = CheckDailyLossLimitReset(u)
    BY DEF TradeClosed
  <2> HIDE DEF u, r
  <2> QED
    BY <1>1, <1>3, <2>1, CheckKeepsToday
<1>5. booked' \in [Modes -> Int] /\ Booked' = Booked + pnl /\ Booked \in Int
  BY <1>1 DEF TradeClosed, Booked, Modes
<1> HIDE DEF u
<1> QED
  BY <1>2, <1>3, <1>4, <1>5

LEMMA TradeClosedKeepsInv ==
  ASSUME DailyInv, NEW pnl \in Pnls, TradeClosed(pnl)
  PROVE  DailyInv'
<1> USE RiskAssumption
<1> DEFINE r == RollDayIfNeeded(daily)
<1>1. /\ r.pnl \in Int /\ day \in 0..MaxDay
      /\ complete => r.pnl = Booked
      /\ daily' \in Daily /\ daily'.date = day /\ daily'.pnl = r.pnl + pnl
      /\ daily'.reset # NoReset => daily'.reset = day + 1
      /\ r.pnl + pnl <= -profile.limit => daily'.reached
      /\ Booked' = Booked + pnl /\ Booked \in Int
      /\ booked' \in [Modes -> Int]
  BY TradeClosedResult DEF Daily, DailyInv, TypeOK
<1>2. day' = day /\ complete' = complete /\ enforced' = profile.limit
  BY DEF TradeClosed
<1>3. TypeOK'
  BY <1>1, <1>2 DEF DailyInv, TypeOK, Daily, TradeClosed, stops
<1> HIDE DEF r
<1> QED
  BY <1>1, <1>2, <1>3
  DEF DailyInv, ResetTimeIsNextMidnight, NothingBookedBeforeRoll,
      BookedLossIsCounted, LimitLatched

\* What the account resets leave behind, when the counter is today's.
LEMMA ResetKeepsInv ==
  ASSUME DailyInv, TypeOK', daily.date = day, day' = day,
         daily' = ResetDaily(daily), complete' => Booked' = 0
  PROVE  DailyInv'
<1>1. /\ daily'.pnl = 0 /\ daily'.date = day /\ daily'.reset = daily.reset
  BY DEF ResetDaily
<1> QED
  BY <1>1 DEF DailyInv, ResetTimeIsNextMidnight, NothingBookedBeforeRoll,
              BookedLossIsCounted, LimitLatched

LEMMA ResetsKeepInv ==
  ASSUME ResetBeforeRoll = FALSE, DailyInv,
         PaperReset \/ RealReset \/ ClearAndReset \/ ClearWithoutBalance
  PROVE  DailyInv'
<1> USE RiskAssumption DEF LiftPause, stops, Modes
<1>1. /\ day \in 0..MaxDay /\ daily \in Daily /\ TypeOK
      /\ booked \in [Modes -> Int]
  BY DEF DailyInv, TypeOK, Daily
<1>2. daily.date = day => ResetDaily(daily) \in Daily /\ ResetDaily(daily).date = day
  BY <1>1 DEF ResetDaily, Daily
<1>3. CASE PaperReset
  <2>1. daily.date = day
    BY <1>3 DEF PaperReset, MayReset
  <2>2. TypeOK'
    <3>1. complete' \in BOOLEAN
      BY <1>3 DEF PaperReset
    <3>2. booked' \in [Modes -> Int]
      BY <1>1, <1>3 DEF PaperReset
    <3>3. openPositions' = [s \in {} |-> 0] => DOMAIN openPositions' = {}
      OBVIOUS
    <3> QED
      BY <1>1, <1>2, <1>3, <2>1, <3>1, <3>2, <3>3 DEF TypeOK, Daily, PaperReset
  <2>3. complete' => Booked' = 0
    BY <1>1, <1>3 DEF PaperReset, Booked
  <2> QED
    BY <1>3, <2>1, <2>2, <2>3, ResetKeepsInv DEF PaperReset
<1>4. CASE RealReset
  <2>1. daily.date = day
    BY <1>4 DEF RealReset, MayReset
  <2>2. TypeOK'
    BY <1>1, <1>2, <1>4, <2>1 DEF TypeOK, Daily, RealReset
  <2>3. complete' => Booked' = 0
    BY <1>1, <1>4 DEF RealReset, Booked
  <2> QED
    BY <1>4, <2>1, <2>2, <2>3, ResetKeepsInv DEF RealReset
<1>5. CASE ClearAndReset \/ ClearWithoutBalance
  <2>1. /\ booked' = [m \in Modes |-> 0] /\ Booked' = 0 /\ day' = day
        /\ enforced' = enforced
    BY <1>5 DEF ClearTestData, ClearAndReset, ClearWithoutBalance, Booked
  <2>2. CASE ClearAndReset
    <3>1. /\ daily.date = day /\ daily' = ResetDaily(daily)
          /\ startBalance' \in Int /\ complete' \in BOOLEAN
      BY <2>2 DEF ClearAndReset, MayReset
    <3>2. daily' \in Daily /\ daily'.date = day
      BY <1>2, <3>1
    <3>3. paused' \in BOOLEAN /\ killSwitch' \in BOOLEAN
      BY <1>1, <2>2 DEF TypeOK, ClearAndReset
    <3>4. TypeOK'
      BY <1>1, <2>1, <2>2, <3>1, <3>2, <3>3
      DEF TypeOK, Daily, ClearAndReset, ClearTestData
    <3> QED
      BY <2>1, <3>1, <3>4, ResetKeepsInv
  <2>3. CASE ClearWithoutBalance
    <3>1. complete' \in BOOLEAN
      BY <2>3 DEF ClearWithoutBalance
    <3>2. TypeOK'
      BY <1>1, <2>1, <2>3, <3>1
      DEF TypeOK, Daily, ClearWithoutBalance, ClearTestData
    <3> QED
      BY <2>1, <2>3, <3>2
      DEF ClearWithoutBalance, DailyInv, ResetTimeIsNextMidnight, LimitLatched,
          NothingBookedBeforeRoll, BookedLossIsCounted
  <2> QED
    BY <1>5, <2>2, <2>3
<1> QED
  BY <1>3, <1>4, <1>5

LEMMA RestartKeepsInv == DailyInv /\ Restart => DailyInv'
<1> SUFFICES ASSUME DailyInv, Restart PROVE DailyInv'
  OBVIOUS
<1> USE RiskAssumption
<1>1. /\ day \in 0..MaxDay /\ TypeOK /\ booked \in [Modes -> Int]
      /\ Booked \in Int /\ profile.limit \in Nat
  BY DEF DailyInv, TypeOK, Booked, Modes
<1>2. /\ daily' \in Daily /\ daily'.date = day /\ daily'.reset = NoReset
      /\ complete' => daily'.pnl = Booked
      /\ complete' /\ Booked < 0 /\ Booked <= -profile.limit => daily'.reached
      /\ complete' \in BOOLEAN
  <2>1. CASE daily' = RestoreDailyPnl /\ complete' = TRUE
    <3>1. (Booked <= -profile.limit) \in BOOLEAN
      OBVIOUS
    <3>2. daily' \in Daily
      BY <1>1, <2>1, <3>1 DEF RestoreDailyPnl, Daily, NoReset
    <3> QED
      BY <1>1, <2>1, <3>2 DEF RestoreDailyPnl
  <2>2. CASE daily' = Fresh /\ complete' = (Booked = 0)
    <3>1. complete' \in BOOLEAN
      BY <2>2
    <3>2. daily' \in Daily
      BY <1>1, <2>2 DEF Fresh, Daily, NoReset
    <3>3. complete' => Booked = 0
      BY <2>2, Zenon
    <3> QED
      BY <1>1, <2>2, <3>1, <3>2, <3>3 DEF Fresh
  <2> QED
    BY <2>1, <2>2 DEF Restart
<1>3. day' = day /\ booked' = booked /\ Booked' = Booked /\ enforced' = profile.limit
  BY DEF Restart, Booked
<1>4. TypeOK'
  <2>1. openPositions' \in [DOMAIN openPositions -> Sizes]
    BY DEF Restart
  <2>2. startBalance' \in Int
    BY DEF Restart
  <2>3. /\ DOMAIN openPositions' \subseteq Symbols
        /\ \A s \in DOMAIN openPositions' : openPositions'[s] \in Sizes
    BY <1>1, <2>1 DEF TypeOK
  <2>4. /\ elapsed' = NoTrade /\ paused' = FALSE /\ killSwitch' = FALSE
        /\ loopPc' = "head"
        /\ profile' = profile /\ mode' = mode
    BY DEF Restart
  <2>5. daily' \in [pnl : Int, date : 0..MaxDay, reached : BOOLEAN, reset : Int]
        /\ daily'.date <= day'
    BY <1>1, <1>2, <1>3 DEF Daily
  <2>6. mode \in Modes /\ profile \in Profiles /\ enforced' \in Nat
    BY <1>1, <1>3 DEF TypeOK
  <2> QED
    BY <1>1, <1>2, <1>3, <2>2, <2>3, <2>4, <2>5, <2>6 DEF TypeOK
<1> QED
  BY <1>2, <1>3, <1>4 DEF DailyInv, ResetTimeIsNextMidnight, LimitLatched,
                          NothingBookedBeforeRoll, BookedLossIsCounted

\* The calls that say nothing of the counter.
LEMMA RestKeepsInv ==
  ASSUME DailyInv,
         \/ Tick \/ BalanceUpdate
         \/ \E s \in Symbols, z \in Sizes : PositionAdded(s, z)
         \/ \E s \in Symbols : PositionClosed(s)
         \/ Pause \/ Resume \/ TriggerKillSwitch \/ ClearKillSwitch \/ Configure
         \/ EnterRealUnread \/ EnterPaper
         \/ UNCHANGED vars
  PROVE  DailyInv'
<1> USE RiskAssumption
<1>1. UNCHANGED dailyVars
  BY DEF dailyVars, Tick, BalanceUpdate, PositionAdded, PositionClosed, Pause,
         Resume, TriggerKillSwitch, ClearKillSwitch, Configure, EnterRealUnread, EnterPaper, vars,
         ghosts
<1>2. TypeOK
  BY DEF DailyInv
<1>3. TypeOK'
  <2>1. CASE Tick
    BY <1>2, <2>1 DEF TypeOK, Tick, stops, ghosts, NoTrade
  <2>2. CASE BalanceUpdate
    BY <1>2, <2>2 DEF TypeOK, BalanceUpdate, ghosts
  <2>3. CASE \E s \in Symbols, z \in Sizes : PositionAdded(s, z)
    BY <1>2, <2>3 DEF TypeOK, PositionAdded, stops, ghosts
  <2>4. CASE \E s \in Symbols : PositionClosed(s)
    BY <1>2, <2>4 DEF TypeOK, PositionClosed, stops, ghosts
  <2>5. CASE Pause \/ Resume \/ TriggerKillSwitch \/ ClearKillSwitch
    BY <1>2, <2>5 DEF TypeOK, Pause, Resume, TriggerKillSwitch, ClearKillSwitch,
                      ghosts
  <2>6. CASE Configure \/ EnterRealUnread \/ EnterPaper
    BY <1>2, <2>6 DEF TypeOK, Configure, EnterRealUnread, EnterPaper, stops, ghosts, Modes
  <2>7. CASE UNCHANGED vars
    BY <1>2, <2>7 DEF TypeOK, vars, stops, ghosts
  <2> QED
    BY <2>1, <2>2, <2>3, <2>4, <2>5, <2>6, <2>7
<1> QED
  BY <1>1, <1>3, OtherCallsKeepDaily

\* The counter is right in every reachable state: types, the scheduled lift,
\* the count and the latch together.
THEOREM DailyCounterIsCorrect ==
  ASSUME ResetBeforeRoll = FALSE
  PROVE  Spec => []DailyInv
<1>1. DailyInv /\ [Next]_vars => DailyInv'
  <2> SUFFICES ASSUME DailyInv, [Next]_vars PROVE DailyInv'
    OBVIOUS
  <2>1. CASE Midnight
    BY <2>1, MidnightKeepsInv
  <2>2. CASE IterationHead
    BY <2>2, HeadKeepsInv
  <2>3. CASE \E pnl \in Pnls : TradeClosed(pnl)
    BY <2>3, TradeClosedKeepsInv
  <2>4. CASE PaperReset \/ RealReset \/ ClearAndReset \/ ClearWithoutBalance
    BY <2>4, ResetsKeepInv
  <2>5. CASE Restart
    BY <2>5, RestartKeepsInv
  <2>6. CASE \/ Tick \/ BalanceUpdate
             \/ \E s \in Symbols, z \in Sizes : PositionAdded(s, z)
             \/ \E s \in Symbols : PositionClosed(s)
             \/ Pause \/ Resume \/ TriggerKillSwitch \/ ClearKillSwitch
             \/ Configure \/ EnterRealUnread \/ EnterPaper
             \/ UNCHANGED vars
    BY <2>6, RestKeepsInv
  <2> QED
    BY <2>1, <2>2, <2>3, <2>4, <2>5, <2>6 DEF Next
<1> QED
  BY <1>1, InitDailyInv, PTL DEF Spec

\* Whatever was lost today, before a restart or in the other mode, once the
\* losses reach the limit neither a strategy nor any other order gets through.
THEOREM LossesStopTheDay ==
  ASSUME ResetBeforeRoll = FALSE
  PROVE  Spec => []LossStopsEntries
<1>1. DailyInv => LossStopsEntries
  BY DEF DailyInv, LimitLatched, LossStopsEntries, CheckSignal, CanTrade, CanExecute
<1> QED
  BY <1>1, DailyCounterIsCorrect, PTL

\* Today's count is what the database holds for today.
THEOREM BookIsCounted ==
  ASSUME ResetBeforeRoll = FALSE
  PROVE  Spec => []BookedLossIsCounted
<1>1. DailyInv => BookedLossIsCounted
  BY DEF DailyInv
<1> QED
  BY <1>1, DailyCounterIsCorrect, PTL
-----------------------------------------------------------------------------
(* Types, also when an account is reset before the first roll of a day. *)

\* The three operators of the counter return a counter, of a day that has come.
LEMMA CountersStayTyped ==
  ASSUME TypeOK, NEW d \in Daily, d.date <= day, NEW pnl \in Int
  PROVE  /\ Fresh \in Daily /\ Fresh.date = day
         /\ UpdateDailyPnl(d, pnl) \in Daily /\ UpdateDailyPnl(d, pnl).date = day
         /\ CheckDailyLossLimitReset(d) \in Daily /\ CheckDailyLossLimitReset(d).date = day
         /\ ResetDaily(d) \in Daily /\ ResetDaily(d).date = day
<1>1. day \in 0..MaxDay
  BY DEF TypeOK
<1>2. profile \in [limit : Nat, maxOpen : Nat, maxSize : Nat,
                   maxNotional : Nat, maxDrawdown : Nat, cooldown : Nat]
  BY RiskAssumption DEF TypeOK
<1>3. Fresh \in Daily /\ Fresh.date = day
  BY <1>1, RiskAssumption DEF Fresh, Daily, NoReset
<1>4. RollDayIfNeeded(d) \in Daily /\ RollDayIfNeeded(d).date = day
  BY <1>1, RollIsToday
<1>5. CheckDailyLossLimitReset(d) \in Daily /\ CheckDailyLossLimitReset(d).date = day
  <2> DEFINE r == RollDayIfNeeded(d)
  <2>1. r \in Daily /\ r.date = day
    BY <1>4
  <2>2. CheckDailyLossLimitReset(d) =
          IF ~r.reached THEN r
          ELSE IF r.reset = NoReset THEN
               [pnl |-> r.pnl, date |-> r.date, reached |-> TRUE, reset |-> day + 1]
          ELSE IF day < r.reset THEN r
          ELSE [pnl |-> 0, date |-> r.date, reached |-> FALSE, reset |-> NoReset]
    BY DEF CheckDailyLossLimitReset
  <2> HIDE DEF r
  <2> QED
    BY <1>1, <2>1, <2>2, RiskAssumption DEF Daily, NoReset
<1>6. ResetDaily(d) \in Daily /\ ResetDaily(d).date = day
  BY <1>1, RiskAssumption DEF ResetDaily, Daily
<1>7. UpdateDailyPnl(d, pnl) \in Daily /\ UpdateDailyPnl(d, pnl).date = day
  BY <1>1, <1>2, UpdateAdds
<1> QED
  BY <1>3, <1>5, <1>6, <1>7

\* A call that leaves the calendar as it is, and all but the counter typed.
LEMMA CounterTyped ==
  ASSUME TypeOK, day' = day, daily' \in Daily, daily'.date <= day,
         paused' \in BOOLEAN, killSwitch' \in BOOLEAN, startBalance' \in Int,
         elapsed' \in {NoTrade} \cup 0..MaxElapsed, profile' = profile, mode' \in Modes,
         DOMAIN openPositions' \subseteq Symbols,
         \A s \in DOMAIN openPositions' : openPositions'[s] \in Sizes,
         loopPc' \in {"head", "balance"}, booked' \in [Modes -> Int], complete' \in BOOLEAN,
         enforced' \in Nat
  PROVE  TypeOK'
BY DEF TypeOK, Daily

LEMMA StepsStayTyped == ASSUME TypeOK, [Next]_vars PROVE TypeOK'
<1> USE RiskAssumption
<1>1. /\ day \in 0..MaxDay /\ daily \in Daily /\ daily.date <= day
      /\ booked \in [Modes -> Int] /\ mode \in Modes /\ "real" \in Modes /\ "paper" \in Modes
      /\ paused \in BOOLEAN /\ killSwitch \in BOOLEAN /\ complete \in BOOLEAN
      /\ startBalance \in Int /\ enforced \in Nat
      /\ elapsed \in {NoTrade} \cup 0..MaxElapsed /\ 0 \in 0..MaxElapsed
      /\ DOMAIN openPositions \subseteq Symbols
      /\ \A s \in DOMAIN openPositions : openPositions[s] \in Sizes
      /\ loopPc \in {"head", "balance"}
      /\ profile \in Profiles /\ profile.limit \in Nat
  BY DEF TypeOK, Daily, Modes
<1>2. Booked \in Int
  BY <1>1 DEF Booked, Modes
<1>3. CheckDailyLossLimitReset(daily) \in Daily /\ CheckDailyLossLimitReset(daily).date = day
  BY <1>1, CountersStayTyped
<1>4. ResetDaily(daily) \in Daily /\ ResetDaily(daily).date = day
  BY <1>1, CountersStayTyped
<1>5. DOMAIN [s \in {} |-> 0] = {}
  OBVIOUS
<1>6. CASE Tick \/ Midnight
  <2>1. CASE Tick
    <3>1. elapsed' \in 0..MaxElapsed
      BY <1>1, <2>1 DEF Tick, NoTrade
    <3> QED
      BY <1>1, <2>1, <3>1, CounterTyped DEF Tick, stops, ghosts
  <2>2. CASE Midnight
    <3>1. day' \in 0..MaxDay /\ daily.date <= day' /\ booked' \in [Modes -> Int]
      BY <1>1, <2>2 DEF Midnight, Daily
    <3> QED
      BY <2>2, <3>1 DEF TypeOK, Midnight, stops
  <2> QED
    BY <1>6, <2>1, <2>2
<1>7. CASE BalanceUpdate \/ Pause \/ Resume \/ TriggerKillSwitch \/ ClearKillSwitch
  <2>1. paused' \in BOOLEAN /\ killSwitch' \in BOOLEAN /\ loopPc' \in {"head", "balance"}
    BY <1>1, <1>7
    DEF BalanceUpdate, Pause, Resume, TriggerKillSwitch, ClearKillSwitch, stops
  <2> QED
    BY <1>1, <1>7, <2>1, CounterTyped
    DEF BalanceUpdate, Pause, Resume, TriggerKillSwitch, ClearKillSwitch, ghosts
<1>8. CASE Configure \/ EnterRealUnread \/ EnterPaper
  BY <1>1, <1>8 DEF TypeOK, Configure, EnterRealUnread, EnterPaper, stops, ghosts
<1>9. CASE IterationHead
  BY <1>1, <1>3, <1>9, CounterTyped DEF IterationHead, stops, ghosts
<1>10. ASSUME NEW pnl \in Pnls, TradeClosed(pnl) PROVE TypeOK'
  <2>1. UpdateDailyPnl(daily, pnl) \in Daily /\ UpdateDailyPnl(daily, pnl).date = day
    BY <1>1, CountersStayTyped
  <2>2. daily' \in Daily /\ daily'.date = day
    BY <1>1, <1>10, <2>1, CountersStayTyped DEF TradeClosed
  <2>3. booked' \in [Modes -> Int]
    BY <1>1, <1>10 DEF TradeClosed
  <2> QED
    BY <1>1, <1>10, <2>2, <2>3, CounterTyped DEF TradeClosed, stops
<1>11. ASSUME NEW symbol \in Symbols,
             PositionClosed(symbol) \/ \E z \in Sizes : PositionAdded(symbol, z)
      PROVE  TypeOK'
  <2>1. /\ DOMAIN openPositions' \subseteq Symbols
        /\ \A s \in DOMAIN openPositions' : openPositions'[s] \in Sizes
    BY <1>1, <1>11 DEF PositionClosed, PositionAdded
  <2> QED
    BY <1>1, <1>11, <2>1, CounterTyped DEF PositionClosed, PositionAdded, stops, ghosts
<1>12. CASE PaperReset
  BY <1>1, <1>4, <1>5, <1>12, CounterTyped DEF PaperReset, LiftPause, Modes
<1>13. CASE RealReset
  BY <1>1, <1>4, <1>13, CounterTyped DEF RealReset, LiftPause
<1>14. CASE ClearAndReset
  <2>1. booked' \in [Modes -> Int] /\ startBalance' \in Int
    BY <1>14 DEF ClearAndReset, ClearTestData
  <2> QED
    BY <1>1, <1>4, <1>14, <2>1, CounterTyped DEF ClearAndReset, ClearTestData, LiftPause
<1>15. CASE ClearWithoutBalance
  <2>1. booked' \in [Modes -> Int] /\ complete' \in BOOLEAN
    BY <1>15 DEF ClearWithoutBalance, ClearTestData
  <2> QED
    BY <1>1, <1>15, <2>1, CounterTyped DEF ClearWithoutBalance, ClearTestData, stops
<1>16. CASE Restart
  <2>1. daily' \in Daily /\ daily'.date = day /\ complete' \in BOOLEAN
    <3>1. RestoreDailyPnl \in Daily /\ RestoreDailyPnl.date = day
      <4>1. (Booked <= -profile.limit) \in BOOLEAN
        OBVIOUS
      <4> QED
        BY <1>1, <1>2, <4>1 DEF RestoreDailyPnl, Daily, NoReset
    <3>2. Fresh \in Daily /\ Fresh.date = day
      BY <1>1, CountersStayTyped
    <3> QED
      BY <1>16, <3>1, <3>2 DEF Restart
  <2>2. startBalance' \in Int
    BY <1>16 DEF Restart
  <2>3. /\ DOMAIN openPositions' \subseteq Symbols
        /\ \A s \in DOMAIN openPositions' : openPositions'[s] \in Sizes
    BY <1>1, <1>16 DEF Restart
  <2>4. /\ paused' \in BOOLEAN /\ killSwitch' \in BOOLEAN /\ enforced' \in Nat
        /\ elapsed' \in {NoTrade} \cup 0..MaxElapsed /\ loopPc' \in {"head", "balance"}
        /\ UNCHANGED <<day, profile, mode, booked>>
    BY <1>1, <1>16 DEF Restart
  <2> QED
    BY <1>1, <2>1, <2>2, <2>3, <2>4, CounterTyped
<1>17. CASE UNCHANGED vars
  BY <1>17 DEF TypeOK, vars, stops, ghosts
<1> QED
  BY <1>6, <1>9, <1>10, <1>11, <1>12, <1>13, <1>14, <1>15, <1>16, <1>17, <1>7, <1>8 DEF Next

\* The state of the risk manager has its types in every behaviour, and the
\* counter is never of a day that is still to come.
THEOREM TypesHold == Spec => []TypeOK
<1>1. Init => TypeOK
  BY InitDailyInv DEF DailyInv
<1> QED
  BY <1>1, StepsStayTyped, PTL DEF Spec
-----------------------------------------------------------------------------
(* Refinement: the rolled counter implements the eager daily stop. *)

\* Steps that the promise does not see.
LEMMA Invisible ==
  ASSUME UNCHANGED <<day, booked, profile, CountedToday, StoppedToday>>
  PROVE  UNCHANGED Promise!vars
BY DEF Promise!vars, Booked

LEMMA StepKeepsPromise ==
  ASSUME ResetBeforeRoll = FALSE, DailyInv, [Next]_vars
  PROVE  [Promise!Next]_(Promise!vars)
<1> USE RiskAssumption
<1>1. /\ TypeOK /\ day \in 0..MaxDay /\ daily \in Daily /\ daily.date <= day
      /\ booked \in [Modes -> Int] /\ Booked \in Int /\ profile.limit \in Nat
  BY DEF DailyInv, TypeOK, Daily, Booked, Modes
<1>2. CASE Midnight
  <2>1. /\ day' = day + 1 /\ Booked' = 0 /\ daily' = daily /\ profile' = profile
    BY <1>2 DEF Midnight, Booked, Modes
  <2>2. CountedToday' = 0 /\ StoppedToday' = FALSE
    BY <1>1, <2>1 DEF CountedToday, StoppedToday
  <2> QED
    BY <2>1, <2>2 DEF Promise!Next, Promise!NewDay
<1>3. CASE IterationHead
  <2>1. UNCHANGED <<day, booked, profile>> /\ daily' = CheckDailyLossLimitReset(daily)
    BY <1>3 DEF IterationHead
  <2>2. UNCHANGED <<CountedToday, StoppedToday>>
    <3>1. CASE daily.date = day
      BY <1>1, <2>1, <3>1, CheckKeepsToday
      DEF CountedToday, StoppedToday, DailyInv, ResetTimeIsNextMidnight
    <3>2. CASE daily.date # day
      <4>1. daily' = Fresh
        BY <1>1, <2>1, <3>2, CheckRollsOldDay
      <4>2. daily'.pnl = 0 /\ daily'.date = day' /\ daily'.reached = FALSE
        BY <2>1, <4>1 DEF Fresh
      <4>3. CountedToday = 0 /\ StoppedToday = FALSE
        BY <3>2 DEF CountedToday, StoppedToday
      <4>4. CountedToday' = 0 /\ StoppedToday' = FALSE
        BY <4>2 DEF CountedToday, StoppedToday
      <4> QED
        BY <4>3, <4>4
    <3> QED
      BY <3>1, <3>2
  <2> QED
    BY <2>1, <2>2, Invisible
<1>4. ASSUME NEW pnl \in Pnls, TradeClosed(pnl)
      PROVE  Promise!BookTrade
  <2> DEFINE r == RollDayIfNeeded(daily)
  <2>1. r.pnl = CountedToday /\ r.reached = StoppedToday
    <3>1. CASE daily.date = day
      BY <1>1, <3>1, RollIsToday DEF CountedToday, StoppedToday
    <3>2. CASE daily.date # day
      <4>1. r.pnl = 0 /\ r.reached = FALSE
        BY <1>1, <3>2, RollIsToday DEF Fresh
      <4> QED
        BY <3>2, <4>1 DEF CountedToday, StoppedToday
    <3> QED
      BY <3>1, <3>2
  <2>2. /\ Booked' = Booked + pnl /\ daily'.date = day /\ daily'.pnl = r.pnl + pnl
        /\ daily'.reached = (r.reached \/ r.pnl + pnl <= -profile.limit)
        /\ r.pnl \in Int /\ pnl \in Int
    BY <1>4, TradeClosedResult DEF Daily
  <2>3. day' = day /\ profile' = profile
    BY <1>4 DEF TradeClosed
  <2> HIDE DEF r
  <2>4. CountedToday' = CountedToday + pnl
    BY <2>1, <2>2, <2>3 DEF CountedToday
  <2>5. StoppedToday' = (StoppedToday \/ CountedToday' <= -profile.limit)
    BY <2>1, <2>2, <2>3, <2>4 DEF StoppedToday
  <2>6. Booked' \in Int /\ CountedToday' = CountedToday + (Booked' - Booked)
    BY <1>1, <2>1, <2>2, <2>4
  <2> QED
    BY <2>3, <2>5, <2>6 DEF Promise!BookTrade
<1>5. CASE PaperReset \/ RealReset \/ ClearAndReset
  <2>1. /\ daily' = ResetDaily(daily) /\ day' = day /\ profile' = profile
        /\ booked' \in [Modes -> Int]
    BY <1>1, <1>5 DEF PaperReset, RealReset, ClearAndReset, ClearTestData, Modes
  <2>2. Booked' \in Int /\ CountedToday' = 0 /\ StoppedToday' = FALSE
    BY <2>1 DEF Booked, Modes, CountedToday, StoppedToday, ResetDaily
  <2> QED
    BY <2>1, <2>2 DEF Promise!Next, Promise!Forgive
<1>6. CASE ClearWithoutBalance
  <2>1. /\ UNCHANGED <<day, daily, profile>> /\ Booked' = 0
    BY <1>6 DEF ClearWithoutBalance, ClearTestData, Booked, Modes
  <2>2. UNCHANGED <<CountedToday, StoppedToday>>
    BY <2>1 DEF CountedToday, StoppedToday
  <2> QED
    BY <2>1, <2>2 DEF Promise!Next, Promise!Purge
<1>7. CASE Restart
  <2>1. UNCHANGED <<day, profile, booked>> /\ Booked' = Booked
    BY <1>7 DEF Restart, Booked
  <2>2. CASE daily' = RestoreDailyPnl
    BY <2>1, <2>2
    DEF RestoreDailyPnl, CountedToday, StoppedToday, Promise!Next, Promise!Reboot
  <2>3. CASE daily' = Fresh
    BY <2>1, <2>3
    DEF Fresh, CountedToday, StoppedToday, Promise!Next, Promise!Reboot
  <2> QED
    BY <1>7, <2>2, <2>3 DEF Restart
<1>8. CASE Configure
  <2>1. UNCHANGED <<day, booked, daily>> /\ profile' \in Profiles
    BY <1>8 DEF Configure, ghosts
  <2>2. UNCHANGED <<Booked, CountedToday, StoppedToday>> /\ profile'.limit \in Nat
    BY <2>1 DEF Booked, CountedToday, StoppedToday
  <2> QED
    BY <2>1, <2>2 DEF Promise!Next, Promise!SetLimit
<1>9. CASE \/ Tick \/ BalanceUpdate
           \/ \E s \in Symbols, z \in Sizes : PositionAdded(s, z)
           \/ \E s \in Symbols : PositionClosed(s)
           \/ Pause \/ Resume \/ TriggerKillSwitch \/ ClearKillSwitch
           \/ EnterRealUnread \/ EnterPaper \/ UNCHANGED vars
  <2>1. UNCHANGED <<day, booked, daily, profile>>
    BY <1>9 DEF Tick, BalanceUpdate, PositionAdded, PositionClosed, Pause, Resume,
                TriggerKillSwitch, ClearKillSwitch, EnterRealUnread, EnterPaper, vars
  <2> QED
    BY <2>1, Invisible DEF CountedToday, StoppedToday
<1> QED
  BY <1>2, <1>3, <1>4, <1>5, <1>6, <1>7, <1>8, <1>9 DEF Next, Promise!Next

\* Rolling the day only when somebody looks is as good as clearing it at
\* midnight: RiskManager implements DailyLossStop.
THEOREM RollingKeepsThePromise ==
  ASSUME ResetBeforeRoll = FALSE
  PROVE  Spec => KeepsTheDailyPromise
<1>1. Init => Promise!Init
  BY RiskAssumption
  DEF Init, Promise!Init, Booked, Modes, CountedToday, StoppedToday, Fresh
<1>2. DailyInv /\ [Next]_vars => [Promise!Next]_(Promise!vars)
  BY StepKeepsPromise
<1> QED
  BY <1>1, <1>2, DailyCounterIsCorrect, PTL
  DEF Spec, KeepsTheDailyPromise, Promise!Spec
=============================================================================
