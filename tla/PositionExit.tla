----------------------------- MODULE PositionExit -----------------------------
(***************************************************************************)
(* The way out of one paper position (src/main.py): the stop, the ladder   *)
(* of take profits, the trailing stop, a channel's report that the stop    *)
(* was hit, the operator's edits, and what a restart reads back.           *)
(*                                                                         *)
(* Three places keep the plan: TradingBot.open_positions, by which the     *)
(* loop trades; ExecutionEngine.paper_positions, which the dashboard shows *)
(* and edits; and the rows of the order, its trades and its signal, from   *)
(* which a restart rebuilds the other two.  Closing awaits the database,   *)
(* so an iteration that closes takes two steps.                            *)
(*                                                                         *)
(* Prices are positive integers, and 0 is a price that is not set; divided *)
(* prices are rounded down.  Who may close at the same time as the loop is *)
(* PaperAccount's question: here one task closes at a time.                *)
(***************************************************************************)
EXTENDS Integers, Sequences, FiniteSetsExt

CONSTANTS
  Setups,  \* what positions are opened with: records
           \* [sign (1 long, -1 short), entry, stop, target, ladder, shares,
           \* rule, telegram]
  Amount,  \* Order.filled_amount
  Prices,  \* prices the market takes
  Edits,   \* prices the operator may enter
  Trails,  \* values settings.trailing_stop_pct takes
  FeePct   \* fee of one side in percent of the price

ASSUME ExitAssumption ==
  /\ Prices \subseteq Nat \ {0} /\ Edits \subseteq Nat \ {0}
  /\ Trails \subseteq 0..99 /\ FeePct \in Nat /\ Amount \in Nat \ (0..2)
  /\ \A s \in Setups :
       /\ s.sign \in {1, -1} /\ s.entry \in Nat \ {0}
       /\ s.stop \in Nat /\ s.target \in Nat
       /\ s.ladder \in Seq(Nat \ {0}) /\ s.shares \in Seq(Nat \ {0})
       /\ s.rule \in {"default", "breakeven"} /\ s.telegram \in BOOLEAN
       \* A signal's targets are listed from the nearest to the farthest,
       \* its last one is its target.  Its stop was compared with the market,
       \* while the order fills at the entry the channel gave: it may lie on
       \* either side of the fill.
       /\ \A i, j \in DOMAIN s.ladder :
            i < j => s.sign * s.ladder[i] < s.sign * s.ladder[j]
       /\ Len(s.ladder) <= Amount
       /\ s.ladder # <<>> => s.telegram /\ s.target = s.ladder[Len(s.ladder)]
       \* Only signals bring shares and a rule of their own.
       /\ s.shares # <<>> \/ s.rule # "default" => s.telegram

VARIABLES
  price,  \* last_prices
  order,  \* the rows of the order: its setup, the volume and the number of
          \* its trades, and whether its signal is linked to it
  bot,    \* TradingBot.open_positions[symbol]
  engine, \* ExecutionEngine.paper_positions[symbol]: stop and target
  loop,   \* what the iteration under way is closing
  fired,  \* history: the levels that closed a part of the position, 0 for
          \* the stop
  moved   \* history: something other than the ladder has set the stop

vars == <<price, order, bot, engine, loop, fired, moved>>

Absent == [open |-> FALSE]
Idle == [closing |-> FALSE]

Setup == order.setup
Passed(sign, p, q) == sign * p >= sign * q
-----------------------------------------------------------------------------
(* The ladder. *)

\* _tp_levels and _restored_tp_levels: a signal without a ladder of its own
\* takes its profit at thirds of the way.
LevelsOf(target, ladder) ==
  IF ~Setup.telegram THEN IF target = 0 THEN <<>> ELSE <<target>>
  ELSE IF ladder # <<>> THEN ladder
  ELSE IF target = 0 THEN <<>>
  ELSE LET way == target - Setup.entry
       IN <<Setup.entry + way \div 3, Setup.entry + (2 * way) \div 3, target>>

Levels == LevelsOf(bot.target, bot.ladder)

\* The levels on the profitable side of the entry.
Reachable(levels) ==
  {i \in DOMAIN levels : Setup.sign * levels[i] > Setup.sign * Setup.entry}

\* Mutant: a level that was passed before the position was opened fires too.
FirstLevel(levels) == 1

\* _first_reachable_tp_index
FirstReachable(levels) ==
  IF Reachable(levels) # {} THEN Min(Reachable(levels)) ELSE Max({Len(levels), 1})

StopHit(p) == bot.stop # 0 /\ Passed(-Setup.sign, p, bot.stop)

\* Levels that may fire and are reached: the farthest one does.
Hit(p) == {i \in DOMAIN Levels : /\ i > bot.hits
                                 /\ i >= FirstReachable(Levels)
                                 /\ Passed(Setup.sign, p, Levels[i])}

Share(level) ==
  IF Len(bot.shares) = Len(Levels) THEN bot.shares[level] ELSE Amount \div Len(Levels)

\* Mutant: a share may be more than what is left.
WholeShare(level) == IF level \in 1..Len(Levels) - 1 THEN Share(level) ELSE bot.amount

\* What a level closes; the last one and the stop, level 0, close the rest.
Part(level) == IF level \in 1..Len(Levels) - 1 THEN Min({Share(level), bot.amount})
               ELSE bot.amount

Breakeven == Setup.entry + Setup.sign * ((2 * Setup.entry * FeePct) \div 100)
Halfway(stop) == stop + (Setup.entry - stop) \div 2

\* Mutant: the stop goes to the level that has just been reached.
StopAtTheLevel(level, levels, stop, rule) ==
  IF level > FirstReachable(levels) THEN levels[level]
  ELSE IF rule = "breakeven" \/ stop = 0 THEN Breakeven ELSE Halfway(stop)

\* Mutant: the stop is moved half the way at every level.
StopHalfwayAgain(level, levels, stop, rule) ==
  IF level > FirstReachable(levels) THEN Halfway(stop)
  ELSE IF rule = "breakeven" \/ stop = 0 THEN Breakeven ELSE Halfway(stop)

\* Where the stop of the rest goes after a partial take profit.
StopAfter(level, levels, stop, rule) ==
  IF level > FirstReachable(levels) THEN levels[level - 1]
  ELSE IF rule = "breakeven" \/ stop = 0 THEN Breakeven ELSE Halfway(stop)
-----------------------------------------------------------------------------
Init == /\ price \in Prices
        /\ order = Absent
        /\ bot = Absent
        /\ engine = Absent
        /\ loop = Idle
        /\ fired = <<>>
        /\ moved = FALSE

\* _execute_telegram_signal, or an entry of an algorithm.
Open(setup) ==
  /\ ~bot.open
  /\ order' = [open |-> TRUE, setup |-> setup, sold |-> 0, hits |-> 0,
               link |-> IF setup.telegram THEN "pending" ELSE "none"]
  /\ bot' = [open |-> TRUE, amount |-> Amount, hits |-> 0, stop |-> setup.stop,
             target |-> setup.target, ladder |-> setup.ladder,
             shares |-> setup.shares, rule |-> setup.rule, channel |-> setup.telegram]
  /\ engine' = [open |-> TRUE, stop |-> setup.stop, target |-> setup.target]
  /\ fired' = <<>>
  /\ moved' = FALSE
  /\ UNCHANGED <<price, loop>>

\* _save_telegram_signal: the signal is linked to the order at the very end.
Link == /\ order.open /\ order.link = "pending"
        /\ order' = [order EXCEPT !.link = "saved"]
        /\ UNCHANGED <<price, bot, engine, loop, fired, moved>>

\* _apply_trailing_stop
TrailingStop(p, trail) ==
  LET candidate == p - Setup.sign * ((p * trail) \div 100)
  IN IF trail > 0 /\ (bot.stop = 0 \/ Setup.sign * candidate > Setup.sign * bot.stop)
     THEN candidate ELSE bot.stop

\* _process_symbol up to the exit: a new price, and nothing to close.
IterateQuietly(p, trail) ==
  LET stop == TrailingStop(p, trail)
  IN /\ bot.open /\ ~loop.closing
     /\ ~(stop # 0 /\ Passed(-Setup.sign, p, stop))
     /\ Hit(p) = {}
     /\ price' = p
     /\ bot' = [bot EXCEPT !.stop = stop]
     /\ moved' = (moved \/ stop # bot.stop)
     /\ UNCHANGED <<order, engine, loop, fired>>

\* ... and the stop or a level to close at, with what the iteration will
\* still know of it after the await.
IterateToClose(p, trail) ==
  LET stop == TrailingStop(p, trail)
      level == IF stop # 0 /\ Passed(-Setup.sign, p, stop) THEN 0 ELSE Max(Hit(p))
  IN /\ bot.open /\ ~loop.closing
     /\ (stop # 0 /\ Passed(-Setup.sign, p, stop)) \/ Hit(p) # {}
     /\ price' = p
     /\ bot' = [bot EXCEPT !.stop = stop]
     /\ moved' = (moved \/ stop # bot.stop)
     /\ loop' = [closing |-> TRUE, level |-> level, part |-> Part(level), stop |-> stop,
                 hits |-> bot.hits, levels |-> Levels]
     /\ UNCHANGED <<order, engine, fired>>

Sold(part) == order' = [order EXCEPT !.sold = @ + part, !.hits = @ + 1]

\* The rest of _check_position_exit, after a partial close.
SettlePart ==
  /\ loop.closing /\ loop.part < bot.amount
  /\ Sold(loop.part)
  /\ bot' = [bot EXCEPT !.amount = @ - loop.part,
                        !.hits = loop.hits + 1,
                        !.stop = StopAfter(loop.level, loop.levels, loop.stop, bot.rule)]
  /\ fired' = Append(fired, loop.level)
  /\ loop' = Idle
  /\ UNCHANGED <<price, engine, moved>>

\* ... and after a full one.
SettleAll ==
  /\ loop.closing /\ loop.part = bot.amount
  /\ Sold(loop.part)
  /\ bot' = Absent /\ engine' = Absent
  /\ fired' = Append(fired, loop.level)
  /\ loop' = Idle
  /\ UNCHANGED <<price, moved>>

\* _on_channel_stop_hit_report
StopReport == /\ bot.open /\ bot.channel /\ ~loop.closing
              /\ Sold(bot.amount)
              /\ bot' = Absent /\ engine' = Absent
              /\ UNCHANGED <<price, loop, fired, moved>>

\* edit_position: both copies get both values.
SetBoth(stop, target) ==
  /\ engine' = [engine EXCEPT !.stop = stop, !.target = target]
  /\ bot' = [bot EXCEPT !.stop = stop, !.target = target]
  /\ moved' = TRUE
  /\ UNCHANGED <<price, order, loop, fired>>

\* The operator sets or clears the stop, the take profit, or both.
EditStop(stop) == engine.open /\ SetBoth(stop, engine.target)
EditTarget(target) == engine.open /\ SetBoth(engine.stop, target)
EditBoth(stop, target) == engine.open /\ SetBoth(stop, target)

\* Mutant: the partial take profits before the restart move no stop.
RestoredStopOfOrder == Setup.stop

\* _load_open_positions_from_db: the stop the ladder has reached, worked out
\* from the number of trades.
RestoredStop ==
  LET linked == order.link = "saved"
      levels == LevelsOf(Setup.target, IF linked THEN Setup.ladder ELSE <<>>)
  IN IF order.hits = 0 THEN Setup.stop
     ELSE IF order.hits = 1 \/ order.hits - 1 > Len(levels)
          THEN IF Setup.stop # 0 /\ ~(linked /\ Setup.rule = "breakeven")
               THEN Halfway(Setup.stop) ELSE Breakeven
          ELSE levels[order.hits - 1]

\* Mutant: a restart takes the volume of the order.
RestoredInFull ==
  [open |-> TRUE, amount |-> Amount, hits |-> order.hits, stop |-> RestoredStop,
   target |-> Setup.target, ladder |-> Setup.ladder, shares |-> Setup.shares,
   rule |-> Setup.rule, channel |-> TRUE]

\* _sync_open_positions_from_execution_engine
RestoredBot ==
  LET linked == order.link = "saved"
  IN [open |-> TRUE, amount |-> Amount - order.sold, hits |-> order.hits,
      stop |-> RestoredStop, target |-> Setup.target,
      ladder |-> IF linked THEN Setup.ladder ELSE <<>>,
      shares |-> IF linked THEN Setup.shares ELSE <<>>,
      rule |-> IF linked THEN Setup.rule ELSE "default",
      channel |-> linked]

\* The process stops between any two steps and starts again.
Restart ==
  /\ order.open
  /\ IF order.sold < Amount
     THEN /\ bot' = RestoredBot
          /\ engine' = [open |-> TRUE, stop |-> RestoredStop, target |-> Setup.target]
     ELSE bot' = Absent /\ engine' = Absent
  /\ order' = [order EXCEPT !.link = IF @ = "pending" THEN "lost" ELSE @]
  /\ loop' = Idle
  /\ UNCHANGED <<price, fired, moved>>

Next == \/ \E setup \in Setups : Open(setup)
        \/ Link
        \/ \E p \in Prices, trail \in Trails : IterateQuietly(p, trail)
        \/ \E p \in Prices, trail \in Trails : IterateToClose(p, trail)
        \/ SettlePart
        \/ SettleAll
        \/ StopReport
        \/ \E stop \in Edits \cup {0} : EditStop(stop)
        \/ \E target \in Edits \cup {0} : EditTarget(target)
        \/ \E stop, target \in Edits \cup {0} : EditBoth(stop, target)
        \/ Restart

Spec == Init /\ [][Next]_vars
-----------------------------------------------------------------------------
(* Properties. *)

PriceLists == Seq(Nat \ {0})
Orders == [open : {TRUE}, setup : Setups, sold : 0..Amount, hits : Nat,
           link : {"pending", "saved", "lost", "none"}]
Positions == [open : {TRUE}, amount : 1..Amount, hits : Nat, stop : Int, target : Nat,
              ladder : PriceLists, shares : PriceLists, rule : {"default", "breakeven"},
              channel : BOOLEAN]
Copies == [open : {TRUE}, stop : Int, target : Nat]
Closes == [closing : {TRUE}, level : Nat, part : 1..Amount, stop : Int, hits : Nat,
           levels : Seq(Int)]

\* Types; and a close under way is of a part of what is left, by the counter
\* of hits that still holds.
TypeOK ==
  /\ price \in Prices
  /\ order \in Orders \cup {Absent}
  /\ bot \in Positions \cup {Absent}
  /\ engine \in Copies \cup {Absent}
  /\ loop \in Closes \cup {Idle}
  /\ engine.open = bot.open
  /\ bot.open => /\ order.open
                 /\ bot.ladder \in {<<>>, Setup.ladder}
                 /\ bot.shares \in {<<>>, Setup.shares}
  /\ loop.closing => /\ bot.open /\ loop.part <= bot.amount
                     /\ loop.hits = bot.hits /\ loop.level <= Len(loop.levels)
  /\ fired \in Seq(Nat) /\ moved \in BOOLEAN

\* What was sold and what is left make up what was bought, and the ladder has
\* counted as many closes as there are trades, whatever the levels that were
\* jumped, the shares, the reports, the edits and the restarts.
ExitsFitThePosition ==
  order.open => /\ order.sold + (IF bot.open THEN bot.amount ELSE 0) = Amount
                /\ bot.open => bot.hits = order.hits

\* The targets were ahead of the price of the entry, farther than the fees,
\* and the ladder has fired them one by one.
PlanIsSound ==
  LET levels == LevelsOf(Setup.target, Setup.ladder)
  IN /\ FirstReachable(levels) = 1
     /\ levels # <<>> => Setup.sign * Breakeven < Setup.sign * levels[1]
InOrder == \A i \in DOMAIN fired : fired[i] = i
OnPlan == order.open /\ ~moved /\ InOrder /\ PlanIsSound /\ order.link # "lost"

\* A restart rebuilds the very position the loop held, the stop the ladder had
\* reached included, out of nothing but the number of trades, once the signal
\* is linked to its order.
RestartKeepsThePlan ==
  bot.open /\ ~loop.closing /\ OnPlan /\ order.link # "pending" =>
    bot = RestoredBot

Settles == Len(fired') > Len(fired)

\* A close by a take profit is a profit before fees, if any target is beyond
\* the price of the entry: a level the fill had already passed never fires.
TakeProfitIsAProfit ==
  [][Settles /\ loop.level > 0 /\ Reachable(loop.levels) # {}
       => Setup.sign * price > Setup.sign * Setup.entry]_vars

\* The stop a partial take profit leaves behind is not hit yet at the price it
\* was taken at, fees covered: the rest is not closed by its own take profit.
StopStaysBehindPrice ==
  [][Settles /\ bot'.open /\ Setup.sign * price > Setup.sign * Breakeven
       => Setup.sign * bot'.stop < Setup.sign * price]_vars

\* A stop that replaces another is not farther from the price than it was, or
\* at least not on the losing side of the entry.
Keeps(old, new) ==
  \/ new = old
  \/ old # 0 /\ Setup.sign * new >= Setup.sign * old
  \/ Setup.sign * new >= Setup.sign * Setup.entry

\* No partial take profit, whatever edits, trailing, jumps and restarts came
\* before, gives up a stop for one that loses more than it, or loses at all
\* where it had passed the entry; and while the ladder alone moves the stop, no
\* restart does either.
StopKeepsItsSide ==
  [][/\ Settles /\ bot'.open => Keeps(loop.stop, bot'.stop)
     /\ bot.open /\ bot'.open /\ OnPlan /\ OnPlan' /\ order.link # "pending"
          => Keeps(bot.stop, bot'.stop)]_vars

\* "We look for the FARTHEST level not reached yet" (src/main.py:2849): no
\* level closes two parts of a position.
LevelsFireOnce == \A i, j \in DOMAIN fired : fired[i] = fired[j] => i = j
=============================================================================
