---------------------------- MODULE SignalLabels ----------------------------
(***************************************************************************)
(* How a past signal of a channel would have ended: the signal is replayed *)
(* against the closes of the hours after it                                *)
(* (src/telegram/signal_outcome_simulation.py) and the result becomes a    *)
(* label that the classifier of signals learns from                        *)
(* (src/telegram/signal_quality_training.py).  Prices are integers; parts  *)
(* of a position are counted in units, Whole of them making the position;  *)
(* a gain is units times the way the price has gone, so that its sign is   *)
(* the sign of the percentage the code works out.                          *)
(***************************************************************************)
EXTENDS Integers, Sequences, FiniteSetsExt

CONSTANTS NoPrice, \* a price the message does not give
          NoLabel  \* simulated_outcome IS NULL

Whole == 60
Resolved == {"win", "loss", "break-even"}

\* _tp_levels
TpLevels(s) ==
  IF s.targets # <<>> THEN s.targets
  ELSE IF s.tp = NoPrice THEN <<>>
  ELSE <<s.entry + (s.tp - s.entry) \div 3, s.entry + ((s.tp - s.entry) * 2) \div 3, s.tp>>

\* What the first targets sell of a sequence of shares, one after the other.
SoldInOrder(shares) ==
  LET sold[l \in 0..Len(shares)] == IF l = 0 THEN 0 ELSE sold[l - 1] + shares[l]
  IN  sold

\* How far a price is beyond another, in the direction of the trade.
Ahead(s, price, from) == IF s.side = "long" THEN price - from ELSE from - price

\* What a level that is not the last sells: the channel's share, or equal parts.
Share(s, level) ==
  LET levels == TpLevels(s)
  IN  IF s.weights # <<>> /\ Len(s.weights) = Len(levels) THEN s.weights[level]
      ELSE Whole \div Len(levels)

\* The stop after a level.
StopAfter(s, level, stop) ==
  CASE level > 1                  -> TpLevels(s)[level - 1]
    [] level <= 1 /\ s.breakeven -> s.entry
    [] OTHER                      -> stop + (s.entry - stop) \div 2

\* One close.  A level counts as reached once, by how many were reached: the furthest one beyond
\* that number is taken.  "sold" is what partial levels have sold.
Bar(s, p, close) ==
  LET levels  == TpLevels(s)
      reached == {l \in p.hits + 1 .. Len(levels) : Ahead(s, close, levels[l]) >= 0}
      level   == Max(reached)
      gain(part) == p.gain + part * Ahead(s, close, s.entry)
  IN  IF p.exit # "none" THEN p
      ELSE IF Ahead(s, close, p.stop) <= 0
      THEN [p EXCEPT !.gain = gain(Whole - p.sold), !.exit = "stop_loss"]
      ELSE IF reached = {} THEN p
      ELSE IF level = Len(levels)
      THEN [p EXCEPT !.gain = gain(Whole - p.sold), !.hits = @ + 1, !.exit = "take_profit"]
      ELSE [p EXCEPT !.gain = gain(Share(s, level)), !.sold = @ + Share(s, level),
                     !.hits = @ + 1, !.stop = StopAfter(s, level, p.stop)]

OutcomeOf(gain) == IF gain > 0 THEN "win" ELSE IF gain < 0 THEN "loss" ELSE "break-even"

\* The position after each close.
Walk(s, closes) ==
  LET walk[n \in 0..Len(closes)] ==
        IF n = 0 THEN [stop |-> s.sl, hits |-> 0, sold |-> 0, gain |-> 0, exit |-> "none"]
        ELSE Bar(s, walk[n - 1], closes[n])
  IN  walk

Unresolved == [outcome |-> "unresolved", gain |-> 0, hits |-> 0, sold |-> 0]

\* Mutant: a signal that has reached a target counts as won.
SimulateByTargets(s, closes) ==
  LET p == Walk(s, closes)[Len(closes)]
      label(outcome) == [outcome |-> outcome, gain |-> p.gain, hits |-> p.hits, sold |-> p.sold]
  IN  IF TpLevels(s) = <<>> \/ closes = <<>> THEN Unresolved
      ELSE IF p.exit # "none" /\ p.hits = 0 THEN label(OutcomeOf(p.gain))
      ELSE label(IF p.hits > 0 THEN "win" ELSE "unresolved")

\* simulate_signal_against_candles
Simulate(s, closes) ==
  LET p == Walk(s, closes)[Len(closes)]
      label(outcome) == [outcome |-> outcome, gain |-> p.gain, hits |-> p.hits, sold |-> p.sold]
  IN  IF TpLevels(s) = <<>> \/ closes = <<>> THEN Unresolved
      ELSE IF p.exit # "none" THEN label(OutcomeOf(p.gain))
      ELSE label(IF p.hits > 0 THEN "win" ELSE "unresolved")

\* extract_signal_features: signals without levels or without a distance to the stop have none.
HasFeatures(s) == TpLevels(s) # <<>> /\ s.sl # s.entry

\* Every target lies where the trade wins; no parser makes sure of that.
Sensible(s) == \A l \in DOMAIN TpLevels(s) : Ahead(s, TpLevels(s)[l], s.entry) >= 0

\* No target sells more than one before it.
SharesDecline(s) ==
  \A l, m \in DOMAIN TpLevels(s) : l <= m => Share(s, m) <= Share(s, l)

\* The column "target" of build_signal_quality_training_data.
TargetOf(label) == IF label.outcome = "loss" THEN 1 ELSE 0
=============================================================================
