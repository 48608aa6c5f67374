-------------------------- MODULE PositionExitProofs --------------------------
(***************************************************************************)
(* Theorems about PositionExit, for every setup, price, edit, trailing     *)
(* distance and fee: whatever the order of jumps, edits, reports and       *)
(* restarts, what a position has sold and what is left of it fit, targets  *)
(* are profits, the stop stays behind the price and tightens, and a        *)
(* restart rebuilds it.                                                    *)
(***************************************************************************)
EXTENDS PositionExit, SequenceTheorems, WellFoundedInduction, TLAPS

-----------------------------------------------------------------------------
(* Least and greatest elements. *)

\* The order of the natural numbers, as a set of pairs.
Smaller == {ss \in Nat \X Nat : ss[1] < ss[2]}
LEMMA SmallerIsWellFounded == IsWellFoundedOn(Smaller, Nat)
<1>1. Smaller = OpToRel(<, Nat)
  BY Zenon DEF Smaller, OpToRel
<1> QED
  BY <1>1, NatLessThanWellFounded, Zenon

\* The greatest level of a nonempty set of levels is one of them.
LEMMA MaxIsIn ==
  ASSUME NEW n \in Nat, NEW S, S \subseteq 1..n, S # {}
  PROVE  /\ Max(S) \in S
         /\ \A y \in S : Max(S) >= y
<1> DEFINE T == {t \in Nat : n - t \in S}
<1>1. T \subseteq Nat /\ T # {}
  <2>1. PICK x \in S : TRUE
    OBVIOUS
  <2>2. x \in 1..n /\ n - (n - x) = x /\ n - x \in Nat
    OBVIOUS
  <2> QED
    BY <2>2
<1>2. PICK t \in T : \A u \in T : <<u, t>> \notin Smaller
  <2> HIDE DEF T
  <2> QED
    BY <1>1, SmallerIsWellFounded, WFMin, Zenon
<1>3. \A y \in S : n - t >= y
  <2>1. SUFFICES ASSUME NEW y \in S, y > n - t PROVE FALSE
    BY <1>2
  <2>2. n - y \in Nat /\ n - (n - y) = y
    OBVIOUS
  <2>3. n - y \in T /\ n - y < t
    BY <1>2, <2>1, <2>2
  <2> QED
    BY <1>2, <2>3 DEF Smaller
<1>4. \E x \in S : \A y \in S : x >= y
  BY <1>2, <1>3
<1> QED
  BY <1>4 DEF Max

\* The least of a nonempty set of natural numbers is one of them.
LEMMA MinIsIn ==
  ASSUME NEW S, S \subseteq Nat, S # {}
  PROVE  Min(S) \in S
<1>1. PICK t \in S : \A u \in S : <<u, t>> \notin Smaller
  BY SmallerIsWellFounded, WFMin, Zenon
<1>2. \A u \in S : t <= u
  <2>1. SUFFICES ASSUME NEW u \in S, u < t PROVE FALSE
    OBVIOUS
  <2> QED
    BY <1>1, <2>1 DEF Smaller
<1> QED
  BY <1>2 DEF Min

\* The smaller of two numbers.
LEMMA MinOfTwo ==
  ASSUME NEW a \in Int, NEW b \in Int
  PROVE  /\ Min({a, b}) \in {a, b}
         /\ Min({a, b}) <= a
         /\ Min({a, b}) <= b
<1>1. \E x \in {a, b} : \A y \in {a, b} : x <= y
  OBVIOUS
<1> QED
  BY <1>1 DEF Min

\* A share of a volume that is at least the number of shares is not empty.
LEMMA ShareIsPositive ==
  ASSUME NEW a \in Nat, NEW d \in Nat \ {0}, d <= a
  PROVE  a \div d \in Nat \ {0}
<1>1. a = d * (a \div d) + (a % d) /\ a % d \in 0..d - 1 /\ a \div d \in Int
  OBVIOUS
<1>2. CASE a \div d <= 0
  <2>1. d * (a \div d) <= 0
    BY <1>1, <1>2
  <2> QED
    BY <1>1, <2>1
<1> QED
  BY <1>1, <1>2
-----------------------------------------------------------------------------
(* What the operators of the ladder return. *)

\* A ladder has no more levels than the position has units of volume.
LEMMA LevelsType ==
  ASSUME order \in Orders, NEW t \in Nat, NEW l \in {<<>>, Setup.ladder}
  PROVE  LevelsOf(t, l) \in Seq(Int) /\ Len(LevelsOf(t, l)) <= Amount
<1> USE ExitAssumption
<1>1. /\ Setup \in Setups /\ Setup.entry \in Nat
      /\ l \in Seq(Int) /\ Len(l) <= Amount
  <2>1. Setup \in Setups
    BY DEF Orders, Setup
  <2>2. Setup.ladder \in Seq(Nat \ {0}) /\ Nat \ {0} \subseteq Int
    BY <2>1
  <2>3. l \in Seq(Int)
    <3>1. CASE l = <<>>
      BY <3>1, EmptySeq
    <3>2. CASE l = Setup.ladder
      BY <2>2, <3>2, SeqMonotonic
    <3> QED
      BY <3>1, <3>2
  <2>4. Len(l) <= Amount
    BY <2>1
  <2> QED
    BY <2>1, <2>3, <2>4
<1>2. CASE ~Setup.telegram
  BY <1>1, <1>2 DEF LevelsOf
<1>3. CASE Setup.telegram /\ l # <<>>
  BY <1>1, <1>3 DEF LevelsOf
<1>4. CASE Setup.telegram /\ l = <<>> /\ t = 0
  BY <1>1, <1>4 DEF LevelsOf
<1>5. CASE Setup.telegram /\ l = <<>> /\ t # 0
  <2> DEFINE way == t - Setup.entry
  <2>1. LevelsOf(t, l) = <<Setup.entry + way \div 3, Setup.entry + (2 * way) \div 3, t>>
    BY <1>5 DEF LevelsOf
  <2>2. way \div 3 \in Int /\ (2 * way) \div 3 \in Int
    BY <1>1
  <2>3. \A x, y, z \in Int : <<x, y, z>> \in Seq(Int) /\ Len(<<x, y, z>>) = 3
    OBVIOUS
  <2>4. Setup.entry + way \div 3 \in Int /\ Setup.entry + (2 * way) \div 3 \in Int /\ t \in Int
    BY SMTT(20), <1>1, <2>2
  <2>5. LevelsOf(t, l) \in Seq(Int) /\ Len(LevelsOf(t, l)) = 3
    <3>1. PICK x, y \in Int : LevelsOf(t, l) = <<x, y, t>>
      BY <2>1, <2>4, Zenon
    <3> QED
      BY <2>3, <2>4, <3>1
  <2> QED
    BY <2>5
<1> QED
  BY <1>2, <1>3, <1>4, <1>5

\* What a level closes is something, and no more than what is left.
LEMMA PartFits ==
  ASSUME TypeOK, bot.open, NEW level \in Nat
  PROVE  Part(level) \in 1..bot.amount
<1> USE ExitAssumption
<1>1. bot \in Positions /\ order \in Orders
  BY DEF TypeOK, Absent
<1>2. /\ bot.amount \in 1..Amount /\ bot.target \in Nat
      /\ bot.ladder \in {<<>>, Setup.ladder} /\ bot.shares \in Seq(Nat \ {0})
  BY <1>1 DEF TypeOK, Positions, PriceLists
<1>3. Levels \in Seq(Int) /\ Len(Levels) <= Amount
  BY <1>1, <1>2, LevelsType DEF Levels
<1>4. CASE level \in 1..Len(Levels) - 1
  <2>1. Len(Levels) \in Nat \ {0} /\ Amount \in Nat
    BY <1>3, <1>4
  <2>2. Amount \div Len(Levels) \in Nat \ {0}
    BY <1>3, <2>1, ShareIsPositive
  <2>3. Len(bot.shares) = Len(Levels) => bot.shares[level] \in Nat \ {0}
    BY <1>2, <1>3, <1>4
  <2>4. Share(level) \in Nat \ {0}
    BY <2>2, <2>3 DEF Share
  <2>5. Part(level) = Min({Share(level), bot.amount})
    BY <1>4 DEF Part
  <2>6. /\ Min({Share(level), bot.amount}) \in {Share(level), bot.amount}
        /\ Min({Share(level), bot.amount}) <= bot.amount
    <3>1. Share(level) \in Int /\ bot.amount \in Int
      BY <1>2, <2>4
    <3> QED
      BY <3>1, MinOfTwo, Zenon
  <2> QED
    BY <1>2, <2>4, <2>5, <2>6
<1>5. CASE level \notin 1..Len(Levels) - 1
  BY <1>2, <1>5 DEF Part
<1> QED
  BY <1>4, <1>5

\* What fires is a level of the ladder.
LEMMA HitIsALevel ==
  ASSUME TypeOK, bot.open, NEW p \in Prices, Hit(p) # {}
  PROVE  Levels \in Seq(Int) /\ Max(Hit(p)) \in 1..Len(Levels)
<1>1. bot \in Positions /\ order \in Orders
  BY DEF TypeOK, Absent
<1>2. Levels \in Seq(Int)
  BY <1>1, LevelsType DEF Levels, Positions, TypeOK
<1>3. Len(Levels) \in Nat /\ Hit(p) \subseteq 1..Len(Levels)
  BY <1>2 DEF Hit
<1> QED
  BY <1>2, <1>3, MaxIsIn

\* The first level that may fire has a number.
LEMMA FirstReachableType ==
  ASSUME NEW levels \in Seq(Int)
  PROVE  FirstReachable(levels) \in Nat \ {0}
<1>1. Reachable(levels) \subseteq Nat \ {0}
  BY DEF Reachable
<1>2. CASE Reachable(levels) # {}
  <2>1. Min(Reachable(levels)) \in Reachable(levels)
    BY <1>1, <1>2, MinIsIn
  <2> QED
    BY <1>1, <1>2, <2>1 DEF FirstReachable
<1>3. CASE Reachable(levels) = {}
  <2>1. Len(levels) \in Nat
    OBVIOUS
  <2>2. \E x \in {Len(levels), 1} : \A y \in {Len(levels), 1} : x >= y
    BY <2>1
  <2>3. Max({Len(levels), 1}) \in {Len(levels), 1} /\ Max({Len(levels), 1}) >= 1
    BY <2>2 DEF Max
  <2> QED
    BY <1>3, <2>1, <2>3 DEF FirstReachable
<1> QED
  BY <1>2, <1>3

\* The stops at no loss are prices.
LEMMA StopTypes ==
  ASSUME order \in Orders
  PROVE  /\ Breakeven \in Int
         /\ \A stop \in Int : Halfway(stop) \in Int
<1> USE ExitAssumption
<1>1. Setup.entry \in Int /\ Setup.sign \in Int /\ FeePct \in Int
  BY DEF Orders, Setup
<1>2. 2 * Setup.entry * FeePct \in Int
  BY <1>1
<1>3. (2 * Setup.entry * FeePct) \div 100 \in Int
  BY <1>2
<1>4. Setup.sign * ((2 * Setup.entry * FeePct) \div 100) \in Int
  BY <1>1, <1>3
<1>5. Breakeven \in Int
  BY <1>1, <1>4 DEF Breakeven
<1>6. ASSUME NEW stop \in Int PROVE Halfway(stop) \in Int
  BY <1>1 DEF Halfway
<1> QED
  BY <1>5, <1>6

\* So is the stop of the rest after a level has closed its part.
LEMMA StopAfterType ==
  ASSUME order \in Orders, NEW levels \in Seq(Int), NEW level \in 0..Len(levels),
         NEW stop \in Int, NEW rule
  PROVE  StopAfter(level, levels, stop, rule) \in Int
<1>1. CASE level > FirstReachable(levels)
  <2>1. level - 1 \in 1..Len(levels)
    BY <1>1, FirstReachableType
  <2> QED
    BY <1>1, <2>1 DEF StopAfter
<1>2. CASE ~(level > FirstReachable(levels))
  BY <1>2, StopTypes DEF StopAfter
<1> QED
  BY <1>1, <1>2

\* So is the stop the trailing distance allows.
LEMMA TrailingStopType ==
  ASSUME order \in Orders, bot \in Positions, NEW p \in Prices, NEW trail \in Trails
  PROVE  TrailingStop(p, trail) \in Int
<1> USE ExitAssumption
<1>1. p \in Int /\ trail \in Int /\ bot.stop \in Int /\ Setup.sign \in Int
  <2>1. p \in Int /\ trail \in Int
    OBVIOUS
  <2>2. bot.stop \in Int
    BY DEF Positions
  <2>3. Setup.sign \in Int
    BY DEF Orders, Setup
  <2> QED
    BY <2>1, <2>2, <2>3
<1>2. (p * trail) \div 100 \in Int
  <2>1. p * trail \in Int
    BY <1>1
  <2> QED
    BY <2>1
<1>3. p - Setup.sign * ((p * trail) \div 100) \in Int
  <2>1. Setup.sign * ((p * trail) \div 100) \in Int
    BY <1>1, <1>2
  <2> QED
    BY <1>1, <2>1
<1> QED
  BY <1>1, <1>3 DEF TrailingStop

\* So is the stop a restart works out.
LEMMA RestoredStopType ==
  ASSUME order \in Orders
  PROVE  RestoredStop \in Int
<1> USE ExitAssumption
<1> DEFINE linked == order.link = "saved"
           levels == LevelsOf(Setup.target, IF linked THEN Setup.ladder ELSE <<>>)
<1>1. Setup.stop \in Int /\ Setup.target \in Nat /\ order.hits \in Nat
  BY DEF Orders, Setup
<1>2. levels \in Seq(Int)
  BY <1>1, LevelsType
<1>3. CASE order.hits = 0
  BY <1>1, <1>3 DEF RestoredStop
<1>4. CASE order.hits # 0 /\ (order.hits = 1 \/ order.hits - 1 > Len(levels))
  BY <1>1, <1>4, StopTypes DEF RestoredStop
<1>5. CASE order.hits # 0 /\ order.hits # 1 /\ ~(order.hits - 1 > Len(levels))
  <2>1. order.hits - 1 \in 1..Len(levels)
    BY <1>1, <1>2, <1>5
  <2>2. RestoredStop = levels[order.hits - 1]
    BY <1>5 DEF RestoredStop
  <2> QED
    BY <1>2, <2>1, <2>2
<1> QED
  BY <1>3, <1>4, <1>5
-----------------------------------------------------------------------------
(* The invariant and the steps that keep it. *)

\* Types, and sold and left make up what was bought; the part that is being
\* closed and the counter that was read (in TypeOK) make it inductive.
ExitInv == TypeOK /\ ExitsFitThePosition

\* An open position has its copy and its order.
LEMMA OpenTypes ==
  ASSUME TypeOK, bot.open
  PROVE  bot \in Positions /\ order \in Orders /\ engine \in Copies
<1>1. order.open /\ engine.open
  BY DEF TypeOK
<1> QED
  BY <1>1 DEF TypeOK, Absent

\* What a trade does to the order's row.
LEMMA SoldAdds ==
  ASSUME order \in Orders, NEW part \in Nat, order.sold + part <= Amount, Sold(part)
  PROVE  /\ order' \in Orders /\ order'.open /\ order'.setup = order.setup
         /\ order'.sold = order.sold + part /\ order'.hits = order.hits + 1
<1>1. order.sold \in 0..Amount /\ order.hits \in Nat
  BY DEF Orders
<1>2. order.sold + part \in 0..Amount /\ order.hits + 1 \in Nat
  BY <1>1, ExitAssumption
<1>3. order' = [order EXCEPT !.sold = order.sold + part, !.hits = order.hits + 1]
  BY DEF Sold
<1> QED
  BY <1>2, <1>3 DEF Orders

\* Nothing is open at first.
LEMMA InitExitInv == Init => ExitInv
<1> SUFFICES ASSUME Init PROVE ExitInv
  OBVIOUS
<1>1. fired \in Seq(Nat)
  BY EmptySeq DEF Init
<1>2. ~order.open /\ ~bot.open /\ ~engine.open /\ ~loop.closing
  BY DEF Init, Absent, Idle
<1>3. TypeOK
  BY <1>1, <1>2 DEF Init, TypeOK, Absent, Idle
<1> QED
  BY <1>2, <1>3 DEF ExitInv, ExitsFitThePosition

\* An opened position is whole.
LEMMA OpenKeepsInv ==
  ASSUME ExitInv, NEW setup \in Setups, Open(setup)
  PROVE  ExitInv'
<1> USE ExitAssumption DEF Open, ExitInv
<1>1. order' \in Orders /\ order'.setup = setup /\ order'.open
      /\ order'.sold = 0 /\ order'.hits = 0
  BY DEF Orders
<1>2. setup.ladder \in PriceLists /\ setup.shares \in PriceLists
  BY DEF PriceLists
<1>3. /\ bot' \in Positions /\ engine' \in Copies
      /\ bot'.open /\ engine'.open /\ bot'.ladder = setup.ladder
      /\ bot'.shares = setup.shares /\ bot'.amount = Amount /\ bot'.hits = 0
  BY <1>2 DEF Positions, Copies
<1>4. loop' = Idle
  BY DEF TypeOK, Idle, Closes
<1>5. fired' \in Seq(Nat) /\ moved' \in BOOLEAN /\ price' \in Prices
  <2>1. fired' \in Seq(Nat)
    BY EmptySeq
  <2> QED
    BY <2>1 DEF TypeOK
<1>6. TypeOK'
  <2>1. bot'.open = engine'.open
    OBVIOUS
  <2>2. ~loop'.closing
    BY <1>4 DEF Idle
  <2> QED
    BY <1>1, <1>3, <1>4, <1>5, <2>2 DEF TypeOK, Setup
<1> QED
  BY <1>1, <1>3, <1>6 DEF ExitsFitThePosition

\* Steps that move neither volume nor counter: only stops, targets, prices and
\* the link change.
LEMMA LinkKeepsInv ==
  ASSUME ExitInv, Link
  PROVE  ExitInv'
<1> USE DEF Link, ExitInv
<1>1. order \in Orders
  BY DEF TypeOK, Absent
<1>2. order' \in Orders /\ order'.sold = order.sold /\ order'.hits = order.hits
      /\ order'.setup = order.setup /\ order'.open
  BY <1>1 DEF Orders
<1>3. TypeOK'
  BY <1>2 DEF TypeOK, Setup
<1> QED
  BY <1>1, <1>2, <1>3 DEF ExitsFitThePosition, Orders

\* A new stop or target of the position the loop holds, and of the copy.
LEMMA NewLevelsKeepInv ==
  ASSUME ExitInv, bot.open, NEW stop \in Int, NEW target \in Nat,
         bot' = [bot EXCEPT !.stop = stop, !.target = target],
         engine' \in Copies, order' = order,
         price' \in Prices, moved' \in BOOLEAN, fired' \in Seq(Nat),
         loop' \in Closes \cup {Idle},
         loop'.closing => /\ loop'.part <= bot.amount /\ loop'.hits = bot.hits
                          /\ loop'.level <= Len(loop'.levels)
  PROVE  ExitInv'
<1> USE DEF ExitInv
<1>1. bot \in Positions /\ order \in Orders
  BY DEF TypeOK, Absent
<1>2. /\ bot' \in Positions /\ bot'.open /\ bot'.amount = bot.amount
      /\ bot'.hits = bot.hits /\ bot'.ladder = bot.ladder /\ bot'.shares = bot.shares
  BY <1>1 DEF Positions
<1>3. engine'.open
  BY DEF Copies
<1>4. TypeOK'
  BY <1>1, <1>2, <1>3 DEF TypeOK, Setup
<1> QED
  BY <1>1, <1>2, <1>4 DEF ExitsFitThePosition

\* An iteration that closes nothing moves the stop at most.
LEMMA IterateQuietlyKeepsInv ==
  ASSUME ExitInv, NEW p \in Prices, NEW trail \in Trails, IterateQuietly(p, trail)
  PROVE  ExitInv'
<1> USE DEF ExitInv
<1>1. bot \in Positions /\ order \in Orders /\ engine \in Copies
  <2>1. bot.open
    BY DEF IterateQuietly
  <2> QED
    BY <2>1, OpenTypes
<1>2. TrailingStop(p, trail) \in Int
  BY <1>1, TrailingStopType
<1>3. bot' = [bot EXCEPT !.stop = TrailingStop(p, trail), !.target = bot.target]
  BY <1>1 DEF IterateQuietly, Positions
<1>4. bot.target \in Nat
  BY <1>1 DEF Positions
<1>5. moved' \in BOOLEAN /\ ~loop.closing /\ bot.open /\ price' \in Prices
  BY DEF IterateQuietly, TypeOK
<1>6. engine' \in Copies /\ order' = order /\ fired' \in Seq(Nat)
      /\ loop' \in Closes \cup {Idle} /\ ~loop'.closing
  BY <1>1, <1>5 DEF IterateQuietly, TypeOK
<1> QED
  BY <1>2, <1>3, <1>4, <1>5, <1>6, NewLevelsKeepInv

\* An iteration that will close has chosen a part of what is left.
LEMMA IterateToCloseKeepsInv ==
  ASSUME ExitInv, NEW p \in Prices, NEW trail \in Trails, IterateToClose(p, trail)
  PROVE  ExitInv'
<1> DEFINE stop == TrailingStop(p, trail)
           hit == stop # 0 /\ Passed(-Setup.sign, p, stop)
           level == IF hit THEN 0 ELSE Max(Hit(p))
<1> USE DEF ExitInv
<1>1. bot.open /\ bot \in Positions /\ order \in Orders /\ engine \in Copies
  <2>1. bot.open
    BY DEF IterateToClose
  <2> QED
    BY <2>1, OpenTypes
<1>2. stop \in Int
  BY <1>1, TrailingStopType
<1>3. bot' = [bot EXCEPT !.stop = stop, !.target = bot.target]
  BY <1>1 DEF IterateToClose, Positions
<1>4. bot.target \in Nat /\ bot.hits \in Nat /\ bot.amount \in 1..Amount
  BY <1>1 DEF Positions
<1>5. Levels \in Seq(Int) /\ level \in 0..Len(Levels)
  <2>1. Levels \in Seq(Int)
    BY <1>1, <1>4, LevelsType DEF Levels, TypeOK
  <2>2. CASE hit
    BY <2>1, <2>2
  <2>3. CASE ~hit
    <3>1. Hit(p) # {}
      BY <2>3 DEF IterateToClose
    <3>2. Max(Hit(p)) \in 1..Len(Levels)
      BY <1>1, <3>1, HitIsALevel
    <3> QED
      BY <2>1, <2>3, <3>2
  <2> QED
    BY <2>2, <2>3
<1>6. Part(level) \in 1..bot.amount
  <2>1. level \in Nat
    BY <1>5
  <2> QED
    BY <1>1, <2>1, PartFits
<1>7. loop' = [closing |-> TRUE, level |-> level, part |-> Part(level), stop |-> stop,
               hits |-> bot.hits, levels |-> Levels]
  BY DEF IterateToClose
<1>8. loop' \in Closes /\ loop'.part <= bot.amount /\ loop'.hits = bot.hits
      /\ loop'.level <= Len(loop'.levels)
  <2> HIDE DEF level, stop
  <2>1. Part(level) \in 1..Amount /\ Part(level) <= bot.amount
    BY <1>4, <1>6, ExitAssumption
  <2>2. level \in Nat /\ level <= Len(Levels)
    BY <1>5
  <2> QED
    BY <1>2, <1>4, <1>5, <1>7, <2>1, <2>2 DEF Closes
<1>9. /\ moved' \in BOOLEAN /\ price' \in Prices /\ engine' \in Copies
      /\ order' = order /\ fired' \in Seq(Nat)
  BY <1>1 DEF IterateToClose, TypeOK
<1> QED
  <2> HIDE DEF stop
  <2> QED
    BY <1>1, <1>2, <1>3, <1>4, <1>8, <1>9, NewLevelsKeepInv

\* An edit moves no volume.
LEMMA SetBothKeepsInv ==
  ASSUME ExitInv, engine.open, NEW stop \in Int, NEW target \in Nat, SetBoth(stop, target)
  PROVE  ExitInv'
<1> USE DEF ExitInv
<1>1. bot.open /\ engine \in Copies
  BY DEF TypeOK, Absent
<1>2. engine' \in Copies
  BY <1>1 DEF SetBoth, Copies
<1>3. /\ moved' \in BOOLEAN /\ price' \in Prices /\ order' = order /\ fired' \in Seq(Nat)
      /\ loop' \in Closes \cup {Idle}
  BY DEF SetBoth, TypeOK
<1>4. bot' = [bot EXCEPT !.stop = stop, !.target = target]
  BY DEF SetBoth
<1>5. loop'.closing => /\ loop'.part <= bot.amount /\ loop'.hits = bot.hits
                       /\ loop'.level <= Len(loop'.levels)
  BY DEF SetBoth, TypeOK
<1> QED
  BY <1>1, <1>2, <1>3, <1>4, <1>5, NewLevelsKeepInv

\* A trade adds to what is sold what it takes from what is left, and is counted
\* on both sides.
LEMMA SettlePartKeepsInv ==
  ASSUME ExitInv, SettlePart
  PROVE  ExitInv'
<1> DEFINE stop == StopAfter(loop.level, loop.levels, loop.stop, bot.rule)
<1> USE ExitAssumption DEF ExitInv
<1>1. /\ loop.closing /\ loop.part < bot.amount /\ Sold(loop.part) /\ loop' = Idle
      /\ bot' = [bot EXCEPT !.amount = @ - loop.part, !.hits = loop.hits + 1, !.stop = stop]
      /\ fired' = Append(fired, loop.level) /\ UNCHANGED <<price, engine, moved>>
  BY DEF SettlePart
<1>2. loop \in Closes /\ bot.open
  BY <1>1 DEF TypeOK, Idle
<1>3. bot \in Positions /\ order \in Orders
  BY <1>2 DEF TypeOK, Absent
<1>4. /\ loop.part \in 1..Amount /\ loop.level \in Nat /\ loop.hits = bot.hits
      /\ loop.stop \in Int /\ loop.levels \in Seq(Int) /\ loop.level <= Len(loop.levels)
  BY <1>1, <1>2 DEF TypeOK, Closes
<1>5. stop \in Int
  <2>1. loop.level \in 0..Len(loop.levels)
    BY <1>4
  <2> QED
    BY <1>3, <1>4, <2>1, StopAfterType
<1> HIDE DEF stop
<1>6. /\ bot.amount \in 1..Amount /\ bot.hits \in Nat
      /\ order.sold \in 0..Amount /\ order.hits \in Nat
      /\ order.sold + bot.amount = Amount /\ bot.hits = order.hits
  BY <1>2, <1>3 DEF Positions, Orders, ExitsFitThePosition
<1>7. /\ order' \in Orders /\ order'.setup = order.setup /\ order'.open
      /\ order'.sold = order.sold + loop.part /\ order'.hits = order.hits + 1
  <2>1. order.sold + loop.part <= Amount /\ loop.part \in Nat
    BY <1>1, <1>4, <1>6
  <2> QED
    BY <1>1, <1>3, <2>1, SoldAdds
<1>8. /\ bot' \in Positions /\ bot'.open /\ bot'.amount = bot.amount - loop.part
      /\ bot'.hits = bot.hits + 1 /\ bot'.ladder = bot.ladder /\ bot'.shares = bot.shares
  <2>1. bot.amount - loop.part \in 1..Amount /\ loop.hits + 1 \in Nat
    BY SMTT(20), <1>1, <1>4, <1>6
  <2> QED
    BY <1>1, <1>3, <1>4, <1>5, <2>1 DEF Positions
<1>9. TypeOK'
  <2>1. fired' \in Seq(Nat)
    BY <1>1, <1>4 DEF TypeOK
  <2>2. ~loop'.closing
    BY <1>1 DEF Idle
  <2> QED
    BY <1>1, <1>2, <1>7, <1>8, <2>1, <2>2 DEF TypeOK, Setup
<1> QED
  BY <1>4, <1>6, <1>7, <1>8, <1>9 DEF ExitsFitThePosition

\* A trade for all that is left leaves nothing.
LEMMA SellAllKeepsInv ==
  ASSUME ExitInv, bot.open, Sold(bot.amount), bot' = Absent, engine' = Absent,
         loop' \in {loop, Idle}, ~loop'.closing, price' \in Prices,
         fired' \in Seq(Nat), moved' \in BOOLEAN
  PROVE  ExitInv'
<1> USE ExitAssumption DEF ExitInv
<1>1. bot \in Positions /\ order \in Orders
  BY DEF TypeOK, Absent
<1>2. /\ bot.amount \in 1..Amount /\ order.sold \in 0..Amount /\ order.hits \in Nat
      /\ order.sold + bot.amount = Amount
  BY <1>1 DEF Positions, Orders, ExitsFitThePosition
<1>3. order' \in Orders /\ order'.open /\ order'.sold = Amount
  <2>1. order.sold + bot.amount <= Amount /\ bot.amount \in Nat
    BY <1>2
  <2> QED
    BY <1>1, <1>2, <2>1, SoldAdds
<1>4. ~bot'.open /\ ~engine'.open
  BY DEF Absent
<1>5. TypeOK'
  BY <1>3, <1>4 DEF TypeOK
<1> QED
  BY <1>3, <1>4, <1>5 DEF ExitsFitThePosition

\* The loop's own full close.
LEMMA SettleAllKeepsInv ==
  ASSUME ExitInv, SettleAll
  PROVE  ExitInv'
<1>1. /\ loop.closing /\ loop.part = bot.amount /\ Sold(loop.part) /\ loop' = Idle
      /\ bot' = Absent /\ engine' = Absent /\ fired' = Append(fired, loop.level)
      /\ UNCHANGED <<price, moved>>
  BY DEF SettleAll
<1>2. loop \in Closes /\ bot.open
  BY <1>1 DEF ExitInv, TypeOK, Idle
<1>3. fired' \in Seq(Nat) /\ moved' \in BOOLEAN /\ price' \in Prices
  BY <1>1, <1>2 DEF ExitInv, TypeOK, Closes
<1>4. ~loop'.closing
  BY <1>1 DEF Idle
<1> QED
  BY <1>1, <1>2, <1>3, <1>4, SellAllKeepsInv

\* The close a channel's report causes.
LEMMA StopReportKeepsInv ==
  ASSUME ExitInv, StopReport
  PROVE  ExitInv'
<1>1. /\ bot.open /\ ~loop.closing /\ Sold(bot.amount) /\ loop' = loop
      /\ bot' = Absent /\ engine' = Absent /\ UNCHANGED <<price, fired, moved>>
  BY DEF StopReport
<1>2. fired' \in Seq(Nat) /\ moved' \in BOOLEAN /\ price' \in Prices
  BY <1>1 DEF ExitInv, TypeOK
<1> QED
  BY <1>1, <1>2, SellAllKeepsInv

\* A restart takes what is left from the trades themselves.
LEMMA RestartKeepsInv ==
  ASSUME ExitInv, Restart
  PROVE  ExitInv'
<1> USE ExitAssumption DEF ExitInv
<1>1. order.open /\ order \in Orders
  BY DEF Restart, TypeOK, Absent
<1>2. /\ order.sold \in 0..Amount /\ order.hits \in Nat /\ Setup \in Setups
      /\ Setup.target \in Nat /\ Setup.ladder \in PriceLists /\ Setup.shares \in PriceLists
      /\ Setup.rule \in {"default", "breakeven"}
  BY <1>1 DEF Orders, Setup, PriceLists
<1>3. /\ order' \in Orders /\ order'.open /\ order'.setup = order.setup
      /\ order'.sold = order.sold /\ order'.hits = order.hits
  <2>1. order' = [order EXCEPT !.link = IF @ = "pending" THEN "lost" ELSE @]
    BY DEF Restart
  <2> QED
    BY <1>1, <2>1 DEF Orders
<1>4. /\ loop' = Idle /\ ~loop'.closing /\ price' \in Prices /\ moved' \in BOOLEAN
      /\ fired' \in Seq(Nat)
  BY DEF Restart, TypeOK, Idle
<1>5. CASE order.sold < Amount
  <2>1. bot' = RestoredBot
        /\ engine' = [open |-> TRUE, stop |-> RestoredStop, target |-> Setup.target]
    BY <1>5 DEF Restart
  <2>2. RestoredStop \in Int
    BY <1>1, RestoredStopType
  <2>3. engine' \in Copies /\ engine'.open
    BY <1>2, <2>1, <2>2 DEF Copies
  <2>4. /\ bot' \in Positions /\ bot'.open /\ bot'.amount = Amount - order.sold
        /\ bot'.hits = order.hits
        /\ bot'.ladder \in {<<>>, Setup.ladder} /\ bot'.shares \in {<<>>, Setup.shares}
    <3>1. Amount - order.sold \in 1..Amount
      BY <1>2, <1>5
    <3>2. <<>> \in PriceLists
      BY EmptySeq DEF PriceLists
    <3> QED
      BY <1>2, <2>1, <2>2, <3>1, <3>2 DEF RestoredBot, Positions
  <2>5. TypeOK'
    BY <1>3, <1>4, <2>3, <2>4 DEF TypeOK, Setup
  <2> QED
    BY <1>2, <1>3, <2>4, <2>5 DEF ExitsFitThePosition
<1>6. CASE ~(order.sold < Amount)
  <2>1. bot' = Absent /\ engine' = Absent
    BY <1>6 DEF Restart
  <2>2. ~bot'.open /\ ~engine'.open
    BY <2>1 DEF Absent
  <2>3. TypeOK'
    BY <1>3, <1>4, <2>1, <2>2 DEF TypeOK
  <2> QED
    BY <1>2, <1>3, <1>6, <2>2, <2>3 DEF ExitsFitThePosition
<1> QED
  BY <1>5, <1>6

\* Every step keeps the invariant.
LEMMA NextKeepsInv == ExitInv /\ [Next]_vars => ExitInv'
<1> SUFFICES ASSUME ExitInv, [Next]_vars PROVE ExitInv'
  OBVIOUS
<1>1. ASSUME NEW setup \in Setups, Open(setup) PROVE ExitInv'
  BY <1>1, OpenKeepsInv
<1>2. CASE Link
  BY <1>2, LinkKeepsInv
<1>3. ASSUME NEW p \in Prices, NEW trail \in Trails,
             IterateQuietly(p, trail) \/ IterateToClose(p, trail)
      PROVE  ExitInv'
  BY <1>3, IterateQuietlyKeepsInv, IterateToCloseKeepsInv
<1>4. CASE SettlePart
  BY <1>4, SettlePartKeepsInv
<1>5. CASE SettleAll
  BY <1>5, SettleAllKeepsInv
<1>6. CASE StopReport
  BY <1>6, StopReportKeepsInv
<1>7. ASSUME NEW stop \in Edits \cup {0}, NEW target \in Edits \cup {0},
             EditStop(stop) \/ EditTarget(target) \/ EditBoth(stop, target)
      PROVE  ExitInv'
  <2>1. engine.open /\ engine \in Copies
    BY <1>7 DEF EditStop, EditTarget, EditBoth, ExitInv, TypeOK, Absent
  <2>2. stop \in Nat /\ target \in Nat /\ engine.stop \in Int /\ engine.target \in Nat
    <3>1. stop \in Nat /\ target \in Nat
      BY ExitAssumption
    <3>2. engine.stop \in Int /\ engine.target \in Nat
      BY <2>1 DEF Copies
    <3> QED
      BY <3>1, <3>2
  <2>3. \/ SetBoth(stop, engine.target)
        \/ SetBoth(engine.stop, target)
        \/ SetBoth(stop, target)
    BY <1>7 DEF EditStop, EditTarget, EditBoth
  <2> QED
    BY <2>1, <2>2, <2>3, SetBothKeepsInv
<1>8. CASE Restart
  BY <1>8, RestartKeepsInv
<1>9. CASE UNCHANGED vars
  BY <1>9 DEF vars, ExitInv, TypeOK, ExitsFitThePosition, Setup
<1> QED
  <2>1. 0 \in Edits \cup {0}
    OBVIOUS
  <2> QED
    BY <1>1, <1>2, <1>3, <1>4, <1>5, <1>6, <1>7, <1>8, <1>9, <2>1 DEF Next

\* The values stay in their types; and a close under way is of a part of what is
\* left, by the counter of hits that still holds.
THEOREM TypesHold == Spec => []TypeOK
<1>1. Init => ExitInv
  BY InitExitInv
<1>2. ExitInv /\ [Next]_vars => ExitInv'
  BY NextKeepsInv
<1>3. ExitInv => TypeOK
  BY DEF ExitInv
<1> QED
  BY <1>1, <1>2, <1>3, PTL DEF Spec

\* What a position has sold and what is left of it are what was bought, and the
\* ladder's counter is the number of its trades, in every reachable state.
THEOREM ExitsFit == Spec => []ExitsFitThePosition
<1>1. Init => ExitInv
  BY InitExitInv
<1>2. ExitInv /\ [Next]_vars => ExitInv'
  BY NextKeepsInv
<1>3. ExitInv => ExitsFitThePosition
  BY DEF ExitInv
<1> QED
  BY <1>1, <1>2, <1>3, PTL DEF Spec
-----------------------------------------------------------------------------
(* What fires is a profit, and the stop it leaves behind is not hit.       *)

\* The fee of one side is at least one unit of the price.  Prices are whole here: where fees are
\* lost in the rounding, two levels at thirds of a short way may fall together.
FeesCount == \A s \in Setups : s.entry * FeePct >= 100

\* Fees push the break-even price beyond the entry, by two units at least where they count.
LEMMA BreakevenPaysFees ==
  ASSUME order \in Orders
  PROVE  \E fee \in Nat : /\ Breakeven = Setup.entry + Setup.sign * fee
                          /\ FeesCount => fee >= 2
<1> USE ExitAssumption
<1> DEFINE volume == Setup.entry * FeePct
           fee == (2 * Setup.entry * FeePct) \div 100
<1>1. Setup \in Setups /\ Setup.entry \in Nat /\ FeePct \in Nat
  BY DEF Orders, Setup
<1>2. volume \in Nat /\ 2 * Setup.entry * FeePct = 2 * volume
  BY <1>1
<1>3. FeesCount => volume >= 100
  BY <1>1 DEF FeesCount
<1>4. \A v \in Nat : (2 * v) \div 100 \in Nat /\ (v >= 100 => (2 * v) \div 100 >= 2)
  OBVIOUS
<1>5. fee \in Nat /\ (FeesCount => fee >= 2)
  <2> HIDE DEF volume
  <2> QED
    BY <1>2, <1>3, <1>4
<1> QED
  BY <1>5 DEF Breakeven

\* The thirds of a way, rounded down: upwards they ascend, downwards they may fall together.
LEMMA Thirds ==
  ASSUME NEW e \in Nat, NEW way \in Int
  PROVE  LET a == e + way \div 3
             b == e + (2 * way) \div 3
             t == e + way
         IN  /\ a > e => a < b /\ b < t
             /\ b > e => b < t
             /\ a < e => b <= a /\ t <= b /\ (b < a \/ a >= e - 2) /\ (t < b \/ b >= e - 2)
             /\ b < e => t <= b /\ (t < b \/ b >= e - 2)
<1> DEFINE q == way \div 3
           r == (2 * way) \div 3
<1>1. q \in Int /\ way % 3 \in 0..2 /\ way = (3 * q) + (way % 3)
  OBVIOUS
<1>2. r \in Int /\ ((2 * way) % 3) \in 0..2 /\ 2 * way = (3 * r) + ((2 * way) % 3)
  OBVIOUS
<1>3. PICK m \in 0..2, n \in 0..2 : way = 3 * q + m /\ 2 * way = 3 * r + n
  BY <1>1, <1>2
<1> HIDE DEF q, r
<1>4. /\ q > 0 => q < r /\ r < way
      /\ r > 0 => r < way
      /\ q < 0 => r <= q /\ way <= r /\ (r < q \/ q >= -2) /\ (way < r \/ r >= -2)
      /\ r < 0 => way <= r /\ (way < r \/ r >= -2)
  BY <1>1, <1>2, <1>3
<1> QED
  BY <1>1, <1>2, <1>4 DEF q, r

\* From the first level beyond the entry on, a ladder goes away from the entry.
LEMMA LevelsAscend ==
  ASSUME order \in Orders, NEW t \in Nat, NEW l \in {<<>>, Setup.ladder},
         NEW i \in DOMAIN LevelsOf(t, l), NEW j \in DOMAIN LevelsOf(t, l), i < j,
         i \in Reachable(LevelsOf(t, l))
  PROVE  LET levels == LevelsOf(t, l)
         IN  /\ Setup.sign * levels[i] <= Setup.sign * levels[j]
             /\ FeesCount => \/ Setup.sign * levels[i] < Setup.sign * levels[j]
                             \/ Setup.sign * levels[i] <= Setup.sign * Breakeven
<1> USE ExitAssumption
<1> DEFINE levels == LevelsOf(t, l)
<1>1. Setup \in Setups /\ Setup.entry \in Nat /\ Setup.sign \in {1, -1}
  BY DEF Orders, Setup
<1>2. PICK fee \in Nat : Breakeven = Setup.entry + Setup.sign * fee /\ (FeesCount => fee >= 2)
  BY BreakevenPaysFees
<1>3. CASE ~Setup.telegram
  BY <1>3 DEF LevelsOf
<1>4. CASE Setup.telegram /\ l # <<>>
  <2>1. l = Setup.ladder /\ levels = Setup.ladder
    BY <1>4 DEF LevelsOf
  <2> QED
    BY <1>1, <2>1
<1>5. CASE Setup.telegram /\ l = <<>> /\ t = 0
  BY <1>5 DEF LevelsOf
<1>6. CASE Setup.telegram /\ l = <<>> /\ t # 0
  <2> DEFINE way == t - Setup.entry
  <2>1. PICK a, b \in Int : /\ levels = <<a, b, t>>
                            /\ a = Setup.entry + way \div 3
                            /\ b = Setup.entry + (2 * way) \div 3
    <3>1. Setup.entry + way \div 3 \in Int /\ Setup.entry + (2 * way) \div 3 \in Int
      BY <1>1
    <3>2. levels = <<Setup.entry + way \div 3, Setup.entry + (2 * way) \div 3, t>>
      BY <1>6 DEF LevelsOf
    <3> QED
      BY <3>1, <3>2, Zenon
  <2>2. i \in 1..3 /\ j \in 1..3
    BY <2>1
  <2>3. levels[1] = a /\ levels[2] = b /\ levels[3] = t
    BY <2>1
  <2>4. Setup.sign * levels[i] > Setup.sign * Setup.entry
    BY DEF Reachable
  <2>5. way \in Int /\ t = Setup.entry + way
    BY <1>1
  <2> HIDE DEF levels, way
  <2>6. /\ a > Setup.entry => a < b /\ b < t
        /\ b > Setup.entry => b < t
        /\ a < Setup.entry => b <= a /\ t <= b /\ (b < a \/ a >= Setup.entry - 2)
                              /\ (t < b \/ b >= Setup.entry - 2)
        /\ b < Setup.entry => t <= b /\ (t < b \/ b >= Setup.entry - 2)
    BY <1>1, <2>1, <2>5, Thirds
  <2>7. PICK x, y \in {a, b, t} : /\ levels[i] = x /\ levels[j] = y
                                  /\ \/ x = a /\ y = b
                                     \/ x = a /\ y = t
                                     \/ x = b /\ y = t
    BY <2>2, <2>3
  <2>8. x \in Int /\ y \in Int /\ Setup.sign * x > Setup.sign * Setup.entry
    BY <1>1, <2>1, <2>4, <2>7
  <2>9. /\ Setup.sign * x <= Setup.sign * y
        /\ FeesCount => Setup.sign * x < Setup.sign * y \/ Setup.sign * x <= Setup.sign * Breakeven
    <3>1. CASE Setup.sign = 1
      <4>1. x > Setup.entry
        BY <1>1, <2>8, <3>1
      <4>2. x < y
        BY <2>6, <2>7, <4>1
      <4> QED
        BY <2>8, <3>1, <4>2
    <3>2. CASE Setup.sign = -1
      <4>1. x < Setup.entry
        BY <1>1, <2>8, <3>2
      <4>2. y <= x /\ (y < x \/ x >= Setup.entry - 2)
        <5>1. a \in Int /\ b \in Int /\ t \in Int /\ Setup.entry \in Int
          BY <1>1
        <5>2. CASE x = a
          BY <2>6, <2>7, <4>1, <5>1, <5>2
        <5>3. CASE x = b /\ y = t
          BY <2>6, <4>1, <5>1, <5>3
        <5> QED
          BY <2>7, <5>2, <5>3
      <4>3. Breakeven = Setup.entry - fee /\ Breakeven \in Int
        BY <1>1, <1>2, <3>2
      <4>4. FeesCount => Breakeven <= Setup.entry - 2
        BY <1>1, <1>2, <4>3
      <4> HIDE DEF FeesCount
      <4> QED
        BY SMTT(20), <1>1, <2>8, <3>2, <4>2, <4>3, <4>4
    <3> QED
      BY <1>1, <3>1, <3>2
  <2> QED
    BY <2>7, <2>9 DEF levels
<1> QED
  BY <1>3, <1>4, <1>5, <1>6

\* What a close under way knows: the stop and the last level close all that is left; a level is
\* one that may fire and the price has reached, while it has not reached the stop.
LevelInv ==
  LET levels == loop.levels
      sign   == Setup.sign
  IN  /\ loop.level \in 1..Len(levels) /\ loop.level >= FirstReachable(levels)
      /\ sign * price >= sign * levels[loop.level]
      /\ loop.level = Len(levels) => loop.part = bot.amount
      /\ loop.stop # 0 => sign * price > sign * loop.stop
      /\ \A i, j \in DOMAIN levels : i < j /\ i \in Reachable(levels) =>
           /\ sign * levels[i] <= sign * levels[j]
           /\ FeesCount => \/ sign * levels[i] < sign * levels[j]
                           \/ sign * levels[i] <= sign * Breakeven
CloseInv == loop.closing => IF loop.level = 0 THEN loop.part = bot.amount ELSE LevelInv

\* A close under way outlives edits of the position and the link of its signal.
LEMMA CloseGoesOn ==
  ASSUME CloseInv, UNCHANGED <<price, loop>>, order'.setup = order.setup,
         bot'.amount = bot.amount
  PROVE  CloseInv'
BY DEF CloseInv, LevelInv, Setup, FirstReachable, Reachable, Breakeven

LEMMA CloseBegins ==
  ASSUME ExitInv, NEW p \in Prices, NEW trail \in Trails, IterateToClose(p, trail)
  PROVE  CloseInv'
<1> DEFINE stop == TrailingStop(p, trail)
           hit == stop # 0 /\ Passed(-Setup.sign, p, stop)
           level == IF hit THEN 0 ELSE Max(Hit(p))
<1> USE ExitAssumption
<1>1. bot.open /\ bot \in Positions /\ order \in Orders /\ TypeOK
  BY OpenTypes DEF IterateToClose, ExitInv
<1>2. /\ loop' = [closing |-> TRUE, level |-> level, part |-> Part(level), stop |-> stop,
                  hits |-> bot.hits, levels |-> Levels]
      /\ price' = p /\ order' = order /\ bot' = [bot EXCEPT !.stop = stop]
      /\ hit \/ Hit(p) # {}
  BY DEF IterateToClose
<1>3. bot'.amount = bot.amount
  BY <1>1, <1>2 DEF Positions
<1>4. CASE hit
  BY <1>2, <1>3, <1>4 DEF CloseInv, Part
<1>5. CASE ~hit
  <2>1. Levels \in Seq(Int) /\ level \in 1..Len(Levels) /\ level \in Hit(p)
    <3>1. Hit(p) # {} /\ Levels \in Seq(Int) /\ Max(Hit(p)) \in 1..Len(Levels)
      BY <1>1, <1>2, <1>5, HitIsALevel
    <3>2. Hit(p) \subseteq 1..Len(Levels)
      BY <3>1 DEF Hit
    <3> QED
      BY <1>5, <3>1, <3>2, MaxIsIn
  <2>2. level >= FirstReachable(Levels) /\ Setup.sign * p >= Setup.sign * Levels[level]
    BY <2>1 DEF Hit, Passed
  <2>3. level = Len(Levels) => Part(level) = bot.amount
    BY <2>1 DEF Part
  <2>4. stop # 0 => Setup.sign * p > Setup.sign * stop
    <3>1. Setup.sign \in {1, -1} /\ p \in Int
      BY <1>1 DEF Orders, Setup
    <3>2. stop \in Int
      BY <1>1, TrailingStopType
    <3> QED
      <4> HIDE DEF stop
      <4>1. CASE Setup.sign = 1
        BY <1>5, <3>1, <3>2, <4>1 DEF Passed
      <4>2. CASE Setup.sign = -1
        BY <1>5, <3>1, <3>2, <4>2 DEF Passed
      <4> QED
        BY <3>1, <4>1, <4>2
  <2>5. \A i, j \in DOMAIN Levels : i < j /\ i \in Reachable(Levels) =>
          /\ Setup.sign * Levels[i] <= Setup.sign * Levels[j]
          /\ FeesCount => \/ Setup.sign * Levels[i] < Setup.sign * Levels[j]
                          \/ Setup.sign * Levels[i] <= Setup.sign * Breakeven
    BY <1>1, LevelsAscend DEF Levels, Positions, TypeOK
  <2> HIDE DEF level, stop
  <2>6. /\ loop'.closing /\ loop'.level = level /\ loop'.part = Part(level)
        /\ loop'.stop = stop /\ loop'.levels = Levels
    BY <1>2
  <2>7. /\ Setup' = Setup /\ Breakeven' = Breakeven /\ level # 0
        /\ Reachable(loop.levels)' = Reachable(Levels)
        /\ FirstReachable(loop.levels)' = FirstReachable(Levels)
    <3>1. Setup' = Setup
      BY <1>2 DEF Setup
    <3>2. level # 0
      BY <2>1
    <3>3. Breakeven' = Breakeven
      BY <3>1 DEF Breakeven
    <3>4. Reachable(loop.levels)' = Reachable(Levels)
      BY <2>6, <3>1 DEF Reachable
    <3>5. FirstReachable(loop.levels)' = FirstReachable(Levels)
      BY <2>6, <3>4 DEF FirstReachable
    <3> QED
      BY <3>1, <3>2, <3>3, <3>4, <3>5
  <2>8. LevelInv'
    <3> HIDE DEF FeesCount
    <3> QED
      BY <1>2, <1>3, <2>1, <2>2, <2>3, <2>4, <2>5, <2>6, <2>7 DEF LevelInv
  <2> QED
    BY <2>6, <2>7, <2>8 DEF CloseInv
<1> QED
  BY <1>4, <1>5

LEMMA NextKeepsCloseInv ==
  ASSUME ExitInv, CloseInv, [Next]_vars
  PROVE  CloseInv'
<1>1. loop.closing => bot.open /\ bot \in Positions
  BY OpenTypes DEF ExitInv, TypeOK
<1>2. ~loop.closing /\ loop' = loop => CloseInv'
  BY DEF CloseInv
<1>3. loop' = Idle => CloseInv'
  BY DEF CloseInv, Idle
<1>4. ASSUME NEW setup \in Setups, Open(setup) PROVE CloseInv'
  BY <1>1, <1>2, <1>4 DEF Open
<1>5. CASE Link
  <2>1. order'.setup = order.setup
    BY <1>5 DEF Link, ExitInv, TypeOK, Orders, Absent
  <2> QED
    BY <1>5, <2>1, CloseGoesOn DEF Link
<1>6. ASSUME NEW p \in Prices, NEW trail \in Trails,
             IterateQuietly(p, trail) \/ IterateToClose(p, trail)
      PROVE  CloseInv'
  BY <1>2, <1>6, CloseBegins DEF IterateQuietly
<1>7. CASE SettlePart \/ SettleAll
  BY <1>3, <1>7 DEF SettlePart, SettleAll
<1>8. CASE StopReport
  BY <1>2, <1>8 DEF StopReport
<1>9. ASSUME NEW stop, NEW target, SetBoth(stop, target)
      PROVE  CloseInv'
  <2>1. CASE ~loop.closing
    BY <1>2, <1>9, <2>1 DEF SetBoth
  <2>2. CASE loop.closing
    <3>1. bot'.amount = bot.amount
      BY <1>1, <1>9, <2>2 DEF SetBoth, Positions
    <3> QED
      BY <1>9, <3>1, CloseGoesOn DEF SetBoth
  <2> QED
    BY <2>1, <2>2
<1>10. CASE Restart
  BY <1>3, <1>10 DEF Restart
<1>11. CASE UNCHANGED vars
  BY <1>11, CloseGoesOn DEF vars
<1> QED
  BY <1>4, <1>5, <1>6, <1>7, <1>8, <1>9, <1>10, <1>11 DEF Next, EditStop, EditTarget, EditBoth

\* Only the end of a close of the loop is entered into the history.
LEMMA SettlesIsSettling ==
  ASSUME ExitInv, [Next]_vars, Settles
  PROVE  SettlePart \/ SettleAll
<1>1. Len(fired) \in Nat
  BY DEF ExitInv, TypeOK
<1>2. fired' # fired /\ fired' # <<>>
  BY <1>1 DEF Settles
<1> QED
  BY <1>2 DEF Next, vars, Open, Link, IterateQuietly, IterateToClose, StopReport, EditStop,
              EditTarget, EditBoth, SetBoth, Restart

\* A level that fires is beyond the entry, if any is.
LEMMA LevelIsAProfit ==
  ASSUME order \in Orders, loop \in Closes, LevelInv, price \in Nat,
         Reachable(loop.levels) # {}
  PROVE  Setup.sign * price > Setup.sign * Setup.entry
<1> USE ExitAssumption
<1> DEFINE levels == loop.levels
           first == FirstReachable(levels)
<1>1. levels \in Seq(Int) /\ Setup.sign \in {1, -1} /\ Setup.entry \in Nat
  BY DEF Closes, Orders, Setup
<1>2. first \in Reachable(levels)
  <2>1. Reachable(levels) \subseteq Nat
    BY <1>1 DEF Reachable
  <2> QED
    BY <2>1, MinIsIn DEF FirstReachable
<1>3. /\ first \in DOMAIN levels /\ loop.level \in DOMAIN levels
      /\ Setup.sign * levels[first] > Setup.sign * Setup.entry
  BY <1>1, <1>2 DEF LevelInv, Reachable
<1>4. Setup.sign * levels[loop.level] >= Setup.sign * levels[first]
  <2> HIDE DEF first
  <2>1. loop.level >= first /\ loop.level \in Int /\ first \in Int
    BY <1>1, <1>3 DEF LevelInv, first
  <2>2. CASE loop.level = first
    <3>1. levels[first] \in Int
      BY <1>1, <1>3
    <3> QED
      BY <1>1, <2>2, <3>1
  <2>3. CASE loop.level > first
    BY <1>2, <1>3, <2>3 DEF LevelInv
  <2> QED
    BY <2>1, <2>2, <2>3
<1>5. levels[first] \in Int /\ levels[loop.level] \in Int
  BY <1>1, <1>3
<1>6. Setup.sign * price >= Setup.sign * levels[loop.level]
  BY DEF LevelInv
<1> HIDE DEF levels, first
<1>7. CASE Setup.sign = 1
  BY <1>1, <1>3, <1>4, <1>5, <1>6, <1>7
<1>8. CASE Setup.sign = -1
  BY SMTT(20), <1>1, <1>3, <1>4, <1>5, <1>6, <1>8
<1> QED
  BY <1>1, <1>7, <1>8

\* Half the way from the stop to the entry is no farther than the nearer of them.
LEMMA HalfwayIsNoFarther ==
  ASSUME order \in Orders, NEW stop \in Int
  PROVE  \/ Setup.sign * Halfway(stop) >= Setup.sign * stop
         \/ Setup.sign * Halfway(stop) >= Setup.sign * Setup.entry
<1> USE ExitAssumption
<1>1. Setup.sign \in {1, -1} /\ Setup.entry \in Int
  BY DEF Orders, Setup
<1>2. \A d \in Int : /\ d \div 2 \in Int /\ 2 * (d \div 2) <= d
                     /\ d <= (2 * (d \div 2)) + 1
  OBVIOUS
<1>3. PICK half \in Int : /\ Halfway(stop) = stop + half
                          /\ 2 * half <= Setup.entry - stop
                          /\ Setup.entry - stop <= (2 * half) + 1
  <2>1. Setup.entry - stop \in Int
    BY <1>1
  <2> QED
    BY <1>2, <2>1 DEF Halfway
<1>4. CASE Setup.sign = 1
  BY <1>1, <1>3, <1>4
<1>5. CASE Setup.sign = -1
  BY <1>1, <1>3, <1>5
<1> QED
  BY <1>1, <1>4, <1>5

\* A level after the first that may fire follows one beyond the entry.
LEMMA LastLevelReachable ==
  ASSUME order \in Orders, loop \in Closes, LevelInv, bot.amount \in Nat, loop.part < bot.amount,
         loop.level > FirstReachable(loop.levels)
  PROVE  loop.level - 1 \in Reachable(loop.levels)
<1> USE ExitAssumption
<1> DEFINE levels == loop.levels
           first == FirstReachable(levels)
           last == loop.level - 1
<1>0. /\ levels \in Seq(Int) /\ Setup.sign \in {1, -1} /\ Setup.entry \in Nat
      /\ loop.level > first
  BY DEF Closes, Orders, Setup
<1>1. first \in Nat \ {0} /\ loop.level \in 1..Len(levels) /\ loop.level # Len(levels)
  BY <1>0, FirstReachableType DEF LevelInv, Closes
<1>2. last \in DOMAIN levels /\ loop.level \in DOMAIN levels /\ last < loop.level /\ last >= first
  BY SMTT(20), <1>0, <1>1
<1>3. first \in Reachable(levels)
  <2>1. Reachable(levels) # {}
    <3>1. CASE Reachable(levels) = {}
      <4>1. first = Max({Len(levels), 1}) /\ Len(levels) \in Nat
        BY <1>0, <3>1 DEF FirstReachable
      <4>2. \E x \in {Len(levels), 1} : \A y \in {Len(levels), 1} : x >= y
        BY <4>1
      <4>3. first >= Len(levels)
        BY <4>1, <4>2 DEF Max
      <4> QED
        BY <1>0, <1>1, <4>1, <4>3
    <3> QED
      BY <3>1
  <2>2. Reachable(levels) \subseteq Nat
    BY <1>0 DEF Reachable
  <2> QED
    BY <2>1, <2>2, MinIsIn DEF FirstReachable
<1>4. last \in Reachable(levels)
  <2>1. Setup.sign * levels[first] > Setup.sign * Setup.entry /\ first \in DOMAIN levels
    BY <1>3 DEF Reachable
  <2>2. last = first \/ (first < last /\ Setup.sign * levels[first] <= Setup.sign * levels[last])
    BY <1>1, <1>2, <1>3, <2>1 DEF LevelInv
  <2>3. levels[first] \in Int /\ levels[last] \in Int
    BY <1>0, <1>2, <2>1
  <2>4. Setup.sign * levels[last] > Setup.sign * Setup.entry
    <3> HIDE DEF levels, first, last
    <3>1. CASE last = first
      BY <2>1, <3>1
    <3>2. CASE last # first /\ Setup.sign = 1
      BY <1>0, <2>1, <2>2, <2>3, <3>2
    <3>3. CASE last # first /\ Setup.sign = -1
      BY SMTT(20), <1>0, <2>1, <2>2, <2>3, <3>3
    <3> QED
      BY <1>0, <3>1, <3>2, <3>3
  <2> QED
    BY <1>2, <2>4 DEF Reachable
<1> QED
  BY <1>4

\* A partial close leaves a stop no farther than the one it found, or than the entry.
LEMMA PartialKeeps ==
  ASSUME order \in Orders, loop \in Closes, LevelInv, bot.amount \in Nat, loop.part < bot.amount,
         NEW rule
  PROVE  Keeps(loop.stop, StopAfter(loop.level, loop.levels, loop.stop, rule))
<1> USE ExitAssumption
<1> DEFINE levels == loop.levels
           stop == StopAfter(loop.level, levels, loop.stop, rule)
<1>1. levels \in Seq(Int) /\ Setup.sign \in {1, -1} /\ Setup.entry \in Nat /\ loop.stop \in Int
  BY DEF Closes, Orders, Setup
<1>2. CASE loop.level > FirstReachable(levels)
  <2>1. stop = levels[loop.level - 1] /\ loop.level - 1 \in Reachable(levels)
    BY <1>2, LastLevelReachable DEF StopAfter
  <2>2. Setup.sign * stop > Setup.sign * Setup.entry /\ stop \in Int
    BY <1>1, <2>1 DEF Reachable
  <2>3. Setup.sign * stop >= Setup.sign * Setup.entry
    <3> HIDE DEF stop
    <3>1. CASE Setup.sign = 1
      BY <1>1, <2>2, <3>1
    <3>2. CASE Setup.sign = -1
      BY <1>1, <2>2, <3>2
    <3> QED
      BY <1>1, <3>1, <3>2
  <2> QED
    BY <2>3 DEF Keeps
<1>3. CASE ~(loop.level > FirstReachable(levels)) /\ (rule = "breakeven" \/ loop.stop = 0)
  <2>1. PICK fee \in Nat : Breakeven = Setup.entry + Setup.sign * fee
    BY BreakevenPaysFees
  <2>2. stop = Breakeven
    BY <1>3 DEF StopAfter
  <2>3. Setup.sign * stop >= Setup.sign * Setup.entry
    <3>1. CASE Setup.sign = 1
      BY <1>1, <2>1, <2>2, <3>1
    <3>2. CASE Setup.sign = -1
      BY <1>1, <2>1, <2>2, <3>2
    <3> QED
      BY <1>1, <3>1, <3>2
  <2> QED
    BY <2>3 DEF Keeps
<1>4. CASE ~(loop.level > FirstReachable(levels)) /\ ~(rule = "breakeven" \/ loop.stop = 0)
  <2>1. stop = Halfway(loop.stop) /\ loop.stop # 0
    BY <1>4 DEF StopAfter
  <2>2. \/ Setup.sign * stop >= Setup.sign * loop.stop
        \/ Setup.sign * stop >= Setup.sign * Setup.entry
    BY <1>1, <2>1, HalfwayIsNoFarther
  <2> QED
    BY <2>1, <2>2 DEF Keeps
<1> QED
  BY <1>2, <1>3, <1>4

\* The stop a partial close leaves is behind the price, if the price covers the fees.
LEMMA StopIsBehind ==
  ASSUME FeesCount, order \in Orders, loop \in Closes, LevelInv, price \in Nat, bot.amount \in Nat,
         loop.part < bot.amount, NEW rule,
         Setup.sign * price > Setup.sign * Breakeven
  PROVE  Setup.sign * StopAfter(loop.level, loop.levels, loop.stop, rule) < Setup.sign * price
<1> USE ExitAssumption
<1> DEFINE levels == loop.levels
           first == FirstReachable(levels)
           stop == StopAfter(loop.level, levels, loop.stop, rule)
<1>1. levels \in Seq(Int) /\ Setup.sign \in {1, -1} /\ Setup.entry \in Nat /\ loop.stop \in Int
  BY DEF Closes, Orders, Setup
<1>2. PICK fee \in Nat : Breakeven = Setup.entry + Setup.sign * fee
  BY BreakevenPaysFees
<1>3. Breakeven \in Int
  BY StopTypes
<1>4. CASE loop.level > first
  <2> DEFINE last == loop.level - 1
  <2>1. first \in Nat \ {0} /\ loop.level \in 1..Len(levels) /\ loop.level # Len(levels)
    BY <1>1, FirstReachableType DEF LevelInv, Closes
  <2>2. last \in DOMAIN levels /\ loop.level \in DOMAIN levels /\ last < loop.level /\ last >= first
    BY SMTT(20), <1>1, <1>4, <2>1
  <2>4. last \in Reachable(levels)
    BY <1>4, LastLevelReachable
  <2>5. \/ Setup.sign * levels[last] < Setup.sign * levels[loop.level]
        \/ Setup.sign * levels[last] <= Setup.sign * Breakeven
    BY <2>2, <2>4 DEF LevelInv
  <2>6. stop = levels[last] /\ Setup.sign * price >= Setup.sign * levels[loop.level]
    BY <1>4 DEF StopAfter, LevelInv
  <2>7. levels[last] \in Int /\ levels[loop.level] \in Int
    BY <1>1, <2>2
  <2>8. Setup.sign * stop < Setup.sign * price
    <3> HIDE DEF levels, last, stop
    <3>1. CASE Setup.sign = 1
      BY <1>3, <2>5, <2>6, <2>7, <3>1
    <3>2. CASE Setup.sign = -1
      BY <1>3, <2>5, <2>6, <2>7, <3>2
    <3> QED
      BY <1>1, <3>1, <3>2
  <2> QED
    BY <2>8
<1>5. CASE ~(loop.level > first) /\ (rule = "breakeven" \/ loop.stop = 0)
  BY <1>5 DEF StopAfter
<1>6. CASE ~(loop.level > first) /\ ~(rule = "breakeven" \/ loop.stop = 0)
  <2>1. stop = Halfway(loop.stop) /\ Setup.sign * price > Setup.sign * loop.stop
    BY <1>6 DEF StopAfter, LevelInv
  <2>2. PICK half \in Int : /\ half = (Setup.entry - loop.stop) \div 2
                            /\ 2 * half <= Setup.entry - loop.stop
                            /\ Setup.entry - loop.stop <= (2 * half) + 1
    <3>1. \A d \in Int : /\ d \div 2 \in Int /\ 2 * (d \div 2) <= d
                         /\ d <= (2 * (d \div 2)) + 1
      OBVIOUS
    <3>2. Setup.entry - loop.stop \in Int
      BY <1>1
    <3> QED
      BY <3>1, <3>2
  <2>3. /\ stop = loop.stop + half /\ half \in Int /\ loop.stop \in Int /\ Setup.entry \in Int
        /\ 2 * half <= Setup.entry - loop.stop
        /\ Setup.entry - loop.stop <= (2 * half) + 1
    BY <1>1, <2>1, <2>2 DEF Halfway
  <2>4. Setup.sign * stop < Setup.sign * price
    <3> HIDE DEF stop
    <3>1. CASE Setup.sign = 1
      <4>1. price > loop.stop /\ price > Setup.entry
        BY <1>1, <1>2, <2>1, <3>1
      <4> QED
        BY <1>1, <2>2, <2>3, <3>1, <4>1
    <3>2. CASE Setup.sign = -1
      <4>1. price < loop.stop /\ price < Setup.entry
        <5>1. Breakeven = Setup.entry - fee
          BY <1>1, <1>2, <3>2
        <5> QED
          BY SMTT(20), <1>1, <1>2, <2>1, <3>2, <5>1
      <4>2. stop > price /\ stop \in Int
        <5> \A p, s, h, e \in Int :
              p < s /\ p < e /\ e - s <= (2 * h) + 1 => s + h > p
          OBVIOUS
        <5> QED
          BY <2>3, <4>1
      <4> QED
        BY <3>2, <4>2
    <3> QED
      BY <1>1, <3>1, <3>2
  <2> QED
    BY <2>4
<1> QED
  BY <1>4, <1>5, <1>6

\* A close by a take profit is a profit before fees, if any target is beyond the entry, whatever
\* the jumps of the price, the edits of the targets and the restarts.
THEOREM TargetsAreProfits == Spec => TakeProfitIsAProfit
<1> DEFINE Inv == ExitInv /\ CloseInv
<1>1. Init => Inv
  BY InitExitInv DEF Init, CloseInv, Idle
<1>2. Inv /\ [Next]_vars => Inv'
  BY NextKeepsInv, NextKeepsCloseInv
<1>3. Inv /\ [Next]_vars =>
        [Settles /\ loop.level > 0 /\ Reachable(loop.levels) # {}
           => Setup.sign * price > Setup.sign * Setup.entry]_vars
  <2> SUFFICES ASSUME Inv, [Next]_vars, Settles, loop.level > 0, Reachable(loop.levels) # {}
               PROVE  Setup.sign * price > Setup.sign * Setup.entry
    OBVIOUS
  <2>1. loop.closing /\ bot.open
    BY SettlesIsSettling DEF SettlePart, SettleAll, ExitInv, TypeOK
  <2>2. order \in Orders /\ loop \in Closes /\ price \in Nat
    BY <2>1, OpenTypes, ExitAssumption DEF ExitInv, TypeOK, Idle
  <2>3. LevelInv
    BY <2>1 DEF CloseInv
  <2> QED
    BY <2>2, <2>3, LevelIsAProfit
<1> HIDE DEF Inv
<1> QED
  BY <1>1, <1>2, <1>3, PTL DEF Spec, TakeProfitIsAProfit

\* The rest of a position is not stopped out at the very price a part of it was taken at, where
\* fees count and the price covers them.
THEOREM StopIsLeftBehind == FeesCount => (Spec => StopStaysBehindPrice)
<1> SUFFICES ASSUME FeesCount PROVE Spec => StopStaysBehindPrice
  OBVIOUS
<1> DEFINE Inv == ExitInv /\ CloseInv
<1>1. Init => Inv
  BY InitExitInv DEF Init, CloseInv, Idle
<1>2. Inv /\ [Next]_vars => Inv'
  BY NextKeepsInv, NextKeepsCloseInv
<1>3. Inv /\ [Next]_vars =>
        [Settles /\ bot'.open /\ Setup.sign * price > Setup.sign * Breakeven
           => Setup.sign * bot'.stop < Setup.sign * price]_vars
  <2> SUFFICES ASSUME Inv, [Next]_vars, Settles, bot'.open,
                      Setup.sign * price > Setup.sign * Breakeven
               PROVE  Setup.sign * bot'.stop < Setup.sign * price
    OBVIOUS
  <2>1. SettlePart
    BY SettlesIsSettling DEF SettleAll, Absent
  <2>2. bot.open /\ bot \in Positions /\ order \in Orders /\ loop \in Closes /\ price \in Nat
    BY <2>1, OpenTypes, ExitAssumption DEF SettlePart, ExitInv, TypeOK, Idle
  <2>3. bot'.stop = StopAfter(loop.level, loop.levels, loop.stop, bot.rule)
        /\ loop.part < bot.amount /\ bot.amount \in Nat
    BY <2>1, <2>2, ExitAssumption DEF SettlePart, Positions
  <2>4. LevelInv
    BY <2>1, <2>3 DEF CloseInv, SettlePart
  <2> QED
    BY <2>2, <2>3, <2>4, StopIsBehind
<1> HIDE DEF Inv
<1> QED
  BY <1>1, <1>2, <1>3, PTL DEF Spec, StopStaysBehindPrice
-----------------------------------------------------------------------------
(* What a restart rebuilds.                                                *)

\* The ladder as the order was given, and the stop after a number of its closes, one level each.
Plan == LevelsOf(Setup.target, Setup.ladder)
PlannedStop(hits) ==
  IF hits = 0 THEN Setup.stop
  ELSE IF hits = 1 \/ hits - 1 > Len(Plan)
       THEN IF Setup.stop # 0 /\ Setup.rule # "breakeven" THEN Halfway(Setup.stop) ELSE Breakeven
       ELSE Plan[hits - 1]

\* The ladder alone has moved the stop, one level after another, and the signal can still be found.
OnTrack == bot.open /\ ~moved /\ InOrder /\ FirstReachable(Plan) = 1 /\ order.link # "lost"

\* As long as it is so, the position is the one the number of its closes implies.
PlanInv ==
  /\ order.open => (order.link = "none" <=> ~Setup.telegram)
  /\ bot.open => Len(fired) = order.hits
  /\ OnTrack =>
       /\ bot.stop = PlannedStop(order.hits) /\ bot.target = Setup.target
       /\ bot.ladder = Setup.ladder /\ bot.shares = Setup.shares /\ bot.rule = Setup.rule
       /\ bot.channel = Setup.telegram
       /\ loop.closing => loop.stop = bot.stop /\ loop.levels = Plan

\* What depends on the order's setup alone.
LEMMA PlanStays ==
  ASSUME order'.setup = order.setup
  PROVE  /\ Setup' = Setup /\ Plan' = Plan /\ FirstReachable(Plan)' = FirstReachable(Plan)
         /\ \A hits : PlannedStop(hits)' = PlannedStop(hits)
<1>1. Setup' = Setup
  BY DEF Setup
<1>2. Plan' = Plan
  BY <1>1 DEF Plan, LevelsOf
<1>3. Reachable(Plan)' = Reachable(Plan)
  BY <1>1, <1>2 DEF Reachable
<1>4. FirstReachable(Plan)' = FirstReachable(Plan)
  BY <1>2, <1>3 DEF FirstReachable
<1>5. \A hits : PlannedStop(hits)' = PlannedStop(hits)
  BY <1>1, <1>2 DEF PlannedStop, Halfway, Breakeven
<1> QED
  BY <1>1, <1>2, <1>4, <1>5

\* The number of trades and the linked signal tell a restart the planned stop.
LEMMA RestoredAsPlanned ==
  ASSUME order \in Orders, order.link = "saved" \/ (order.link = "none" /\ ~Setup.telegram)
  PROVE  /\ RestoredStop = PlannedStop(order.hits)
         /\ RestoredBot = [open |-> TRUE, amount |-> Amount - order.sold, hits |-> order.hits,
                           stop |-> PlannedStop(order.hits), target |-> Setup.target,
                           ladder |-> Setup.ladder, shares |-> Setup.shares, rule |-> Setup.rule,
                           channel |-> order.link = "saved"]
<1>1. Setup \in Setups
  BY DEF Orders, Setup
<1>2. ~Setup.telegram => Setup.ladder = <<>> /\ Setup.shares = <<>> /\ Setup.rule = "default"
  BY <1>1, ExitAssumption
<1>3. LevelsOf(Setup.target, IF order.link = "saved" THEN Setup.ladder ELSE <<>>) = Plan
  BY <1>2 DEF Plan
<1>4. RestoredStop = PlannedStop(order.hits)
  <2>1. (order.link = "saved" /\ Setup.rule = "breakeven") <=> Setup.rule = "breakeven"
    BY <1>2
  <2> QED
    BY <1>3, <2>1 DEF RestoredStop, PlannedStop
<1> QED
  BY <1>2, <1>4 DEF RestoredBot

\* Steps that leave the plan of a position alone, or take it off the track.
LEMMA PlanGoesOn ==
  ASSUME PlanInv, order'.setup = order.setup, order'.open, order'.hits = order.hits,
         order'.link = "none" <=> order.link = "none", order'.link # "lost" => order.link # "lost",
         bot.open \/ ~bot'.open, order.open, fired' = fired,
         OnTrack' => /\ OnTrack /\ bot'.stop = bot.stop /\ bot'.target = bot.target
                     /\ bot'.ladder = bot.ladder /\ bot'.shares = bot.shares
                     /\ bot'.rule = bot.rule /\ bot'.channel = bot.channel
                     /\ loop'.closing => loop'.stop = bot.stop /\ loop'.levels = Plan
  PROVE  PlanInv'
<1>1. /\ Setup' = Setup /\ Plan' = Plan
      /\ \A hits : PlannedStop(hits)' = PlannedStop(hits)
  BY PlanStays
<1>2. PlannedStop(order.hits)' = PlannedStop(order.hits)
  BY <1>1 DEF PlannedStop, Halfway, Breakeven
<1> QED
  BY <1>1, <1>2 DEF PlanInv

\* A new position is as planned.
LEMMA OpenIsOnPlan ==
  ASSUME NEW setup \in Setups, Open(setup), ~loop.closing
  PROVE  PlanInv'
<1>1. /\ order' = [open |-> TRUE, setup |-> setup, sold |-> 0, hits |-> 0,
                   link |-> IF setup.telegram THEN "pending" ELSE "none"]
      /\ fired' = <<>> /\ loop' = loop /\ bot'.stop = setup.stop /\ bot'.target = setup.target
      /\ bot'.ladder = setup.ladder /\ bot'.shares = setup.shares /\ bot'.rule = setup.rule
      /\ bot'.channel = setup.telegram
  BY DEF Open
<1>2. /\ Setup' = setup /\ order'.hits = 0
      /\ order'.link = "none" <=> ~setup.telegram
  BY <1>1 DEF Setup
<1>3. PlannedStop(order.hits)' = setup.stop
  BY <1>2 DEF PlannedStop
<1> QED
  BY <1>1, <1>2, <1>3 DEF PlanInv

\* After the next level the stop is the one planned for one close more.
LEMMA NextStopIsPlanned ==
  ASSUME order \in Orders, NEW hits \in Nat, hits + 1 \in 1..Len(Plan), FirstReachable(Plan) = 1,
         Plan \in Seq(Int)
  PROVE  StopAfter(hits + 1, Plan, PlannedStop(hits), Setup.rule) = PlannedStop(hits + 1)
<1>1. CASE hits = 0
  BY <1>1 DEF StopAfter, PlannedStop
<1>2. CASE hits > 0
  <2>1. Len(Plan) \in Nat
    OBVIOUS
  <2> QED
    BY <1>2, <2>1 DEF StopAfter, PlannedStop
<1> QED
  BY <1>1, <1>2

LEMMA PlanType ==
  ASSUME order \in Orders
  PROVE  Plan \in Seq(Int) /\ Setup.target \in Nat
<1>1. Setup \in Setups /\ Setup.target \in Nat
  BY ExitAssumption DEF Orders, Setup
<1> QED
  BY <1>1, LevelsType DEF Plan

\* On the track the level that has closed is the one after those before it.
LEMMA NextLevelFires ==
  ASSUME ExitInv, PlanInv, SettlePart, OnTrack'
  PROVE  /\ OnTrack /\ loop.level = order.hits + 1 /\ order.hits + 1 \in 1..Len(Plan)
         /\ loop.levels = Plan /\ loop.stop = PlannedStop(order.hits)
<1>1. /\ loop.closing /\ bot.open /\ loop \in Closes /\ order \in Orders /\ fired \in Seq(Nat)
      /\ fired' = Append(fired, loop.level) /\ moved' = moved /\ Sold(loop.part)
  BY OpenTypes DEF SettlePart, ExitInv, TypeOK, Idle
<1>2. /\ order'.setup = order.setup /\ order'.link = order.link /\ order.hits \in Nat
      /\ Len(fired) = order.hits
  BY <1>1 DEF Sold, Orders, PlanInv
<1>3. InOrder /\ loop.level = order.hits + 1
  <2>1. \A i \in DOMAIN fired' : fired'[i] = i
    BY DEF OnTrack, InOrder
  <2>2. DOMAIN fired = 1..Len(fired) /\ DOMAIN fired' = 1..Len(fired) + 1
    BY <1>1, <1>2
  <2>3. fired'[Len(fired) + 1] = loop.level /\ \A i \in 1..Len(fired) : fired'[i] = fired[i]
    BY <1>1, <1>2
  <2>4. Len(fired) + 1 \in DOMAIN fired' /\ \A i \in DOMAIN fired : i \in DOMAIN fired'
    BY <1>2, <2>2
  <2> QED
    BY <1>2, <2>1, <2>2, <2>3, <2>4 DEF InOrder
<1>4. OnTrack
  <2>1. FirstReachable(Plan)' = FirstReachable(Plan)
    BY <1>2, PlanStays
  <2> QED
    BY <1>1, <1>2, <1>3, <2>1 DEF OnTrack
<1>5. loop.levels = Plan /\ loop.stop = PlannedStop(order.hits)
  BY <1>1, <1>4 DEF PlanInv
<1>6. loop.level <= Len(Plan) /\ Plan \in Seq(Int)
  BY <1>1, <1>5, PlanType DEF ExitInv, TypeOK
<1> QED
  BY <1>2, <1>3, <1>4, <1>5, <1>6

LEMMA SettlePartIsPlanned ==
  ASSUME ExitInv, PlanInv, SettlePart
  PROVE  PlanInv'
<1>1. /\ loop.closing /\ bot.open /\ loop \in Closes /\ bot \in Positions /\ order \in Orders
      /\ order.open /\ fired \in Seq(Nat) /\ loop.hits = bot.hits
  BY OpenTypes DEF SettlePart, ExitInv, TypeOK, Idle
<1>2. /\ fired' = Append(fired, loop.level) /\ loop' = Idle /\ moved' = moved
      /\ bot' = [bot EXCEPT !.amount = @ - loop.part, !.hits = loop.hits + 1,
                            !.stop = StopAfter(loop.level, loop.levels, loop.stop, bot.rule)]
      /\ Sold(loop.part)
  BY DEF SettlePart
<1>3. /\ bot'.open /\ bot'.target = bot.target /\ bot'.ladder = bot.ladder
      /\ bot'.shares = bot.shares /\ bot'.rule = bot.rule /\ bot'.channel = bot.channel
      /\ bot'.stop = StopAfter(loop.level, loop.levels, loop.stop, bot.rule)
  <2> DEFINE stop == StopAfter(loop.level, loop.levels, loop.stop, bot.rule)
  <2> HIDE DEF stop
  <2>1. bot' = [bot EXCEPT !.amount = @ - loop.part, !.hits = loop.hits + 1, !.stop = stop]
    BY <1>2 DEF stop
  <2> QED
    BY <1>1, <2>1 DEF Positions, stop
<1>4. /\ order'.setup = order.setup /\ order'.hits = order.hits + 1
      /\ order'.link = order.link /\ order'.open = order.open /\ order.hits \in Nat
  BY <1>1, <1>2 DEF Sold, Orders
<1>5. Len(fired') = Len(fired) + 1 /\ Len(fired) = order.hits /\ Len(fired) \in Nat
  BY <1>1, <1>2 DEF PlanInv
<1>6. /\ Setup' = Setup /\ Plan' = Plan /\ FirstReachable(Plan)' = FirstReachable(Plan)
      /\ \A hits : PlannedStop(hits)' = PlannedStop(hits)
  BY <1>4, PlanStays
<1>7. ASSUME OnTrack'
      PROVE  bot'.stop = PlannedStop(order.hits)' /\ OnTrack
  <2>1. OnTrack /\ loop.level = order.hits + 1 /\ order.hits + 1 \in 1..Len(Plan)
        /\ loop.levels = Plan /\ loop.stop = PlannedStop(order.hits)
    BY <1>7, NextLevelFires
  <2>2. bot.rule = Setup.rule /\ FirstReachable(Plan) = 1 /\ Plan \in Seq(Int)
    BY <1>1, <2>1, PlanType DEF PlanInv, OnTrack
  <2>3. bot'.stop = PlannedStop(order.hits + 1)
    BY <1>1, <1>3, <1>4, <2>1, <2>2, NextStopIsPlanned
  <2>4. PlannedStop(order.hits)' = PlannedStop(order.hits + 1)
    BY <1>4, <1>6 DEF PlannedStop, Halfway, Breakeven
  <2> QED
    BY <2>1, <2>3, <2>4
<1> QED
  BY <1>1, <1>2, <1>3, <1>4, <1>5, <1>6, <1>7 DEF PlanInv, Idle

\* A restart takes up the plan where the trades have left it.
LEMMA RestartIsPlanned ==
  ASSUME ExitInv, PlanInv, Restart
  PROVE  PlanInv'
<1>1. order.open /\ order \in Orders /\ loop' = Idle /\ fired' = fired /\ moved' = moved
  BY DEF Restart, ExitInv, TypeOK, Absent
<1>2. /\ order'.setup = order.setup /\ order'.hits = order.hits /\ order'.sold = order.sold
      /\ order'.open = order.open
      /\ order'.link = IF order.link = "pending" THEN "lost" ELSE order.link
  BY <1>1 DEF Restart, Orders
<1>3. /\ Setup' = Setup /\ Plan' = Plan /\ FirstReachable(Plan)' = FirstReachable(Plan)
      /\ PlannedStop(order.hits)' = PlannedStop(order.hits)
  BY <1>2, PlanStays DEF PlannedStop, Halfway, Breakeven
<1>4. order'.link = "none" <=> ~Setup.telegram
  BY <1>1, <1>2 DEF PlanInv
<1>5. CASE order.sold < Amount
  <2>1. bot' = RestoredBot /\ bot.open
    <3>1. order.sold \in Nat /\ Amount \in Nat
      BY <1>1, ExitAssumption DEF Orders
    <3> QED
      BY <1>1, <1>5, <3>1 DEF Restart, ExitInv, ExitsFitThePosition
  <2>2. Len(fired') = order'.hits
    BY <1>1, <1>2, <2>1 DEF PlanInv
  <2>3. ASSUME OnTrack'
        PROVE  /\ bot'.stop = PlannedStop(order.hits) /\ bot'.target = Setup.target
               /\ bot'.ladder = Setup.ladder /\ bot'.shares = Setup.shares
               /\ bot'.rule = Setup.rule /\ bot'.channel = Setup.telegram
    <3>1. order.link = "saved" \/ (order.link = "none" /\ ~Setup.telegram)
      BY <1>1, <1>2, <1>3, <1>4, <2>3 DEF OnTrack, Orders
    <3>2. Setup.telegram \in BOOLEAN /\ (order.link = "saved" <=> Setup.telegram)
      BY <1>1, <1>2, <1>4, <3>1, ExitAssumption DEF Orders, Setup
    <3> QED
      BY <1>1, <2>1, <3>1, <3>2, RestoredAsPlanned
  <2> QED
    BY <1>1, <1>3, <1>4, <2>1, <2>2, <2>3 DEF PlanInv, Idle
<1>6. CASE ~(order.sold < Amount)
  <2>1. ~bot'.open
    BY <1>6 DEF Restart, Absent
  <2> QED
    BY <1>1, <1>3, <1>4, <2>1 DEF PlanInv, OnTrack
<1> QED
  BY <1>5, <1>6

LEMMA NextKeepsPlanInv ==
  ASSUME ExitInv, PlanInv, [Next]_vars
  PROVE  PlanInv'
<1>1. bot.open => order.open /\ order \in Orders /\ bot \in Positions
  BY OpenTypes DEF ExitInv, TypeOK
<1>2. ~order.open => ~bot.open
  BY <1>1
<1>3. ASSUME NEW setup \in Setups, Open(setup) PROVE PlanInv'
  <2>1. ~loop.closing
    BY <1>3 DEF Open, ExitInv, TypeOK
  <2> QED
    BY <1>3, <2>1, OpenIsOnPlan
<1>4. CASE Link
  <2>1. /\ order'.setup = order.setup /\ order'.open /\ order'.hits = order.hits /\ order.open
        /\ order'.link = "saved" /\ order.link = "pending"
    BY <1>4 DEF Link, ExitInv, TypeOK, Orders, Absent
  <2>2. FirstReachable(Plan)' = FirstReachable(Plan)
    BY <2>1, PlanStays
  <2>3. UNCHANGED <<bot, loop, fired, moved>>
    BY <1>4 DEF Link
  <2>4. OnTrack' => OnTrack
    BY <2>1, <2>2, <2>3 DEF OnTrack, InOrder
  <2> QED
    BY <2>1, <2>3, <2>4, PlanGoesOn DEF PlanInv
<1>5. ASSUME NEW p \in Prices, NEW trail \in Trails,
             IterateQuietly(p, trail) \/ IterateToClose(p, trail)
      PROVE  PlanInv'
  <2> DEFINE stop == TrailingStop(p, trail)
  <2>1. /\ bot.open /\ bot' = [bot EXCEPT !.stop = stop] /\ moved' = (moved \/ stop # bot.stop)
        /\ UNCHANGED <<order, fired>>
        /\ \/ loop' = loop /\ ~loop.closing
           \/ loop'.stop = stop /\ loop'.levels = Levels
    BY <1>5 DEF IterateQuietly, IterateToClose
  <2> HIDE DEF stop
  <2>2. FirstReachable(Plan)' = FirstReachable(Plan)
    BY <2>1, PlanStays
  <2>3. /\ bot'.open /\ bot'.stop = stop /\ bot'.target = bot.target /\ bot'.ladder = bot.ladder
        /\ bot'.shares = bot.shares /\ bot'.rule = bot.rule /\ bot'.channel = bot.channel
    BY <1>1, <2>1 DEF Positions
  <2>4. OnTrack' => OnTrack /\ stop = bot.stop
    BY <2>1, <2>2 DEF OnTrack, InOrder
  <2>5. OnTrack => Levels = Plan
    BY DEF PlanInv, Levels, Plan
  <2> QED
    BY <1>1, <2>1, <2>3, <2>4, <2>5, PlanGoesOn
<1>6. CASE SettlePart
  BY <1>6, SettlePartIsPlanned
<1>7. CASE SettleAll \/ StopReport
  <2>1. bot' = Absent /\ \E part : Sold(part)
    BY <1>7 DEF SettleAll, StopReport
  <2>2. bot.open
    BY <1>7 DEF SettleAll, StopReport, ExitInv, TypeOK
  <2>3. order'.setup = order.setup /\ order'.link = order.link
    BY <1>1, <2>1, <2>2 DEF Sold, Orders
  <2>4. ~bot'.open /\ Setup' = Setup
    BY <2>1, <2>3 DEF Absent, Setup
  <2> QED
    BY <1>1, <2>2, <2>3, <2>4 DEF PlanInv, OnTrack
<1>8. ASSUME NEW stop, NEW target, engine.open, SetBoth(stop, target) PROVE PlanInv'
  <2>1. bot.open
    BY <1>8 DEF ExitInv, TypeOK
  <2>2. moved' = TRUE /\ UNCHANGED <<order, fired>>
    BY <1>8 DEF SetBoth
  <2>3. ~OnTrack'
    BY <2>2 DEF OnTrack
  <2> QED
    BY <1>1, <2>1, <2>2, <2>3 DEF PlanInv, Setup
<1>9. CASE Restart
  BY <1>9, RestartIsPlanned
<1>10. CASE UNCHANGED vars
  BY SMTT(20), <1>10 DEF vars, PlanInv, OnTrack, InOrder, Plan, LevelsOf, PlannedStop, FirstReachable,
               Reachable, Halfway, Breakeven, Setup
<1> QED
  BY <1>3, <1>4, <1>5, <1>6, <1>7, <1>8, <1>9, <1>10 DEF Next, EditStop, EditTarget, EditBoth

\* Once the signal is linked, a restart rebuilds the position the loop holds from the number of
\* trades, for as long as the ladder alone, level by level, has moved its stop.
THEOREM RestartRebuilds == Spec => []RestartKeepsThePlan
<1> DEFINE Inv == ExitInv /\ PlanInv
<1>1. Init => Inv
  BY InitExitInv DEF Init, PlanInv, OnTrack, Absent
<1>2. Inv /\ [Next]_vars => Inv'
  BY NextKeepsInv, NextKeepsPlanInv
<1>3. Inv => RestartKeepsThePlan
  <2> SUFFICES ASSUME Inv, bot.open, ~loop.closing, OnPlan, order.link # "pending"
               PROVE  bot = RestoredBot
    BY DEF RestartKeepsThePlan
  <2>1. bot \in Positions /\ order \in Orders /\ order.open
    BY OpenTypes DEF ExitInv, OnPlan
  <2>2. OnTrack
    BY DEF OnTrack, OnPlan, PlanIsSound, Plan
  <2>3. /\ order.link \in {"saved", "none"} /\ (order.link = "none" <=> ~Setup.telegram)
        /\ Setup.telegram \in BOOLEAN
    BY <2>1, ExitAssumption DEF Orders, Setup, OnPlan, PlanInv
  <2>4. RestoredBot = [open |-> TRUE, amount |-> Amount - order.sold, hits |-> order.hits,
                       stop |-> PlannedStop(order.hits), target |-> Setup.target,
                       ladder |-> Setup.ladder, shares |-> Setup.shares, rule |-> Setup.rule,
                       channel |-> order.link = "saved"]
    BY <2>1, <2>3, RestoredAsPlanned
  <2>5. /\ bot.open = TRUE /\ bot.amount = Amount - order.sold /\ bot.hits = order.hits
        /\ bot.stop = PlannedStop(order.hits) /\ bot.target = Setup.target
        /\ bot.ladder = Setup.ladder /\ bot.shares = Setup.shares /\ bot.rule = Setup.rule
        /\ bot.channel = (order.link = "saved")
    <3>1. bot.amount = Amount - order.sold /\ bot.hits = order.hits
      BY <2>1, ExitAssumption DEF ExitInv, ExitsFitThePosition, Positions, Orders
    <3>2. bot.channel = Setup.telegram /\ (Setup.telegram = (order.link = "saved"))
      BY <2>2, <2>3 DEF PlanInv
    <3> QED
      BY <2>1, <2>2, <3>1, <3>2 DEF PlanInv, Positions
  <2>6. bot = [open |-> TRUE, amount |-> bot.amount, hits |-> bot.hits, stop |-> bot.stop,
               target |-> bot.target, ladder |-> bot.ladder, shares |-> bot.shares,
               rule |-> bot.rule, channel |-> bot.channel]
    BY <2>1 DEF Positions
  <2> QED
    BY <2>4, <2>5, <2>6
<1> HIDE DEF Inv
<1> QED
  BY <1>1, <1>2, <1>3, PTL DEF Spec

\* A stop that replaces another keeps its side of the entry: after every partial close, and on
\* plan over restarts too.
THEOREM StopStays == Spec => StopKeepsItsSide
<1> DEFINE Inv == ExitInv /\ CloseInv /\ PlanInv
           settled == Settles /\ bot'.open => Keeps(loop.stop, bot'.stop)
           planned == bot.open /\ bot'.open /\ OnPlan /\ OnPlan' /\ order.link # "pending"
                        => Keeps(bot.stop, bot'.stop)
<1>1. Init => Inv
  BY InitExitInv DEF Init, CloseInv, Idle, PlanInv, OnTrack, Absent
<1>2. Inv /\ [Next]_vars => Inv'
  BY NextKeepsInv, NextKeepsCloseInv, NextKeepsPlanInv
<1>3. ASSUME Inv, SettlePart PROVE Keeps(loop.stop, bot'.stop)
  <2>1. bot.open /\ bot \in Positions /\ order \in Orders /\ loop \in Closes
    BY <1>3, OpenTypes DEF SettlePart, ExitInv, TypeOK, Idle
  <2>2. bot'.stop = StopAfter(loop.level, loop.levels, loop.stop, bot.rule)
        /\ loop.part < bot.amount /\ bot.amount \in Nat
    BY <1>3, <2>1, ExitAssumption DEF SettlePart, Positions
  <2>3. LevelInv
    BY <1>3, <2>2 DEF CloseInv, SettlePart
  <2>4. Keeps(loop.stop, StopAfter(loop.level, loop.levels, loop.stop, bot.rule))
    BY <2>1, <2>2, <2>3, PartialKeeps
  <2> QED
    BY <2>2, <2>4
<1>4. Inv /\ [Next]_vars => settled
  <2> SUFFICES ASSUME Inv, [Next]_vars, Settles, bot'.open PROVE Keeps(loop.stop, bot'.stop)
    OBVIOUS
  <2>1. SettlePart
    BY SettlesIsSettling DEF SettleAll, Absent
  <2> QED
    BY <1>3, <2>1
<1>5. Inv /\ [Next]_vars => planned
  <2> SUFFICES ASSUME Inv, [Next]_vars, bot.open, bot'.open, OnPlan, OnPlan'
               PROVE  Keeps(bot.stop, bot'.stop)
    OBVIOUS
  <2>1. bot \in Positions /\ order \in Orders
    BY OpenTypes DEF ExitInv
  <2>2. OnTrack /\ OnTrack'
    BY DEF OnTrack, OnPlan, PlanIsSound, Plan
  <2>3. CASE SettlePart
    <3>1. loop.stop = bot.stop
      BY <2>2, <2>3 DEF PlanInv, SettlePart
    <3> QED
      BY <1>3, <2>3, <3>1
  <2>4. CASE order'.hits = order.hits /\ order'.setup = order.setup
    <3>1. Setup' = Setup
      BY <2>4 DEF Setup
    <3>2. /\ Setup' = Setup /\ Plan' = Plan
          /\ \A hits : PlannedStop(hits)' = PlannedStop(hits)
      BY <2>4, <3>1, PlanStays
    <3>3. PlanInv'
      BY <1>2
    <3>4. bot.stop = PlannedStop(order.hits)
      BY <2>2 DEF PlanInv
    <3>5. bot'.stop = PlannedStop(order.hits)'
      BY <2>2, <3>3 DEF PlanInv
    <3>6. bot'.stop = bot.stop
      BY <2>4, <3>2, <3>4, <3>5 DEF PlannedStop, Halfway, Breakeven
    <3> QED
      BY <3>6 DEF Keeps
  <2>5. SettlePart \/ (order'.hits = order.hits /\ order'.setup = order.setup)
    <3>1. bot' # Absent
      BY DEF Absent
    <3> QED
      BY <2>1, <3>1 DEF Next, vars, Open, Link, IterateQuietly, IterateToClose, SettleAll, StopReport,
                EditStop, EditTarget, EditBoth, SetBoth, Restart, Orders
  <2> QED
    BY <2>3, <2>4, <2>5
<1>6. Inv /\ [Next]_vars => [settled /\ planned]_vars
  BY <1>4, <1>5
<1> HIDE DEF Inv
<1> QED
  BY <1>1, <1>2, <1>6, PTL DEF Spec, StopKeepsItsSide
=============================================================================
