------------------------- MODULE RealPositionProofs -------------------------
(***************************************************************************)
(* Theorems about RealPosition, for any size of a lot, any cap on the      *)
(* contracts and any number of sales, rows and stop orders: no sale is     *)
(* booked twice, what the rows say is open is tracked or was sold, and no  *)
(* step leaves a stop order without its position.                          *)
(*                                                                         *)
(* They hold as long as no two workers overlap other than the watcher with *)
(* a closing, every cancellation reaches the exchange, no worker uses a    *)
(* copy of the position that is out of date, and no position is opened     *)
(* beside a row of the symbol that is open and not tracked.  Crashes       *)
(* between any two steps, wrong answers about the position, partial        *)
(* confirmations and foreign contracts may happen.                         *)
(*                                                                         *)
(* The invariant compares what the last row has open with the contracts    *)
(* held and the sales nobody has booked yet: none of the properties is     *)
(* inductive without it, because a sale is made by one step and booked by  *)
(* a later one, perhaps of another worker or after a restart.              *)
(***************************************************************************)
EXTENDS RealPosition, FiniteSetTheorems, TLAPS

Apart == Overlaps \subseteq {{"channel", "watch"}, {"request", "watch"}}
Mild == Mishaps \cap {"lost cancel", "stale copy", "second row"} = {}

Rows == DOMAIN orders
Last == Len(orders)
Owed == IF Last = 0 THEN 0 ELSE Remaining(Last)
Loose == VolumeOf(Unbooked)
Closers == {"loop", "channel", "request"}
Settlers == {"loop", "watch"}
Pair(v, w) == \/ v = "watch" /\ w \in {"channel", "request"}
              \/ w = "watch" /\ v \in {"channel", "request"}

Sale == [volume : 1..Cap, stop : Nat]
Row == [volume : 1..Cap, filled : BOOLEAN, at : Nat]
Booking == [order : Nat, fills : SUBSET Nat, volume : Nat, at : Nat]
StopOrder == [id : Nat \ {0}, volume : Nat \ {0}]
OpenJob == [step : {"sent"}, bought : {0, Lot}]
CloseJob == [step : {"sell", "forget", "record"}, volume : Nat \ {0}, order : Nat, fill : Nat]
SettleJob == [step : {"drop", "book"}, order : Nat, stop : Nat, fills : SUBSET Nat]
AnyPosition == [open : {TRUE}, volume : Nat \ {0}, order : Nat, stop : Nat, since : Nat,
                gone : BOOLEAN, adopted : BOOLEAN]
AnyCopy == [open : {TRUE}, volume : Nat \ {0}, order : Nat]

\* What is what.
StopsTyped == IsFiniteSet(stops) /\ stops \subseteq StopOrder
RowsTyped == /\ orders \in Seq(Row) /\ \A i \in Rows : orders[i].at <= Len(fills)
TradesTyped ==
  /\ trades \in Seq(Booking)
  /\ \A t \in DOMAIN trades : /\ trades[t].order \in Rows /\ trades[t].fills \subseteq DOMAIN fills
                              /\ trades[t].at <= Len(fills)
PosTyped == \/ pos = None
            \/ pos \in AnyPosition /\ pos.order \in Rows /\ pos.since <= Len(fills)
BotTyped == \/ bot = None
            \/ bot \in AnyCopy /\ bot.order \in Rows
WorkTyped ==
  /\ work = [w \in Workers |-> work[w]]
  /\ \A w \in Workers : \/ work[w] = Idle
                        \/ w = "opening" /\ work[w] \in OpenJob
                        \/ w \in Closers /\ work[w] \in CloseJob
                        \/ w \in Settlers /\ work[w] \in SettleJob
Typed ==
  /\ held \in 0..Cap /\ wrong \in BOOLEAN /\ fills \in Seq(Sale)
  /\ StopsTyped /\ RowsTyped /\ TradesTyped /\ PosTyped /\ BotTyped /\ WorkTyped
  /\ events \subseteq {fills[i].stop : i \in DOMAIN fills} \ {0}

\* Only the watcher works beside another.
Paired == \A v, w \in Busy : v # w => Pair(v, w)

\* The rows: only the last has anything open, and what is booked for an earlier one was sold
\* before the last was made.
RowsInv ==
  /\ BookedOnce
  /\ \A i \in Rows : i # Last => Remaining(i) = 0
  /\ \A t \in DOMAIN trades : trades[t].order # Last =>
       \A i \in trades[t].fills : i <= orders[Last].at

\* The position is the last row's.  What the row has open is held or was sold by sales nobody
\* has booked, and the stop order is large enough for what they leave.
PositionInv ==
  pos.open => /\ pos.order = Last /\ pos.since = orders[Last].at
              /\ bot.open => bot.order = Last
              /\ FillsOf(pos.stop) \subseteq Unbooked
              /\ FillsOf(pos.stop) # {} => Owed <= Loose
              /\ \A s \in stops : s.id = pos.stop => Owed <= s.volume + Loose
HeldInv == Owed <= held + Loose

\* What the row has open is tracked, or was sold by sales nobody has booked, or is being booked.
Recording == {w \in Closers : work[w].step = "record"}
Accounted == \/ Owed <= Loose
             \/ Owed <= Tracked
             \/ \E w \in Recording : Owed <= Tracked + work[w].volume

\* While an order is with the exchange nothing else is open but what was adopted.
OpeningInv ==
  work["opening"] # Idle =>
    /\ OpenOrders \subseteq IF pos.open /\ pos.adopted THEN {pos.order} ELSE {}
    /\ work["opening"].bought <= held + Loose

Selling(w) == work[w].step \in {"sell", "forget", "record"}
Settling(w) == work[w].step \in {"drop", "book"}

\* A worker that closes: the position has no stop order until it is forgotten, and the sale is
\* booked by nobody else.
CloserInv(w) ==
  Selling(w) =>
    /\ work[w].order = Last /\ Last # 0
    /\ work[w].step = "sell" => work[w].fill = 0
    /\ work[w].step \in {"sell", "forget"} /\ pos.open => \A s \in stops : s.id # pos.stop
    /\ work[w].step \in {"forget", "record"} =>
         /\ work[w].fill \in Unbooked /\ fills[work[w].fill].stop = 0
         /\ fills[work[w].fill].volume <= work[w].volume
    /\ w = "loop" => IF work[w].step = "record"
                     THEN pos.open => bot.open /\ Tracked + work[w].volume <= bot.volume
                     ELSE bot.open /\ Tracked <= bot.volume

\* A worker that settles: its sales are booked by nobody else, and cover what the row has open.
SettlerInv(w) ==
  Settling(w) =>
    /\ work[w].order = Last /\ Last # 0
    /\ work[w].fills \subseteq Unbooked
    /\ w = "watch" => \A i \in work[w].fills : fills[i].stop # 0
    /\ work[w].step = "book" => ~pos.open
    /\ Owed <= Loose

LedgerInv == /\ Typed /\ Paired /\ RowsInv /\ PositionInv /\ HeldInv /\ Accounted /\ OpeningInv
             /\ \A w \in Closers : CloserInv(w)
             /\ \A w \in Settlers : SettlerInv(w)
-----------------------------------------------------------------------------
(* Sums over finite sets.  A sum is what an additive function on the subsets says of the whole: *)
(* whichever element is taken out first, its term and the rest make the total.                  *)

Additive(g, f, S) ==
  /\ g \in [SUBSET S -> Int] /\ g[{}] = 0
  /\ \A T \in SUBSET S : \A x \in T : g[T] = f[x] + g[T \ {x}]

SumOf(f, S) == (CHOOSE g : Additive(g, f, S))[S]

\* What the folds of the community modules compute: the terms in the order CHOOSE takes them.
Fold(h, f, S) ==
  h = [T \in SUBSET S |-> IF T = {} THEN 0
                          ELSE LET x == CHOOSE x \in T : TRUE IN f[x] + h[T \ {x}]]

\* A set of naturals has a least element.
LEMMA LeastOf == ASSUME NEW T \in SUBSET Nat, T # {} PROVE \E x \in T : \A y \in T : x <= y
<1>1. IsWellFoundedOn(OpToRel(<, Nat), Nat)
  BY NatLessThanWellFounded
<1>2. PICK x \in T : \A y \in T : ~ (<<y, x>> \in OpToRel(<, Nat))
  BY <1>1, WFMin
<1>3. \A y \in T : ~(y < x)
  BY <1>2 DEF OpToRel
<1> QED
  BY <1>3

\* Induction over the naturals, on a set.
LEMMA Inductive ==
  ASSUME NEW S, 0 \in S, \A n \in Nat : n \in S => n + 1 \in S PROVE Nat \subseteq S
<1> DEFINE T == Nat \ S
<1> SUFFICES ASSUME T # {} PROVE FALSE
  OBVIOUS
<1>1. PICK x \in T : \A y \in T : x <= y
  BY LeastOf
<1>2. x # 0 /\ x - 1 \in Nat /\ x - 1 \notin T
  BY <1>1
<1> QED
  BY <1>1, <1>2

\* What the empty set has, and a set whenever it has it without any one of its elements, every
\* finite set has.
LEMMA FiniteInduction ==
  ASSUME NEW S, IsFiniteSet(S), NEW P, {} \in P,
         \A T \in SUBSET S : T # {} /\ (\A x \in T : T \ {x} \in P) => T \in P
  PROVE  \A T \in SUBSET S : T \in P
<1> DEFINE N == {n \in Nat : \A T \in SUBSET S : Cardinality(T) = n => T \in P}
<1>1. \A T \in SUBSET S : IsFiniteSet(T) /\ Cardinality(T) \in Nat
  BY FS_Subset, FS_CardinalityType
<1>2. 0 \in N
  BY <1>1, FS_EmptySet
<1>3. ASSUME NEW n \in Nat, n \in N PROVE n + 1 \in N
  <2>1. ASSUME NEW T \in SUBSET S, Cardinality(T) = n + 1 PROVE T \in P
    <3>1. T # {}
      <4>1. n + 1 # 0
        OBVIOUS
      <4> QED
        BY <2>1, <4>1, FS_EmptySet
    <3>2. IsFiniteSet(T)
      BY <1>1
    <3>3. ASSUME NEW x \in T PROVE T \ {x} \in P
      <4>1. Cardinality(T \ {x}) = Cardinality(T) - 1
        BY <3>2, FS_RemoveElement
      <4>2. Cardinality(T \ {x}) = n
        BY <2>1, <4>1
      <4> QED
        BY <1>3, <4>2
    <3> QED
      BY <3>1, <3>3
  <2> QED
    BY <2>1
<1> HIDE DEF N
<1>4. Nat \subseteq N
  BY <1>2, <1>3, Inductive
<1> QED
  BY <1>1, <1>4 DEF N

\* Whatever the terms, a finite set has such a function.
LEMMA AdditiveExists ==
  ASSUME NEW S, IsFiniteSet(S), NEW f, \A x \in S : f[x] \in Int
  PROVE  \E g : Additive(g, f, S)
<1> DEFINE P == {T \in SUBSET S : \E g : Additive(g, f, T)}
<1>1. {} \in P
  <2> DEFINE g == [T \in SUBSET {} |-> 0]
  <2>1. Additive(g, f, {})
    BY DEF Additive
  <2> QED
    BY <2>1
<1>2. ASSUME NEW W \in SUBSET S, W # {}, \A x \in W : W \ {x} \in P PROVE W \in P
  <2>0. PICK x \in W : TRUE
    BY <1>2
  <2> DEFINE T == W \ {x}
  <2>1. PICK g : Additive(g, f, T)
    BY <1>2
  <2> DEFINE h == [V \in SUBSET W |-> IF x \in V THEN f[x] + g[V \ {x}] ELSE g[V]]
  <2>2. \A V \in SUBSET W : V \ {x} \in SUBSET T /\ (x \notin V => V \in SUBSET T)
    OBVIOUS
  <2>3. h \in [SUBSET W -> Int]
    BY <2>1, <2>2 DEF Additive
  <2>4. h[{}] = 0
    BY <2>1 DEF Additive
  <2>5. ASSUME NEW V \in SUBSET W, NEW y \in V PROVE h[V] = f[y] + h[V \ {y}]
    <3>1. CASE y = x
      BY <3>1
    <3>2. CASE x \notin V
      BY <2>1, <2>2, <3>2 DEF Additive
    <3>3. CASE x \in V /\ y # x
      <4>1. V \ {x} \in SUBSET T /\ y \in V \ {x} /\ V \ {y} \in SUBSET W /\ x \in V \ {y}
        BY <3>3
      <4>2. g[V \ {x}] = f[y] + g[(V \ {x}) \ {y}]
        BY <2>1, <4>1 DEF Additive
      <4>3. (V \ {x}) \ {y} = (V \ {y}) \ {x} /\ (V \ {x}) \ {y} \in SUBSET T
        BY <4>1
      <4>4. h[V] = f[x] + g[V \ {x}] /\ h[V \ {y}] = f[x] + g[(V \ {y}) \ {x}]
        BY <3>3, <4>1
      <4>5. f[x] \in Int /\ f[y] \in Int /\ g[(V \ {x}) \ {y}] \in Int
        BY <2>1, <4>3 DEF Additive
      <4>6. \A u, v, w \in Int : u + (v + w) = v + (u + w)
        OBVIOUS
      <4> HIDE DEF h, T
      <4>7. h[V] = f[x] + (f[y] + g[(V \ {x}) \ {y}])
        BY <4>2, <4>4
      <4>8. h[V \ {y}] = f[x] + g[(V \ {x}) \ {y}]
        BY <4>3, <4>4
      <4> QED
        BY <4>5, <4>6, <4>7, <4>8
    <3> QED
      BY <3>1, <3>2, <3>3
  <2> HIDE DEF h
  <2>6. Additive(h, f, W)
    BY <2>3, <2>4, <2>5 DEF Additive
  <2> QED
    BY <2>6
<1> HIDE DEF P
<1>3. S \in P
  BY <1>1, <1>2, FiniteInduction
<1> QED
  BY <1>3 DEF P

\* A fold takes its terms in one order, and an additive function does not care which.
LEMMA FoldIsAdditive ==
  ASSUME NEW S, IsFiniteSet(S), NEW f, NEW g, Additive(g, f, S), NEW h, Fold(h, f, S)
  PROVE  h = g
<1> DEFINE P == {T \in SUBSET S : h[T] = g[T]}
<1>0. \A T \in SUBSET S : h[T] = IF T = {} THEN 0
                                 ELSE LET x == CHOOSE x \in T : TRUE IN f[x] + h[T \ {x}]
  BY DEF Fold
<1>1. {} \in P
  BY <1>0 DEF Additive
<1>2. ASSUME NEW T \in SUBSET S, T # {}, \A x \in T : T \ {x} \in P PROVE T \in P
  <2> DEFINE y == CHOOSE x \in T : TRUE
  <2>1. y \in T
    BY <1>2
  <2>2. h[T] = f[y] + h[T \ {y}]
    BY <1>0, <1>2
  <2>3. g[T] = f[y] + g[T \ {y}]
    BY <2>1 DEF Additive
  <2> QED
    BY <1>2, <2>1, <2>2, <2>3
<1>3. h \in [SUBSET S -> {h[T] : T \in SUBSET S}] /\ g \in [SUBSET S -> Int]
  BY DEF Fold, Additive
<1> HIDE DEF P
<1>4. \A T \in SUBSET S : T \in P
  BY <1>1, <1>2, FiniteInduction
<1> QED
  BY <1>3, <1>4 DEF P

\* It is what the folds compute.
LEMMA AdditiveFolds ==
  ASSUME NEW S, NEW f, NEW g, Additive(g, f, S)
  PROVE  Fold(g, f, S)
<1> DEFINE b == [T \in SUBSET S |-> IF T = {} THEN 0
                                    ELSE LET x == CHOOSE x \in T : TRUE IN f[x] + g[T \ {x}]]
<1>1. ASSUME NEW T \in SUBSET S PROVE g[T] = b[T]
  <2>1. CASE T = {}
    BY <2>1 DEF Additive
  <2>2. CASE T # {}
    <3> DEFINE x == CHOOSE x \in T : TRUE
    <3>1. x \in T
      BY <2>2
    <3>2. b[T] = f[x] + g[T \ {x}]
      BY <2>2
    <3> HIDE DEF b, x
    <3> QED
      BY <3>1, <3>2 DEF Additive
  <2> QED
    BY <2>1, <2>2
<1>2. g \in [SUBSET S -> Int] /\ b \in [SUBSET S -> {b[T] : T \in SUBSET S}]
  BY DEF Additive
<1> HIDE DEF b
<1>3. g = b
  BY <1>1, <1>2
<1> QED
  BY <1>3 DEF Fold, b

\* The laws a sum is used by: of nothing, of one more term, and of terms that have not changed.
LEMMA SumIs ==
  ASSUME NEW S, IsFiniteSet(S), NEW f, NEW g, Additive(g, f, S)
  PROVE  SumOf(f, S) = g[S]
<1> DEFINE c == CHOOSE h : Additive(h, f, S)
<1>1. Additive(c, f, S)
  OBVIOUS
<1> HIDE DEF c
<1>2. c = g
  BY <1>1, AdditiveFolds, FoldIsAdditive
<1> QED
  BY <1>2 DEF SumOf, c

\* Nothing sums to 0.
LEMMA SumOfNothing == ASSUME NEW f PROVE SumOf(f, {}) = 0
<1>1. IsFiniteSet({}) /\ \A x \in {} : f[x] \in Int
  BY FS_EmptySet
<1>2. PICK g : Additive(g, f, {})
  BY <1>1, AdditiveExists
<1> QED
  BY <1>1, <1>2, SumIs DEF Additive

\* An element taken out of a sum,
LEMMA SumWithout ==
  ASSUME NEW S, IsFiniteSet(S), NEW f, \A x \in S : f[x] \in Int, NEW x \in S
  PROVE  SumOf(f, S) = f[x] + SumOf(f, S \ {x}) /\ SumOf(f, S \ {x}) \in Int
<1> DEFINE T == S \ {x}
<1>1. PICK g : Additive(g, f, S)
  BY AdditiveExists
<1> DEFINE h == [V \in SUBSET T |-> g[V]]
<1>2. IsFiniteSet(T)
  BY FS_RemoveElement
<1>3. Additive(h, f, T)
  BY <1>1 DEF Additive
<1> HIDE DEF h
<1>4. SumOf(f, T) = h[T]
  BY <1>2, <1>3, SumIs
<1>5. h[T] = g[T] /\ g[T] \in Int /\ g[S] = f[x] + g[T]
  BY <1>1 DEF h, Additive
<1>6. SumOf(f, S) = g[S]
  BY <1>1, SumIs
<1> QED
  BY <1>4, <1>5, <1>6

\* and one put in.
LEMMA SumWith ==
  ASSUME NEW S, IsFiniteSet(S), NEW f, \A y \in S : f[y] \in Int, NEW x, x \notin S, f[x] \in Int
  PROVE  SumOf(f, S \cup {x}) = f[x] + SumOf(f, S) /\ SumOf(f, S) \in Int
<1> DEFINE T == S \cup {x}
<1>1. IsFiniteSet(T) /\ x \in T /\ T \ {x} = S /\ \A y \in T : f[y] \in Int
  BY FS_AddElement
<1> HIDE DEF T
<1>2. SumOf(f, T) = f[x] + SumOf(f, T \ {x}) /\ SumOf(f, T \ {x}) \in Int
  BY <1>1, SumWithout
<1> QED
  BY <1>1, <1>2 DEF T

\* A sum of integers is one.
LEMMA SumIsInt ==
  ASSUME NEW S, IsFiniteSet(S), NEW f, \A x \in S : f[x] \in Int
  PROVE  SumOf(f, S) \in Int
<1>1. PICK g : Additive(g, f, S)
  BY AdditiveExists
<1>2. SumOf(f, S) = g[S]
  BY <1>1, SumIs
<1> QED
  BY <1>1, <1>2 DEF Additive

\* A sum depends on its terms alone.
LEMMA SumOfSame ==
  ASSUME NEW S, IsFiniteSet(S), NEW f, NEW h, \A x \in S : f[x] \in Int /\ f[x] = h[x]
  PROVE  SumOf(f, S) = SumOf(h, S)
<1>1. PICK g : Additive(g, f, S)
  BY AdditiveExists
<1>2. Additive(g, h, S)
  BY <1>1 DEF Additive
<1> QED
  BY <1>1, <1>2, SumIs

\* The model's sum of volumes is such a sum.
LEMMA TotalSum ==
  ASSUME NEW q, NEW S, IsFiniteSet(S), NEW f, \A i \in S : f[i] \in Int /\ f[i] = q[i].volume
  PROVE  Total(q, S) = SumOf(f, S)
<1> DEFINE B(h) == [T \in SUBSET S |-> IF T = {} THEN 0
                      ELSE LET x == CHOOSE x \in T : TRUE IN q[x].volume + h[T \ {x}]]
           c == CHOOSE h : h = B(h)
<1>1. Total(q, S) = c[S]
  BY DEF Total, MapThenSumSet, MapThenFoldSet
<1>2. PICK g : Additive(g, f, S)
  BY AdditiveExists
<1>3. ASSUME NEW h PROVE h = B(h) <=> Fold(h, f, S)
  <2> DEFINE F == [T \in SUBSET S |-> IF T = {} THEN 0
                      ELSE LET x == CHOOSE x \in T : TRUE IN f[x] + h[T \ {x}]]
  <2>1. \A T \in SUBSET S : T # {} => (CHOOSE x \in T : TRUE) \in S
    OBVIOUS
  <2>2. F = B(h)
    BY <2>1
  <2> QED
    BY <2>2 DEF Fold
<1>4. g = B(g)
  BY <1>2, <1>3, AdditiveFolds
<1>5. c = B(c)
  BY <1>4, ZenonT(60)
<1> HIDE DEF B, c
<1>6. c = g
  BY <1>2, <1>3, <1>5, FoldIsAdditive
<1> QED
  BY <1>1, <1>2, <1>6, SumIs

\* Rows that have a volume.
Measured(q, S) == IsFiniteSet(S) /\ \A i \in S : q[i].volume \in Nat

\* No rows, no volume.
LEMMA TotalOfNothing == ASSUME NEW q PROVE Total(q, {}) = 0
<1> DEFINE f == [i \in {} |-> q[i].volume]
<1>1. IsFiniteSet({}) /\ \A i \in {} : f[i] \in Int /\ f[i] = q[i].volume
  BY FS_EmptySet
<1> HIDE DEF f
<1>2. Total(q, {}) = SumOf(f, {})
  BY <1>1, TotalSum
<1> QED
  BY <1>2, SumOfNothing

\* One row more.
LEMMA TotalWith ==
  ASSUME NEW q, NEW S, Measured(q, S), NEW x, x \notin S, q[x].volume \in Nat
  PROVE  Total(q, S \cup {x}) = q[x].volume + Total(q, S)
<1> DEFINE T == S \cup {x}
           f == [i \in T |-> q[i].volume]
<1>1. IsFiniteSet(S) /\ IsFiniteSet(T) /\ \A i \in T : f[i] \in Int /\ f[i] = q[i].volume
  BY FS_AddElement DEF Measured
<1>2. f[x] = q[x].volume /\ S \subseteq T
  OBVIOUS
<1> HIDE DEF f
<1>3. \A i \in S : f[i] \in Int /\ f[i] = q[i].volume
  BY <1>1, <1>2
<1>4. SumOf(f, T) = f[x] + SumOf(f, S)
  BY <1>1, <1>2, <1>3, SumWith
<1> HIDE DEF T
<1>5. Total(q, T) = SumOf(f, T) /\ Total(q, S) = SumOf(f, S)
  BY <1>1, <1>3, TotalSum
<1> QED
  BY <1>2, <1>4, <1>5 DEF T

\* Volumes sum to a natural number.
LEMMA TotalIsNat == ASSUME NEW q, NEW S, Measured(q, S) PROVE Total(q, S) \in Nat
<1> DEFINE P == {T \in SUBSET S : Total(q, T) \in Nat}
<1>1. {} \in P
  BY TotalOfNothing
<1>2. ASSUME NEW T \in SUBSET S, T # {}, \A x \in T : T \ {x} \in P PROVE T \in P
  <2>1. PICK x \in T : TRUE
    BY <1>2
  <2> DEFINE U == T \ {x}
  <2>2. Measured(q, U) /\ x \notin U /\ q[x].volume \in Nat /\ U \cup {x} = T /\ U \in P
    BY <1>2, FS_Subset DEF Measured
  <2> HIDE DEF U
  <2>3. Total(q, U \cup {x}) = q[x].volume + Total(q, U)
    BY <2>2, TotalWith
  <2>4. Total(q, U) \in Nat
    BY <2>2
  <2>5. Total(q, U \cup {x}) \in Nat
    BY <2>2, <2>3, <2>4
  <2> QED
    BY <2>2, <2>5
<1>3. IsFiniteSet(S)
  BY DEF Measured
<1> HIDE DEF P
<1>4. \A T \in SUBSET S : T \in P
  BY <1>1, <1>2, <1>3, FiniteInduction
<1> QED
  BY <1>4 DEF P

\* A total depends on the volumes alone.
LEMMA TotalSame ==
  ASSUME NEW q, NEW r, NEW S, Measured(q, S), \A i \in S : r[i].volume = q[i].volume
  PROVE  Total(r, S) = Total(q, S)
<1> DEFINE f == [i \in S |-> q[i].volume]
<1>1. IsFiniteSet(S) /\ \A i \in S : f[i] \in Int /\ f[i] = q[i].volume /\ f[i] = r[i].volume
  BY DEF Measured
<1> HIDE DEF f
<1>2. Total(q, S) = SumOf(f, S) /\ Total(r, S) = SumOf(f, S)
  BY <1>1, TotalSum
<1> QED
  BY <1>2

\* A part and the rest.
LEMMA TotalSplit ==
  ASSUME NEW q, NEW S, Measured(q, S), NEW U \in SUBSET S
  PROVE  /\ Total(q, S) = Total(q, U) + Total(q, S \ U)
         /\ Total(q, U) \in Nat /\ Total(q, S \ U) \in Nat /\ Total(q, S) \in Nat
<1> DEFINE P == {T \in SUBSET U : Total(q, S \ (U \ T)) = Total(q, T) + Total(q, S \ U)}
<1>0. \A T \in SUBSET S : Measured(q, T)
  BY FS_Subset DEF Measured
<1>1. {} \in P
  <2>1. Total(q, S \ U) \in Nat /\ S \ (U \ {}) = S \ U
    BY <1>0, TotalIsNat
  <2>2. Total(q, {}) = 0
    BY TotalOfNothing
  <2>3. Total(q, S \ (U \ {})) = Total(q, {}) + Total(q, S \ U)
    BY <2>1, <2>2
  <2> QED
    BY <2>3
<1>2. ASSUME NEW T \in SUBSET U, T # {}, \A x \in T : T \ {x} \in P PROVE T \in P
  <2>1. PICK x \in T : TRUE
    BY <1>2
  <2> DEFINE V == T \ {x}
             W == S \ (U \ V)
  <2>2. /\ V \cup {x} = T /\ x \notin V /\ x \notin W /\ W \cup {x} = S \ (U \ T)
        /\ V \in SUBSET S /\ W \in SUBSET S /\ x \in S /\ V \in P
    BY <1>2, <2>1
  <2>3. Total(q, W) = Total(q, V) + Total(q, S \ U)
    BY <2>2
  <2> HIDE DEF V, W
  <2>4. q[x].volume \in Nat
    BY <2>2 DEF Measured
  <2>5. Measured(q, V) /\ Measured(q, W) /\ Measured(q, S \ U)
    BY <1>0, <2>2
  <2>6. Total(q, V \cup {x}) = q[x].volume + Total(q, V)
    BY <2>2, <2>4, <2>5, TotalWith
  <2>7. Total(q, W \cup {x}) = q[x].volume + Total(q, W)
    BY <2>2, <2>4, <2>5, TotalWith
  <2>8. Total(q, V) \in Nat /\ Total(q, W) \in Nat /\ Total(q, S \ U) \in Nat
    BY <2>5, TotalIsNat
  <2>9. Total(q, W \cup {x}) = Total(q, V \cup {x}) + Total(q, S \ U)
    BY <2>3, <2>4, <2>6, <2>7, <2>8
  <2>10. Total(q, W \cup {x}) = Total(q, S \ (U \ T)) /\ Total(q, V \cup {x}) = Total(q, T)
    BY <2>2, Zenon
  <2> QED
    BY <2>9, <2>10
<1> HIDE DEF P
<1>3. IsFiniteSet(U)
  BY FS_Subset DEF Measured
<1>4. U \in P
  BY <1>1, <1>2, <1>3, FiniteInduction
<1>5. S \ (U \ U) = S
  OBVIOUS
<1>6. Measured(q, U) /\ Measured(q, S \ U)
  BY <1>0
<1> QED
  BY <1>4, <1>5, <1>6, TotalIsNat DEF P

\* What all rows have open is such a sum too.
LEMMA OneTerm ==
  ASSUME NEW S, IsFiniteSet(S), NEW f, \A i \in S : f[i] \in Int /\ f[i] = Remaining(i)
  PROVE  MapThenSumSet(Remaining, S) = SumOf(f, S)
<1> DEFINE B(h) == [T \in SUBSET S |-> IF T = {} THEN 0
                      ELSE LET x == CHOOSE x \in T : TRUE IN Remaining(x) + h[T \ {x}]]
           c == CHOOSE h : h = B(h)
<1>1. MapThenSumSet(Remaining, S) = c[S]
  BY DEF MapThenSumSet, MapThenFoldSet
<1>2. PICK g : Additive(g, f, S)
  BY AdditiveExists
<1>3. ASSUME NEW h PROVE h = B(h) <=> Fold(h, f, S)
  <2> DEFINE F == [T \in SUBSET S |-> IF T = {} THEN 0
                      ELSE LET x == CHOOSE x \in T : TRUE IN f[x] + h[T \ {x}]]
  <2>1. \A T \in SUBSET S : T # {} => (CHOOSE x \in T : TRUE) \in S
    OBVIOUS
  <2>2. F = B(h)
    BY <2>1
  <2> QED
    BY <2>2 DEF Fold
<1>4. g = B(g)
  BY <1>2, <1>3, AdditiveFolds
<1>5. c = B(c)
  BY <1>4, ZenonT(60)
<1> HIDE DEF B, c
<1>6. c = g
  BY <1>2, <1>3, <1>5, FoldIsAdditive
<1> QED
  BY <1>1, <1>2, <1>6, SumIs
-----------------------------------------------------------------------------
(* What a worker is doing. *)

LEMMA JobSteps ==
  ASSUME WorkTyped, NEW w \in Workers
  PROVE  /\ work[w] = Idle <=> work[w].step = "idle"
         /\ work[w].step = "sent" => w = "opening" /\ work[w] \in OpenJob
         /\ Selling(w) => w \in Closers /\ work[w] \in CloseJob
         /\ Settling(w) => w \in Settlers /\ work[w] \in SettleJob
         /\ work[w].step \in {"idle", "sent", "sell", "forget", "record", "drop", "book"}
<1>1. CASE work[w] = Idle
  BY <1>1 DEF Idle, Selling, Settling
<1>2. CASE w = "opening" /\ work[w] \in OpenJob
  BY <1>2 DEF Idle, OpenJob, Selling, Settling
<1>3. CASE w \in Closers /\ work[w] \in CloseJob
  BY <1>3 DEF Idle, CloseJob, Selling, Settling
<1>4. CASE w \in Settlers /\ work[w] \in SettleJob
  BY <1>4 DEF Idle, SettleJob, Selling, Settling
<1> QED
  BY <1>1, <1>2, <1>3, <1>4 DEF WorkTyped

\* Whoever begins is at rest and fits all that are at work.
LEMMA FreeWorker ==
  ASSUME Apart, NEW w \in Workers, Free(w)
  PROVE  work[w] = Idle /\ \A v \in Busy : Pair(w, v)
<1> SUFFICES ASSUME NEW v \in Busy PROVE Pair(w, v)
  BY DEF Free
<1>1. {w, v} = {"channel", "watch"} \/ {w, v} = {"request", "watch"}
  BY DEF Free, Apart
<1>2. /\ w \in {w, v} /\ v \in {w, v}
      /\ "watch" \in {"channel", "watch"} /\ "watch" \in {"request", "watch"}
      /\ "channel" \in {"channel", "watch"} /\ "request" \in {"request", "watch"}
  OBVIOUS
<1>3. w = "watch" \/ v = "watch"
  BY <1>1, <1>2
<1>4. \/ w \in {"channel", "watch"} /\ v \in {"channel", "watch"} /\ "channel" \in {w, v}
      \/ w \in {"request", "watch"} /\ v \in {"request", "watch"} /\ "request" \in {w, v}
  BY <1>1, <1>2
<1> QED
  BY <1>3, <1>4 DEF Pair

\* The loop and an opening act alone.
LEMMA FreeAlone ==
  ASSUME Apart, NEW w \in {"loop", "opening"}, Free(w) PROVE Busy = {}
<1>1. w \in Workers
  BY DEF Workers
<1> QED
  BY <1>1, FreeWorker DEF Pair

\* How work goes on.
LEMMA Starts ==
  ASSUME Apart, WorkTyped, Paired, NEW w \in Workers, NEW job, job # Idle, Start(w, job)
  PROVE  /\ work' = [v \in Workers |-> work'[v]]
         /\ work'[w] = job /\ \A v \in Workers : v # w => work'[v] = work[v]
         /\ Busy' = Busy \cup {w} /\ Paired' /\ Free(w)
<1>1. /\ work' = [v \in Workers |-> work'[v]]
      /\ work'[w] = job /\ \A v \in Workers : v # w => work'[v] = work[v]
  BY DEF WorkTyped, Start
<1>2. Busy' = Busy \cup {w}
  BY <1>1 DEF Busy
<1>3. \A v \in Busy : Pair(w, v) /\ Pair(v, w)
  BY FreeWorker DEF Start, Pair
<1>4. Paired'
  BY <1>2, <1>3 DEF Paired, Pair
<1> QED
  BY <1>1, <1>2, <1>4 DEF Start

\* The next step of a worker.
LEMMA Continues ==
  ASSUME WorkTyped, Paired, NEW w \in Workers, work[w] # Idle, NEW step, step # "idle",
         Continue(w, step)
  PROVE  /\ work' = [v \in Workers |-> work'[v]]
         /\ work'[w] = [work[w] EXCEPT !.step = step]
         /\ \A v \in Workers : v # w => work'[v] = work[v]
         /\ Busy' = Busy /\ Paired'
<1>1. /\ work' = [v \in Workers |-> work'[v]]
      /\ work'[w] = [work[w] EXCEPT !.step = step]
      /\ \A v \in Workers : v # w => work'[v] = work[v]
  BY DEF WorkTyped, Continue
<1>2. work'[w] # Idle
  <2>1. CASE w = "opening" /\ work[w] \in OpenJob
    BY <1>1, <2>1 DEF OpenJob, Idle
  <2>2. CASE w \in Closers /\ work[w] \in CloseJob
    BY <1>1, <2>2 DEF CloseJob, Idle
  <2>3. CASE w \in Settlers /\ work[w] \in SettleJob
    BY <1>1, <2>3 DEF SettleJob, Idle
  <2> QED
    BY <2>1, <2>2, <2>3 DEF WorkTyped
<1>3. Busy' = Busy
  BY <1>1, <1>2 DEF Busy
<1> QED
  BY <1>1, <1>3 DEF Paired

\* A worker is done.
LEMMA Finishes ==
  ASSUME WorkTyped, Paired, NEW w \in Workers, Finish(w)
  PROVE  /\ work' = [v \in Workers |-> work'[v]]
         /\ work'[w] = Idle /\ \A v \in Workers : v # w => work'[v] = work[v]
         /\ Busy' = Busy \ {w} /\ Paired' /\ WorkTyped'
<1>1. /\ work' = [v \in Workers |-> work'[v]]
      /\ work'[w] = Idle /\ \A v \in Workers : v # w => work'[v] = work[v]
  BY DEF WorkTyped, Finish
<1>2. Busy' = Busy \ {w}
  BY <1>1 DEF Busy
<1>3. Idle' = Idle /\ OpenJob' = OpenJob /\ CloseJob' = CloseJob /\ SettleJob' = SettleJob
  BY DEF Idle, OpenJob, CloseJob, SettleJob
<1> QED
  BY <1>1, <1>2, <1>3 DEF Paired, WorkTyped
-----------------------------------------------------------------------------
(* What is open. *)

LEMMA PosIs ==
  ASSUME PosTyped, pos.open
  PROVE  /\ pos \in AnyPosition /\ pos.order \in Rows /\ pos.since \in Nat /\ pos.since <= Len(fills)
         /\ pos.volume \in Nat \ {0} /\ pos.stop \in Nat /\ pos.order \in Nat
         /\ Tracked = pos.volume
<1>1. pos # None
  BY DEF None
<1> QED
  BY <1>1 DEF PosTyped, AnyPosition, Tracked

\* and of the copy the trading loop has.
LEMMA BotIs ==
  ASSUME BotTyped, bot.open
  PROVE  /\ bot \in AnyCopy /\ bot.order \in Rows /\ bot.volume \in Nat \ {0} /\ bot.order \in Nat
<1>1. bot # None
  BY DEF None
<1> QED
  BY <1>1 DEF BotTyped, AnyCopy

\* The tracked volume is a natural number.
LEMMA TrackedIsNat == ASSUME PosTyped PROVE Tracked \in Nat
BY PosIs DEF Tracked
-----------------------------------------------------------------------------
(* Stop orders. *)

LEMMA ImageIsFinite ==
  ASSUME NEW S, IsFiniteSet(S), NEW f PROVE IsFiniteSet({f[x] : x \in S})
<1> DEFINE P == {T \in SUBSET S : IsFiniteSet({f[x] : x \in T})}
<1>1. {} \in P
  <2>1. {f[x] : x \in {}} = {}
    OBVIOUS
  <2> QED
    BY <2>1, FS_EmptySet
<1>2. ASSUME NEW T \in SUBSET S, T # {}, \A x \in T : T \ {x} \in P PROVE T \in P
  <2>1. PICK x \in T : TRUE
    BY <1>2
  <2>2. IsFiniteSet({f[y] : y \in T \ {x}})
    BY <1>2
  <2>3. {f[y] : y \in T} = {f[y] : y \in T \ {x}} \cup {f[x]}
    OBVIOUS
  <2>4. IsFiniteSet({f[y] : y \in T \ {x}} \cup {f[x]})
    BY <2>2, FS_AddElement
  <2> QED
    BY <2>3, <2>4
<1> HIDE DEF P
<1>3. \A T \in SUBSET S : T \in P
  BY <1>1, <1>2, FiniteInduction
<1> QED
  BY <1>3 DEF P

\* A number too many for the set: one of them is not in it.
LEMMA SomeNumberIsFree ==
  ASSUME NEW K, IsFiniteSet(K)
  PROVE  /\ Min(1..(Cardinality(K) + 1) \ K) \in Nat \ {0}
         /\ Min(1..(Cardinality(K) + 1) \ K) \notin K
<1> DEFINE n == Cardinality(K) + 1
           S == 1..n \ K
<1>1. n \in Nat /\ Cardinality(K) \in Nat
  BY FS_CardinalityType
<1>2. S # {}
  <2> SUFFICES ASSUME S = {} PROVE FALSE
    OBVIOUS
  <2>1. 1..n \subseteq K
    OBVIOUS
  <2>2. Cardinality(1..n) <= Cardinality(K)
    BY <2>1, FS_Subset
  <2>3. Cardinality(1..n) = n
    BY <1>1, FS_Interval
  <2> QED
    BY <1>1, <2>2, <2>3
<1>3. S \in SUBSET Nat /\ S \subseteq Nat \ {0} /\ S \cap K = {}
  BY <1>1
<1> HIDE DEF n, S
<1>4. \E x \in S : \A y \in S : x <= y
  BY <1>2, <1>3, LeastOf
<1>5. Min(S) \in S
  BY <1>4 DEF Min
<1> QED
  BY <1>3, <1>5 DEF n, S

\* A stop order placed has a number no order, position or sale has.
LEMMA NewStopIsNew == ASSUME Typed PROVE NewStop \in Nat \ {0} /\ NewStop \notin KnownStops
<1> DEFINE A == {s.id : s \in stops}
           B == {fills[i].stop : i \in DOMAIN fills}
           C == IF pos.open THEN {pos.stop} ELSE {}
           some == {v \in Workers : work[v].step \in {"drop", "book"}}
           D == {work[w].stop : w \in some}
<1>1. IsFiniteSet(A)
  <2> DEFINE f == [s \in stops |-> s.id]
  <2>1. A = {f[s] : s \in stops}
    OBVIOUS
  <2> HIDE DEF f
  <2>2. IsFiniteSet({f[s] : s \in stops})
    BY ImageIsFinite DEF Typed, StopsTyped
  <2> QED
    BY <2>1, <2>2
<1>2. IsFiniteSet(B)
  <2> DEFINE f == [i \in DOMAIN fills |-> fills[i].stop]
  <2>1. B = {f[i] : i \in DOMAIN fills}
    OBVIOUS
  <2> HIDE DEF f
  <2>2. DOMAIN fills = 1..Len(fills) /\ Len(fills) \in Nat
    BY DEF Typed
  <2>3. IsFiniteSet(DOMAIN fills)
    BY <2>2, FS_Interval
  <2>4. IsFiniteSet({f[i] : i \in DOMAIN fills})
    BY <2>3, ImageIsFinite
  <2> QED
    BY <2>1, <2>4
<1>3. IsFiniteSet(C)
  BY FS_EmptySet, FS_Singleton
<1>4. IsFiniteSet(D)
  <2> DEFINE f == [w \in some |-> work[w].stop]
  <2>1. D = {f[w] : w \in some}
    OBVIOUS
  <2> HIDE DEF f
  <2>2. Workers = ((({} \cup {"opening"}) \cup {"loop"}) \cup {"channel"}) \cup {"request"} \cup {"watch"}
    BY DEF Workers
  <2>3. IsFiniteSet(Workers)
    BY <2>2, FS_EmptySet, FS_AddElement
  <2>4. IsFiniteSet(some)
    BY <2>3, FS_Subset
  <2>5. IsFiniteSet({f[w] : w \in some})
    BY <2>4, ImageIsFinite
  <2> QED
    BY <2>1, <2>5
<1>5. KnownStops = ((A \cup B) \cup C) \cup D
  BY DEF KnownStops
<1> HIDE DEF A, B, C, D
<1>6. IsFiniteSet(KnownStops)
  BY <1>1, <1>2, <1>3, <1>4, <1>5, FS_Union
<1> QED
  BY <1>6, SomeNumberIsFree DEF NewStop

\* A stop order nobody knows has sold nothing.
LEMMA NoSaleYet ==
  ASSUME Typed, NEW stop, stop = 0 \/ stop \notin KnownStops PROVE FillsOf(stop) = {}
BY DEF FillsOf, KnownStops

\* A stop order that is placed is for what is held, and no sale is by it.
LEMMA PlacedIs ==
  ASSUME Typed, NEW rest \in SUBSET stops, NEW p \in Placed(rest)
  PROVE  /\ IsFiniteSet(p.stops) /\ p.stops \subseteq StopOrder /\ p.stop \in Nat
         /\ FillsOf(p.stop) = {}
         /\ \A s \in p.stops : IF s.id = p.stop THEN s.volume = held ELSE s \in rest
<1>0. IsFiniteSet(rest) /\ rest \subseteq StopOrder /\ \A s \in rest : s.id \in KnownStops /\ s.id # 0
  BY FS_Subset DEF Typed, StopsTyped, StopOrder, KnownStops
<1>1. CASE p = [stop |-> 0, stops |-> rest]
  BY <1>0, <1>1, NoSaleYet
<1>2. CASE held # 0 /\ p = [stop |-> NewStop, stops |-> rest \cup {[id |-> NewStop, volume |-> held]}]
  <2> DEFINE new == [id |-> NewStop, volume |-> held]
  <2>1. NewStop \in Nat \ {0} /\ NewStop \notin KnownStops
    BY NewStopIsNew
  <2>2. held \in Nat \ {0}
    BY <1>2, RealAssumption DEF Typed
  <2>3. new \in StopOrder /\ new.id = NewStop /\ new.volume = held
    BY <2>1, <2>2 DEF StopOrder
  <2>4. p.stops = rest \cup {new} /\ p.stop = NewStop
    BY <1>2
  <2> HIDE DEF new
  <2>5. IsFiniteSet(p.stops)
    BY <1>0, <2>4, FS_AddElement
  <2>6. FillsOf(p.stop) = {}
    BY <2>1, <2>4, NoSaleYet
  <2> QED
    BY <1>0, <2>1, <2>3, <2>4, <2>5, <2>6
<1> QED
  BY <1>1, <1>2 DEF Placed

\* A stop order that is brought up to date is for the volume or what is held, or is the old one.
LEMMA SyncedIs ==
  ASSUME Typed, pos.open, NEW volume \in Nat \ {0}, NEW p \in Synced(pos.stop, volume)
  PROVE  /\ IsFiniteSet(p.stops) /\ p.stops \subseteq StopOrder /\ p.stop \in Nat
         /\ p.stop = pos.stop \/ FillsOf(p.stop) = {}
         /\ \A s \in p.stops :
              IF s.id = p.stop THEN \/ s.volume \in {volume, held}
                                    \/ p.stop = pos.stop /\ s \in stops
              ELSE s \in stops /\ s.id # pos.stop
<1>0. /\ IsFiniteSet(stops) /\ stops \subseteq StopOrder /\ pos.stop \in Nat
      /\ Without(pos.stop) \in SUBSET stops
  BY PosIs DEF Typed, StopsTyped, Without
<1>1. CASE p = [stop |-> pos.stop, stops |-> Without(pos.stop) \cup {[id |-> pos.stop, volume |-> volume]}]
            /\ \E s \in stops : s.id = pos.stop
  <2> DEFINE new == [id |-> pos.stop, volume |-> volume]
  <2>1. pos.stop \in Nat \ {0}
    BY <1>0, <1>1 DEF StopOrder
  <2>2. new \in StopOrder /\ new.id = pos.stop /\ new.volume = volume
    BY <2>1 DEF StopOrder
  <2>3. p.stops = Without(pos.stop) \cup {new} /\ p.stop = pos.stop
    BY <1>1
  <2> HIDE DEF new
  <2>4. IsFiniteSet(Without(pos.stop))
    BY <1>0, FS_Subset
  <2>5. IsFiniteSet(p.stops)
    BY <2>3, <2>4, FS_AddElement
  <2> QED
    BY <1>0, <2>1, <2>2, <2>3, <2>5 DEF Without
<1>2. CASE p = [stop |-> pos.stop, stops |-> stops]
  BY <1>0, <1>2
<1>3. CASE p \in Placed(Without(pos.stop))
  <2>1. /\ IsFiniteSet(p.stops) /\ p.stops \subseteq StopOrder /\ p.stop \in Nat
        /\ FillsOf(p.stop) = {}
        /\ \A s \in p.stops : IF s.id = p.stop THEN s.volume = held ELSE s \in Without(pos.stop)
    BY <1>0, <1>3, PlacedIs
  <2> QED
    BY <2>1 DEF Without
<1> QED
  BY <1>1, <1>2, <1>3 DEF Synced
-----------------------------------------------------------------------------
(* The ledger: rows, trades and sales. *)

LEMMA SameLedger ==
  ASSUME orders' = orders, trades' = trades, fills' = fills
  PROVE  /\ Last' = Last /\ Rows' = Rows /\ Owed' = Owed /\ Loose' = Loose
         /\ Unbooked' = Unbooked /\ OpenOrders' = OpenOrders
         /\ \A i : Remaining(i)' = Remaining(i)
         /\ \A i : FillsOf(i)' = FillsOf(i)
         /\ BookedOnce => BookedOnce'
BY DEF Last, Rows, Owed, Loose, Unbooked, OpenOrders, Remaining, Traded, TradesOf, VolumeOf,
       FillsOf, BookedOnce

\* What is known of a sequence,
LEMMA Elements ==
  ASSUME NEW S, NEW q \in Seq(S)
  PROVE  DOMAIN q = 1..Len(q) /\ Len(q) \in Nat /\ \A i \in DOMAIN q : q[i] \in S
OBVIOUS

\* and of one with an element more.
LEMMA Appended ==
  ASSUME NEW S, NEW q \in Seq(S), NEW x \in S, NEW r, r = Append(q, x)
  PROVE  /\ r \in Seq(S) /\ Len(r) = Len(q) + 1 /\ DOMAIN r = 1..(Len(q) + 1)
         /\ r[Len(q) + 1] = x /\ \A i \in 1..Len(q) : r[i] = q[i]
OBVIOUS

\* What is known of a row,
LEMMA RowIs ==
  ASSUME RowsTyped, NEW i \in Rows
  PROVE  /\ orders[i] \in Row /\ orders[i].volume \in Nat /\ orders[i].volume \in 1..Cap
         /\ orders[i].filled \in BOOLEAN /\ orders[i].at \in Nat /\ orders[i].at <= Len(fills)
<1>1. orders[i] \in Row
  BY Elements DEF RowsTyped, Rows
<1> QED
  BY <1>1, RealAssumption DEF Row, RowsTyped

\* of a trade,
LEMMA BookingIs ==
  ASSUME TradesTyped, NEW t \in DOMAIN trades
  PROVE  /\ trades[t] \in Booking /\ trades[t].volume \in Nat
         /\ trades[t].at \in Nat /\ trades[t].at <= Len(fills)
         /\ trades[t].order \in Rows /\ trades[t].fills \subseteq DOMAIN fills
<1>1. trades[t] \in Booking
  BY Elements DEF TradesTyped
<1> QED
  BY <1>1 DEF Booking, TradesTyped

\* and of a sale.
LEMMA SaleOf ==
  ASSUME Typed, NEW i \in DOMAIN fills
  PROVE  /\ fills[i].volume \in 1..Cap /\ fills[i].volume \in Nat /\ fills[i].stop \in Nat
         /\ i \in Nat /\ i <= Len(fills) /\ Len(fills) \in Nat
<1>1. fills[i] \in Sale /\ DOMAIN fills = 1..Len(fills) /\ Len(fills) \in Nat
  BY Elements DEF Typed
<1> QED
  BY <1>1, RealAssumption DEF Sale

\* Sales have volumes that can be summed;
LEMMA SalesAreMeasured ==
  ASSUME Typed
  PROVE  /\ \A S \in SUBSET DOMAIN fills : Measured(fills, S) /\ VolumeOf(S) \in Nat
         /\ Unbooked \in SUBSET DOMAIN fills /\ Loose \in Nat
<1>1. DOMAIN fills = 1..Len(fills) /\ Len(fills) \in Nat /\ \A i \in DOMAIN fills : fills[i].volume \in Nat
  <2>1. DOMAIN fills = 1..Len(fills) /\ Len(fills) \in Nat /\ \A i \in DOMAIN fills : fills[i] \in Sale
    BY Elements DEF Typed
  <2> QED
    BY <2>1, RealAssumption DEF Sale
<1>2. IsFiniteSet(DOMAIN fills)
  BY <1>1, FS_Interval
<1>3. \A S \in SUBSET DOMAIN fills : Measured(fills, S)
  BY <1>1, <1>2, FS_Subset DEF Measured
<1>4. \A S \in SUBSET DOMAIN fills : VolumeOf(S) \in Nat
  BY <1>3, TotalIsNat DEF VolumeOf
<1> QED
  BY <1>3, <1>4 DEF Unbooked, Loose

\* so have trades.
LEMMA TradesAreMeasured ==
  ASSUME TradesTyped
  PROVE  /\ \A S \in SUBSET DOMAIN trades : Measured(trades, S) /\ Total(trades, S) \in Nat
         /\ \A i : TradesOf(i) \in SUBSET DOMAIN trades /\ Traded(i) \in Nat
<1>1. DOMAIN trades = 1..Len(trades) /\ Len(trades) \in Nat
      /\ \A t \in DOMAIN trades : trades[t].volume \in Nat
  <2>1. DOMAIN trades = 1..Len(trades) /\ Len(trades) \in Nat
        /\ \A t \in DOMAIN trades : trades[t] \in Booking
    BY Elements DEF TradesTyped
  <2> QED
    BY <2>1 DEF Booking
<1>2. IsFiniteSet(DOMAIN trades)
  BY <1>1, FS_Interval
<1>3. \A S \in SUBSET DOMAIN trades : Measured(trades, S)
  BY <1>1, <1>2, FS_Subset DEF Measured
<1>4. \A S \in SUBSET DOMAIN trades : Total(trades, S) \in Nat
  BY <1>3, TotalIsNat
<1>5. \A i : TradesOf(i) \in SUBSET DOMAIN trades
  BY DEF TradesOf
<1> QED
  BY <1>3, <1>4, <1>5 DEF Traded

\* What a row has open is a natural number, its volume at most.
LEMMA RemainingIsNat ==
  ASSUME TradesTyped, RowsTyped
  PROVE  \A i \in Rows : Remaining(i) \in Nat /\ Remaining(i) <= orders[i].volume
<1> SUFFICES ASSUME NEW i \in Rows PROVE Remaining(i) \in Nat /\ Remaining(i) <= orders[i].volume
  OBVIOUS
<1>1. orders[i].volume \in Nat
  <2>1. orders[i] \in Row
    BY Elements DEF RowsTyped, Rows
  <2> QED
    BY <2>1, RealAssumption DEF Row
<1>2. Traded(i) \in Nat
  BY TradesAreMeasured
<1> QED
  BY <1>1, <1>2 DEF Remaining

\* The last row is a row.
LEMMA LastIsRow ==
  ASSUME RowsTyped
  PROVE  Last \in Nat /\ Rows = 1..Last /\ (Last # 0 => Last \in Rows) /\ (Rows # {} => Last \in Rows)
BY DEF RowsTyped, Last, Rows

\* What it has open is a natural number.
LEMMA OwedIsNat == ASSUME TradesTyped, RowsTyped PROVE Owed \in Nat
BY RemainingIsNat, LastIsRow DEF Owed

\* What restarts bring back is what the last row has open.
LEMMA DbVolumeIs ==
  ASSUME TradesTyped, RowsTyped, \A i \in Rows : i # Last => Remaining(i) = 0
  PROVE  /\ DbVolume = Owed
         /\ OpenOrders = IF Owed = 0 THEN {} ELSE {Last}
<1>1. OpenOrders = IF Owed = 0 THEN {} ELSE {Last}
  BY RemainingIsNat, LastIsRow DEF OpenOrders, Owed, Rows
<1>2. CASE Owed = 0
  <2> DEFINE f == [i \in {} |-> 0]
  <2>1. IsFiniteSet({}) /\ \A i \in {} : f[i] \in Int /\ f[i] = Remaining(i)
    BY FS_EmptySet
  <2> HIDE DEF f
  <2>2. MapThenSumSet(Remaining, {}) = SumOf(f, {})
    BY <2>1, OneTerm
  <2>3. OpenOrders = {}
    BY <1>1, <1>2
  <2>4. DbVolume = MapThenSumSet(Remaining, {})
    BY <2>3 DEF DbVolume
  <2> QED
    BY <1>1, <1>2, <2>2, <2>4, SumOfNothing
<1>3. CASE Owed # 0
  <2> DEFINE f == [i \in {Last} |-> Remaining(i)]
  <2>1. Last \in Rows /\ Owed = Remaining(Last)
    BY <1>3, LastIsRow DEF Owed
  <2>2. f[Last] = Owed /\ Owed \in Int
    BY <2>1, OwedIsNat
  <2>3. IsFiniteSet({Last}) /\ \A i \in {Last} : f[i] \in Int /\ f[i] = Remaining(i)
    BY <2>1, <2>2, FS_Singleton
  <2> HIDE DEF f
  <2>4. MapThenSumSet(Remaining, {Last}) = SumOf(f, {Last})
    BY <2>3, OneTerm
  <2>5. SumOf(f, {Last}) = f[Last] + SumOf(f, {Last} \ {Last})
    BY <2>3, SumWithout
  <2>6. {Last} \ {Last} = {}
    OBVIOUS
  <2>7. SumOf(f, {Last} \ {Last}) = 0
    BY <2>6, SumOfNothing
  <2>8. OpenOrders = {Last}
    BY <1>1, <1>3
  <2>9. DbVolume = MapThenSumSet(Remaining, {Last})
    BY <2>8 DEF DbVolume
  <2> QED
    BY <1>1, <1>3, <2>2, <2>4, <2>5, <2>7, <2>9
<1> QED
  BY <1>2, <1>3
-----------------------------------------------------------------------------
(* Sales and new rows. *)

\* What a sale does.
LEMMA SaleIs ==
  ASSUME Typed, NEW volume \in Nat \ {0}, NEW stop \in Nat, Sell(volume, stop),
         orders' = orders, trades' = trades
  PROVE  \E d \in 1..Cap :
           /\ held' \in 0..Cap /\ held = held' + d /\ d <= volume /\ (d = volume \/ held' = 0)
           /\ fills' \in Seq(Sale) /\ Len(fills') = Len(fills) + 1
           /\ DOMAIN fills' = DOMAIN fills \cup {Len(fills) + 1} /\ Len(fills) + 1 \notin DOMAIN fills
           /\ fills'[Len(fills) + 1] = [volume |-> d, stop |-> stop]
           /\ \A i \in DOMAIN fills : fills'[i] = fills[i]
           /\ Unbooked' = Unbooked \cup {Len(fills) + 1} /\ Loose' = Loose + d
           /\ RowsTyped' /\ TradesTyped'
           /\ Last' = Last /\ Rows' = Rows /\ Owed' = Owed /\ OpenOrders' = OpenOrders
           /\ \A i : Remaining(i)' = Remaining(i)
           /\ BookedOnce => BookedOnce'
<1> DEFINE d == Min({volume, held})
           n == Len(fills) + 1
<1>1. held \in 1..Cap /\ Cap \in Nat
  BY RealAssumption DEF Typed, Sell
<1>2. d \in {volume, held} /\ d <= volume /\ d <= held
  <2>1. \E x \in {volume, held} : \A y \in {volume, held} : x <= y
    BY <1>1
  <2> QED
    BY <2>1 DEF Min
<1>3. fills' = Append(fills, [volume |-> d, stop |-> stop]) /\ held' = held - d
  BY DEF Sell
<1> HIDE DEF d
<1>4. d \in 1..Cap /\ held' \in 0..Cap /\ held = held' + d /\ (d = volume \/ held' = 0)
  BY <1>1, <1>2, <1>3
<1>5. [volume |-> d, stop |-> stop] \in Sale
  BY <1>4 DEF Sale
<1>6. fills \in Seq(Sale)
  BY DEF Typed
<1>7. /\ fills' \in Seq(Sale) /\ Len(fills') = n /\ DOMAIN fills' = 1..n /\ DOMAIN fills = 1..Len(fills)
      /\ Len(fills) \in Nat
      /\ fills'[n] = [volume |-> d, stop |-> stop] /\ \A i \in 1..Len(fills) : fills'[i] = fills[i]
  BY <1>3, <1>5, <1>6
<1>8. DOMAIN fills' = DOMAIN fills \cup {n} /\ n \notin DOMAIN fills
  BY <1>7
<1>9. Unbooked' = Unbooked \cup {n}
  <2>1. \A t \in DOMAIN trades : n \notin trades[t].fills
    BY <1>8 DEF Typed, TradesTyped
  <2> QED
    BY <1>8, <2>1 DEF Unbooked
<1>10. Loose' = Loose + d
  <2>1. Measured(fills, Unbooked) /\ Unbooked \subseteq DOMAIN fills /\ Loose \in Nat
    BY SalesAreMeasured
  <2>2. \A i \in Unbooked : fills'[i] = fills[i]
    BY <1>7, <2>1
  <2>3. Total(fills', Unbooked) = Total(fills, Unbooked)
    BY <2>1, <2>2, TotalSame
  <2>4. Measured(fills', Unbooked) /\ fills'[n].volume = d /\ d \in Nat /\ n \notin Unbooked
    BY <1>4, <1>7, <1>8, <2>1, <2>2 DEF Measured
  <2>5. Total(fills', Unbooked \cup {n}) = d + Total(fills', Unbooked)
    BY <2>4, TotalWith
  <2>6. Loose' = Total(fills', Unbooked') /\ Loose = Total(fills, Unbooked)
    BY DEF Loose, VolumeOf
  <2> HIDE DEF n
  <2>7. Loose' = Total(fills', Unbooked \cup {n})
    BY <1>9, <2>6
  <2> QED
    BY <1>4, <2>1, <2>3, <2>5, <2>6, <2>7
<1>11. RowsTyped'
  <2>1. \A i \in Rows : orders[i].at \in Nat
    BY RowIs DEF Typed
  <2> QED
    BY <1>7, <2>1 DEF Typed, RowsTyped, Rows, Row
<1>12. TradesTyped'
  <2>1. \A t \in DOMAIN trades : trades[t].at \in Nat
    BY BookingIs DEF Typed
  <2>2. Booking' = Booking /\ Rows' = Rows
    BY DEF Booking, Rows
  <2> QED
    BY <1>7, <1>8, <2>1, <2>2 DEF Typed, TradesTyped
<1>13. /\ Last' = Last /\ Rows' = Rows /\ Owed' = Owed /\ OpenOrders' = OpenOrders
       /\ \A i : Remaining(i)' = Remaining(i)
       /\ BookedOnce => BookedOnce'
  BY DEF Last, Rows, Owed, OpenOrders, Remaining, Traded, TradesOf, BookedOnce
<1> HIDE DEF n
<1>14. /\ held' \in 0..Cap /\ held = held' + d /\ d <= volume /\ (d = volume \/ held' = 0)
       /\ fills' \in Seq(Sale) /\ Len(fills') = n
       /\ DOMAIN fills' = DOMAIN fills \cup {n} /\ n \notin DOMAIN fills
       /\ fills'[n] = [volume |-> d, stop |-> stop]
       /\ \A i \in DOMAIN fills : fills'[i] = fills[i]
  BY <1>2, <1>4, <1>7, <1>8
<1> QED
  BY <1>4, <1>9, <1>10, <1>11, <1>12, <1>13, <1>14, Zenon DEF n

Less(a, b) == IF a > b THEN a - b ELSE 0

\* What a trade does.
LEMMA TradeIs ==
  ASSUME Typed, NEW o \in Rows, NEW sales \in SUBSET Unbooked, NEW v \in Nat,
         trades' = Append(trades, NewTrade(o, sales, v)), fills' = fills, orders' = orders
  PROVE  /\ TradesTyped' /\ RowsTyped'
         /\ Unbooked' = Unbooked \ sales /\ Loose = Loose' + VolumeOf(sales) /\ Loose' \in Nat
         /\ BookedOnce => BookedOnce'
         /\ \A i \in Rows : Remaining(i)' = IF i = o THEN Less(Remaining(i), v) ELSE Remaining(i)
         /\ Last' = Last /\ Rows' = Rows
         /\ Len(trades') = Len(trades) + 1 /\ trades'[Len(trades) + 1] = NewTrade(o, sales, v)
         /\ DOMAIN trades' = DOMAIN trades \cup {Len(trades) + 1}
         /\ \A t \in DOMAIN trades : trades'[t] = trades[t]
<1> DEFINE n == Len(trades) + 1
           x == NewTrade(o, sales, v)
<1>1. /\ trades \in Seq(Booking) /\ TradesTyped /\ RowsTyped /\ fills \in Seq(Sale)
  BY DEF Typed, TradesTyped
<1>2. Unbooked \in SUBSET DOMAIN fills /\ DOMAIN fills = 1..Len(fills) /\ Len(fills) \in Nat
  BY <1>1, SalesAreMeasured
<1>3. /\ x.order = o /\ x.fills = sales /\ x.volume = v /\ x.at = Len(fills)
      /\ x \in [order : {o}, fills : {sales}, volume : {v}, at : {Len(fills)}]
  BY DEF NewTrade
<1>4. o \in Nat
  BY <1>1, LastIsRow
<1>5. sales \in SUBSET Nat
  BY <1>2
<1>6. x \in Booking
  BY <1>2, <1>4, <1>5 DEF Booking, NewTrade
<1>7. trades' = Append(trades, x)
  OBVIOUS
<1> HIDE DEF x
<1>8. /\ trades' \in Seq(Booking) /\ Len(trades') = n /\ DOMAIN trades' = 1..n
      /\ DOMAIN trades = 1..Len(trades) /\ Len(trades) \in Nat
      /\ trades'[n] = x /\ \A t \in 1..Len(trades) : trades'[t] = trades[t]
  BY <1>1, <1>6, <1>7
<1>9. DOMAIN trades' = DOMAIN trades \cup {n} /\ n \notin DOMAIN trades
  BY <1>8
<1>10. /\ \A t \in DOMAIN trades : trades'[t] = trades[t]
  BY <1>8
<1> HIDE DEF n
<1>11. Last' = Last /\ Rows' = Rows /\ RowsTyped'
  BY <1>1 DEF Last, Rows, RowsTyped, Row
<1>12. TradesTyped'
  <2>1. Booking' = Booking /\ DOMAIN fills' = DOMAIN fills /\ Len(fills') = Len(fills)
    BY DEF Booking
  <2>2. ASSUME NEW t \in DOMAIN trades'
        PROVE  /\ trades'[t].order \in Rows /\ trades'[t].fills \subseteq DOMAIN fills
               /\ trades'[t].at <= Len(fills)
    <3>1. CASE t = n
      BY <1>2, <1>3, <1>8, <3>1
    <3>2. CASE t \in DOMAIN trades
      BY <1>1, <1>10, <3>2 DEF TradesTyped
    <3> QED
      BY <1>9, <2>2, <3>1, <3>2
  <2> QED
    BY <1>8, <1>11, <2>1, <2>2 DEF TradesTyped
<1>13. Unbooked' = Unbooked \ sales
  <2>1. \A i \in DOMAIN fills : (\A t \in DOMAIN trades' : i \notin trades'[t].fills)
           <=> (\A t \in DOMAIN trades : i \notin trades[t].fills) /\ i \notin sales
    BY <1>3, <1>8, <1>9, <1>10
  <2> QED
    BY <2>1 DEF Unbooked
<1>14. Loose = Loose' + VolumeOf(sales) /\ Loose' \in Nat
  <2>1. Measured(fills, Unbooked)
    BY SalesAreMeasured
  <2>2. /\ Total(fills, Unbooked) = Total(fills, sales) + Total(fills, Unbooked \ sales)
        /\ Total(fills, sales) \in Nat /\ Total(fills, Unbooked \ sales) \in Nat
    BY <2>1, TotalSplit
  <2>3. Loose' = Total(fills, Unbooked \ sales)
    BY <1>13 DEF Loose, VolumeOf
  <2> QED
    BY <2>2, <2>3 DEF Loose, VolumeOf
<1>15. BookedOnce => BookedOnce'
  <2> SUFFICES ASSUME BookedOnce, NEW i \in DOMAIN trades', NEW j \in DOMAIN trades', i # j
               PROVE  trades'[i].fills \cap trades'[j].fills = {}
    BY DEF BookedOnce
  <2>1. \A t \in DOMAIN trades : trades[t].fills \cap sales = {}
    BY DEF Unbooked
  <2>2. CASE i = n
    BY <1>3, <1>8, <1>9, <1>10, <2>1, <2>2
  <2>3. CASE j = n
    BY <1>3, <1>8, <1>9, <1>10, <2>1, <2>3
  <2>4. CASE i \in DOMAIN trades /\ j \in DOMAIN trades
    BY <1>10, <2>4 DEF BookedOnce
  <2> QED
    BY <1>9, <2>2, <2>3, <2>4
<1>16. ASSUME NEW i \in Rows
       PROVE  Remaining(i)' = IF i = o THEN Less(Remaining(i), v) ELSE Remaining(i)
  <2> DEFINE T == TradesOf(i)
  <2>1. T \in SUBSET DOMAIN trades /\ Measured(trades, T) /\ Total(trades, T) \in Nat
    BY <1>1, TradesAreMeasured
  <2>2. \A t \in T : trades'[t] = trades[t]
    BY <1>10, <2>1
  <2>3. Total(trades', T) = Total(trades, T)
    BY <2>1, <2>2, TotalSame
  <2>4. TradesOf(i)' = {t \in DOMAIN trades' : trades'[t].order = i}
    BY DEF TradesOf
  <2>5. CASE i # o
    <3>1. TradesOf(i)' = T
      BY <1>3, <1>8, <1>9, <1>10, <2>4, <2>5 DEF TradesOf
    <3>2. Traded(i)' = Total(trades', TradesOf(i)') /\ Traded(i) = Total(trades, T)
      BY DEF Traded
    <3> HIDE DEF T
    <3>3. Traded(i)' = Traded(i)
      BY <2>3, <3>1, <3>2
    <3> QED
      BY <2>5, <3>3 DEF Remaining
  <2>6. CASE i = o
    <3>1. TradesOf(i)' = T \cup {n}
      BY <1>3, <1>8, <1>9, <1>10, <2>4, <2>6 DEF TradesOf
    <3>2. Measured(trades', T) /\ trades'[n].volume = v /\ n \notin T
      BY <1>3, <1>8, <1>9, <2>1, <2>2 DEF Measured
    <3>3. Traded(i)' = Total(trades', TradesOf(i)') /\ Traded(i) = Total(trades, T)
      BY DEF Traded
    <3> HIDE DEF T
    <3>4. Total(trades', T \cup {n}) = v + Total(trades', T)
      BY <3>2, TotalWith
    <3>5. Traded(i)' = v + Traded(i) /\ Traded(i) \in Nat
      BY <2>1, <2>3, <3>1, <3>3, <3>4
    <3>6. orders[i].volume \in Nat
      <4>1. orders[i] \in Row
        BY <1>1, Elements DEF RowsTyped, Rows
      <4> QED
        BY <4>1, RealAssumption DEF Row
    <3> QED
      BY <2>6, <3>5, <3>6 DEF Remaining, Less
  <2> QED
    BY <2>5, <2>6
<1> QED
  BY <1>8, <1>9, <1>10, <1>11, <1>12, <1>13, <1>14, <1>15, <1>16 DEF x, n

\* What a new row does, beside one that is rejected or none.
LEMMA RowMadeIs ==
  ASSUME Typed, NEW o, NEW v \in 1..Cap, NEW n, n = Last + 1,
         NEW base, base = (IF o \in Rows THEN Rejected(o) ELSE orders),
         orders' = Append(base, NewOrder(v)),
         fills' = fills, trades' = trades
  PROVE  /\ RowsTyped' /\ TradesTyped'
         /\ Last' = n /\ Rows' = Rows \cup {n} /\ n \notin Rows
         /\ Owed' = v /\ Remaining(n)' = v
         /\ \A i \in Rows : Remaining(i)' = IF i = o THEN 0 ELSE Remaining(i)
         /\ orders'[n].at = Len(fills)
         /\ Unbooked' = Unbooked /\ Loose' = Loose
         /\ BookedOnce => BookedOnce'
<1> DEFINE x == NewOrder(v)
<1>1. RowsTyped /\ TradesTyped /\ orders \in Seq(Row) /\ Len(fills) \in Nat
  BY DEF Typed, RowsTyped
<1>2. /\ base \in Seq(Row) /\ Len(base) = Last
      /\ \A i \in Rows : /\ base[i].at = orders[i].at /\ base[i].volume = orders[i].volume
                         /\ base[i].filled = IF i = o THEN FALSE ELSE orders[i].filled
  <2>1. CASE o \in Rows
    <3> DEFINE y == [orders[o] EXCEPT !.filled = FALSE]
    <3>1. orders[o] \in Row
      BY <1>1, <2>1, RowIs
    <3>2. y \in Row /\ y.at = orders[o].at /\ y.volume = orders[o].volume /\ y.filled = FALSE
      BY <3>1 DEF Row
    <3>3. base = [orders EXCEPT ![o] = y]
      BY <2>1 DEF Rejected
    <3> HIDE DEF y
    <3>4. base \in Seq(Row) /\ Len(base) = Len(orders)
      BY <1>1, <2>1, <3>2, <3>3 DEF Rows
    <3>5. \A i \in Rows : base[i] = IF i = o THEN y ELSE orders[i]
      BY <1>1, <2>1, <3>3 DEF Rows
    <3> QED
      BY <3>2, <3>4, <3>5 DEF Last
  <2>2. CASE o \notin Rows
    BY <1>1, <2>2 DEF Last
  <2> QED
    BY <2>1, <2>2
<1>3. x \in Row /\ x.volume = v /\ x.filled = TRUE /\ x.at = Len(fills)
  BY <1>1 DEF NewOrder, Row
<1>4. orders' = Append(base, x)
  OBVIOUS
<1> HIDE DEF x
<1>5. /\ orders' \in Seq(Row) /\ Len(orders') = n /\ DOMAIN orders' = 1..n /\ Rows = 1..Last
      /\ Last \in Nat /\ orders'[n] = x /\ \A i \in 1..Last : orders'[i] = base[i]
  <2>1. Rows = 1..Last /\ Last \in Nat
    BY <1>1, LastIsRow
  <2>2. /\ orders' \in Seq(Row) /\ Len(orders') = Len(base) + 1
        /\ DOMAIN orders' = 1..(Len(base) + 1) /\ orders'[Len(base) + 1] = x
        /\ \A i \in 1..Len(base) : orders'[i] = base[i]
    <3>1. base \in Seq(Row) /\ x \in Row
      BY <1>2, <1>3
    <3> QED
      BY <1>4, <3>1, Appended
  <2> QED
    BY <1>2, <2>1, <2>2
<1>6. Last' = n /\ Rows' = Rows \cup {n} /\ n \notin Rows /\ n # 0
  BY <1>5 DEF Last, Rows
<1>7. \A i \in Rows : orders'[i].at = orders[i].at /\ orders'[i].volume = orders[i].volume
                      /\ orders'[i].filled = IF i = o THEN FALSE ELSE orders[i].filled
  BY <1>2, <1>5, ZenonT(60)
<1>8. RowsTyped'
  <2>1. \A i \in Rows' : orders'[i].at <= Len(fills)
    <3>1. \A i \in Rows : orders'[i].at <= Len(fills)
      BY <1>1, <1>7, RowIs
    <3>2. orders'[n].at <= Len(fills)
      BY <1>1, <1>3, <1>5
    <3> QED
      BY <1>6, <3>1, <3>2
  <2>2. Row' = Row /\ Rows' = DOMAIN orders'
    BY DEF Row, Rows
  <2> QED
    BY <1>5, <2>1, <2>2 DEF RowsTyped
<1>9. TradesTyped'
  <2>1. Booking' = Booking /\ Rows \subseteq Rows'
    BY <1>6 DEF Booking
  <2> QED
    BY <1>1, <2>1 DEF TradesTyped
<1>10. \A i : Traded(i)' = Traded(i)
  BY DEF Traded, TradesOf
<1>11. \A i \in Rows : Remaining(i)' = IF i = o THEN 0 ELSE Remaining(i)
  BY <1>7, <1>10 DEF Remaining
<1>12. Remaining(n)' = v
  <2>1. TradesOf(n) = {}
    BY <1>6, BookingIs, <1>1 DEF TradesOf
  <2>2. Traded(n) = 0
    BY <2>1, TotalOfNothing DEF Traded
  <2>3. v \in Nat /\ v > 0
    BY RealAssumption
  <2> QED
    BY <1>3, <1>5, <1>10, <2>2, <2>3 DEF Remaining
<1>13. Owed' = v
  BY <1>6, <1>12 DEF Owed
<1>14. Unbooked' = Unbooked /\ Loose' = Loose /\ (BookedOnce => BookedOnce')
  BY DEF Unbooked, Loose, VolumeOf, BookedOnce
<1>15. orders'[n].at = Len(fills)
  BY <1>3, <1>5
<1> QED
  BY <1>6, <1>8, <1>9, <1>11, <1>12, <1>13, <1>14, <1>15

\* What a row that is rejected does.
LEMMA RowRejectedIs ==
  ASSUME Typed, NEW o \in Rows, orders' = Rejected(o), fills' = fills, trades' = trades
  PROVE  /\ RowsTyped' /\ TradesTyped' /\ Last' = Last /\ Rows' = Rows
         /\ \A i \in Rows : Remaining(i)' = IF i = o THEN 0 ELSE Remaining(i)
         /\ \A i \in Rows : orders'[i].at = orders[i].at
         /\ Unbooked' = Unbooked /\ Loose' = Loose
         /\ BookedOnce => BookedOnce'
<1> DEFINE y == [orders[o] EXCEPT !.filled = FALSE]
<1>1. RowsTyped /\ TradesTyped /\ orders \in Seq(Row) /\ orders[o] \in Row
  BY RowIs DEF Typed, RowsTyped
<1>2. y \in Row /\ y.at = orders[o].at /\ y.volume = orders[o].volume /\ y.filled = FALSE
  BY <1>1 DEF Row
<1>3. orders' = [orders EXCEPT ![o] = y]
  BY DEF Rejected
<1> HIDE DEF y
<1>4. orders' \in Seq(Row) /\ Len(orders') = Len(orders) /\ DOMAIN orders' = DOMAIN orders
  BY <1>1, <1>2, <1>3 DEF Rows
<1>5. \A i \in Rows : orders'[i] = IF i = o THEN y ELSE orders[i]
  BY <1>1, <1>3 DEF Rows
<1>6. \A i \in Rows : orders'[i].at = orders[i].at /\ orders'[i].volume = orders[i].volume
                      /\ orders'[i].filled = IF i = o THEN FALSE ELSE orders[i].filled
  BY <1>2, <1>5, ZenonT(60)
<1>7. Last' = Last /\ Rows' = Rows
  BY <1>4 DEF Last, Rows
<1>8. RowsTyped'
  BY <1>1, <1>4, <1>6, <1>7 DEF RowsTyped, Row
<1>9. TradesTyped'
  BY <1>1, <1>7 DEF TradesTyped, Booking
<1>10. \A i : Traded(i)' = Traded(i)
  BY DEF Traded, TradesOf
<1>11. \A i \in Rows : Remaining(i)' = IF i = o THEN 0 ELSE Remaining(i)
  BY <1>6, <1>10 DEF Remaining
<1>12. Unbooked' = Unbooked /\ Loose' = Loose /\ (BookedOnce => BookedOnce')
  BY DEF Unbooked, Loose, VolumeOf, BookedOnce
<1> QED
  BY <1>6, <1>7, <1>8, <1>9, <1>11, <1>12
-----------------------------------------------------------------------------
(* Who is at work. *)

\* A worker at rest relies on nothing,
LEMMA IdleIs ==
  ASSUME NEW w, work[w] = Idle
  PROVE  ~Selling(w) /\ ~Settling(w) /\ CloserInv(w) /\ SettlerInv(w) /\ work[w].step = "idle"
BY DEF Idle, Selling, Settling, CloserInv, SettlerInv

\* nor does one that comes to rest.
LEMMA IdleThen ==
  ASSUME NEW w, work'[w] = Idle
  PROVE  CloserInv(w)' /\ SettlerInv(w)' /\ work'[w].step = "idle"
BY DEF Idle, Selling, Settling, CloserInv, SettlerInv

\* Who is at work beside whom.
LEMMA Peers ==
  ASSUME Paired, NEW w \in Busy
  PROVE  /\ w \in {"loop", "opening"} => \A v \in Workers : v # w => work[v] = Idle
         /\ w = "watch" => work["loop"] = Idle /\ work["opening"] = Idle
         /\ w \in {"channel", "request"} => \A v \in Workers : v # w /\ v # "watch" => work[v] = Idle
<1>1. \A v \in Workers : v # w /\ work[v] # Idle => Pair(v, w)
  BY DEF Paired, Busy
<1> QED
  BY <1>1 DEF Pair, Workers

\* Closers and settlers are workers.
LEMMA Somebody ==
  /\ Closers \subseteq Workers /\ Settlers \subseteq Workers /\ "opening" \in Workers
  /\ "opening" \notin Closers /\ "opening" \notin Settlers /\ "watch" \notin Closers
  /\ Workers = {"opening", "loop", "channel", "request", "watch"}
  /\ Closers = {"loop", "channel", "request"} /\ Settlers = {"loop", "watch"}
BY DEF Closers, Settlers, Workers

\* One worker changes, to a state it may have.
LEMMA WorkChanges ==
  ASSUME WorkTyped, NEW w \in Workers,
         work' = [v \in Workers |-> work'[v]], \A v \in Workers : v # w => work'[v] = work[v],
         \/ work'[w] = Idle
         \/ w = "opening" /\ work'[w] \in OpenJob
         \/ w \in Closers /\ work'[w] \in CloseJob
         \/ w \in Settlers /\ work'[w] \in SettleJob
  PROVE  WorkTyped'
<1>1. Idle' = Idle /\ OpenJob' = OpenJob /\ CloseJob' = CloseJob /\ SettleJob' = SettleJob
  BY DEF Idle, OpenJob, CloseJob, SettleJob
<1>2. Closers' = Closers /\ Settlers' = Settlers /\ Workers' = Workers
  BY DEF Closers, Settlers, Workers
<1>3. ASSUME NEW v \in Workers
      PROVE  \/ work'[v] = Idle
             \/ v = "opening" /\ work'[v] \in OpenJob
             \/ v \in Closers /\ work'[v] \in CloseJob
             \/ v \in Settlers /\ work'[v] \in SettleJob
  <2>1. CASE v = w
    BY <2>1
  <2>2. CASE v # w
    BY <2>2 DEF WorkTyped
  <2> QED
    BY <2>1, <2>2
<1> QED
  BY <1>1, <1>2, <1>3 DEF WorkTyped

\* What the others rely on.
LEMMA CloserStays ==
  ASSUME NEW v \in Closers, CloserInv(v), work'[v] = work[v], Last' = Last, stops' \subseteq stops,
         pos' = pos \/ (~pos'.open /\ v # "loop"), v = "loop" => bot' = bot,
         \A i \in Unbooked : fills[i].stop = 0 => i \in Unbooked' /\ fills'[i] = fills[i]
  PROVE  CloserInv(v)'
<1> SUFFICES ASSUME Selling(v)' PROVE CloserInv(v)'
  BY DEF CloserInv
<1>1. Selling(v)
  BY DEF Selling
<1>2. pos' = pos => Tracked' = Tracked
  BY DEF Tracked
<1> QED
  BY <1>1, <1>2 DEF CloserInv, Selling

\* A settler keeps what it relies on as long as its sales stay unbooked and no position is opened.
LEMMA SettlerStays ==
  ASSUME NEW v \in Settlers, SettlerInv(v), work'[v] = work[v], Last' = Last,
         pos'.open => pos.open, Owed <= Loose => Owed' <= Loose',
         \A i \in Unbooked : v = "loop" \/ fills[i].stop # 0 => i \in Unbooked' /\ fills'[i] = fills[i]
  PROVE  SettlerInv(v)'
<1> SUFFICES ASSUME Settling(v)' PROVE SettlerInv(v)'
  BY DEF SettlerInv
<1>1. Settling(v)
  BY DEF Settling
<1>2. v \in {"loop", "watch"}
  BY Somebody
<1>3. /\ work[v].order = Last /\ Last # 0 /\ work[v].fills \subseteq Unbooked
      /\ v = "watch" => \A i \in work[v].fills : fills[i].stop # 0
      /\ work[v].step = "book" => ~pos.open
      /\ Owed <= Loose
  BY <1>1 DEF SettlerInv
<1>4. \A i \in work[v].fills : i \in Unbooked' /\ fills'[i] = fills[i]
  BY <1>2, <1>3
<1> QED
  BY <1>3, <1>4 DEF SettlerInv

\* An opening keeps what it relies on as long as nothing is booked and nothing is lost unsold.
LEMMA OpeningStays ==
  ASSUME OpeningInv, work'["opening"] = work["opening"], OpenOrders' = OpenOrders, pos' = pos,
         \A b : b <= held + Loose => b <= held' + Loose'
  PROVE  OpeningInv'
BY DEF OpeningInv, Idle

\* An opening that is over relies on nothing.
LEMMA OpeningOver == ASSUME work'["opening"] = Idle PROVE OpeningInv'
BY DEF OpeningInv, Idle

\* What a sale leaves alone.
Sold(volume, stop) ==
  /\ RowsInv' /\ PositionInv' /\ HeldInv'
  /\ StopsTyped' /\ RowsTyped' /\ TradesTyped' /\ PosTyped'
  /\ held' \in 0..Cap /\ fills' \in Seq(Sale) /\ held + Loose = held' + Loose'
  /\ Last' = Last /\ Rows' = Rows /\ OpenOrders' = OpenOrders /\ Owed' = Owed /\ Loose <= Loose'
  /\ Loose \in Nat /\ Loose' \in Nat /\ Owed \in Nat /\ Tracked' = Tracked
  /\ \A i \in Unbooked : i \in Unbooked' /\ fills'[i] = fills[i]
  /\ \A i \in DOMAIN fills : fills'[i] = fills[i] /\ i \in DOMAIN fills'
  /\ \E n : /\ n = Len(fills) + 1 /\ n \in DOMAIN fills' /\ n \in Unbooked' /\ n \in Nat
            /\ fills'[n].stop = stop /\ fills'[n].volume <= volume
            /\ DOMAIN fills' = DOMAIN fills \cup {n}

\* A sale keeps the invariant's parts, as long as a stop order that sells is large enough.
LEMMA SaleKeeps ==
  ASSUME LedgerInv, NEW volume \in Nat \ {0}, NEW stop \in Nat, Sell(volume, stop),
         orders' = orders, trades' = trades, pos' = pos, stops' \subseteq stops,
         pos.open => bot' = bot,
         pos.open /\ stop # 0 /\ stop = pos.stop => Owed <= volume + Loose
  PROVE  Sold(volume, stop)
<1> DEFINE n == Len(fills) + 1
<1>1. PICK d \in 1..Cap :
           /\ held' \in 0..Cap /\ held = held' + d /\ d <= volume /\ (d = volume \/ held' = 0)
           /\ fills' \in Seq(Sale) /\ Len(fills') = n
           /\ DOMAIN fills' = DOMAIN fills \cup {n} /\ n \notin DOMAIN fills
           /\ fills'[n] = [volume |-> d, stop |-> stop]
           /\ \A i \in DOMAIN fills : fills'[i] = fills[i]
           /\ Unbooked' = Unbooked \cup {n} /\ Loose' = Loose + d
           /\ RowsTyped' /\ TradesTyped'
           /\ Last' = Last /\ Rows' = Rows /\ Owed' = Owed /\ OpenOrders' = OpenOrders
           /\ \A i : Remaining(i)' = Remaining(i)
           /\ BookedOnce => BookedOnce'
  BY SaleIs DEF LedgerInv
<1>2. /\ Typed /\ RowsInv /\ PositionInv /\ HeldInv /\ StopsTyped /\ PosTyped /\ TradesTyped
      /\ RowsTyped /\ held \in Nat /\ Len(fills) \in Nat
  BY RealAssumption DEF LedgerInv, Typed
<1>3. Unbooked \subseteq DOMAIN fills /\ Loose \in Nat /\ d \in Nat /\ held' \in Nat /\ Owed \in Nat
  BY <1>1, <1>2, SalesAreMeasured, OwedIsNat, RealAssumption
<1>4. n \in Nat /\ n \in DOMAIN fills' /\ n \in Unbooked' /\ fills'[n].volume = d /\ fills'[n].stop = stop
  BY <1>1, <1>2
<1>5. Len(fills) <= Len(fills')
  BY <1>1, <1>2
<1> HIDE DEF n
<1>6. RowsInv'
  BY <1>1, <1>2 DEF RowsInv
<1>5a. held = held' + d /\ Loose' = Loose + d /\ Owed' = Owed /\ Len(fills') = Len(fills) + 1
  BY <1>1 DEF n
<1>5b. held \in Nat /\ held' \in Nat /\ d \in Nat /\ Loose \in Nat /\ Owed \in Nat /\ Len(fills) \in Nat
  BY <1>2, <1>3
<1>5c. held + Loose = held' + Loose' /\ Loose <= Loose' /\ Loose' \in Nat
  <2>1. Loose' \in Nat /\ Loose <= Loose'
    BY <1>5a, <1>5b
  <2> QED
    BY <1>5a, <1>5b, <2>1
<1>7. HeldInv'
  BY <1>2, <1>5a, <1>5c DEF HeldInv
<1>8. PosTyped'
  <2>1. CASE pos = None
    BY <2>1 DEF PosTyped, None
  <2>2. CASE pos \in AnyPosition /\ pos.order \in Rows /\ pos.since <= Len(fills)
    <3>1. pos.since \in Nat
      BY <2>2 DEF AnyPosition
    <3>2. pos.since <= Len(fills')
      BY <1>5a, <1>5b, <2>2, <3>1
    <3>3. pos.order \in Rows'
      BY <1>1, <2>2
    <3> QED
      BY <2>2, <3>2, <3>3 DEF PosTyped, AnyPosition
  <2> QED
    BY <1>2, <2>1, <2>2 DEF PosTyped
<1>9. StopsTyped'
  <2>1. IsFiniteSet(stops')
    BY <1>2, FS_Subset DEF StopsTyped
  <2> QED
    BY <1>2, <2>1 DEF StopsTyped, StopOrder
<1>10. PositionInv'
  <2> SUFFICES ASSUME pos.open PROVE PositionInv'
    BY DEF PositionInv
  <2>1. /\ pos.order = Last /\ pos.since = orders[Last].at
        /\ bot.open => bot.order = Last
        /\ FillsOf(pos.stop) \subseteq Unbooked
        /\ FillsOf(pos.stop) # {} => Owed <= Loose
        /\ \A s \in stops : s.id = pos.stop => Owed <= s.volume + Loose
    BY <1>2 DEF PositionInv
  <2>2. FillsOf(pos.stop)' \subseteq FillsOf(pos.stop) \cup {n}
    BY <1>1, <1>4 DEF FillsOf
  <2>3. n \in FillsOf(pos.stop)' => stop # 0 /\ stop = pos.stop
    BY <1>4 DEF FillsOf
  <2>4. n \in FillsOf(pos.stop)' => Owed' <= Loose'
    <3>1. CASE d = volume
      BY <1>1, <1>3, <2>3, <3>1
    <3>2. CASE held' = 0
      BY <1>1, <1>2, <1>3, <3>2 DEF HeldInv
    <3> QED
      BY <1>1, <3>1, <3>2
  <2>5. FillsOf(pos.stop)' # {} => Owed' <= Loose'
    BY <1>1, <1>3, <2>1, <2>2, <2>4
  <2>6. FillsOf(pos.stop)' \subseteq Unbooked'
    BY <1>1, <2>1, <2>2
  <2>7. \A s \in stops' : s.id = pos.stop => Owed' <= s.volume + Loose'
    <3>1. \A s \in stops : s.volume \in Nat
      BY <1>2 DEF StopsTyped, StopOrder
    <3> QED
      BY <1>1, <1>3, <2>1, <3>1
  <2> QED
    BY <1>1, <2>1, <2>5, <2>6, <2>7 DEF PositionInv
<1>11. Tracked' = Tracked
  BY DEF Tracked
<1>12. /\ held' \in 0..Cap /\ fills' \in Seq(Sale) /\ held + Loose = held' + Loose'
       /\ Last' = Last /\ Rows' = Rows /\ OpenOrders' = OpenOrders /\ Owed' = Owed /\ Loose <= Loose'
       /\ Loose \in Nat /\ Loose' \in Nat /\ Owed \in Nat
  <2>1. /\ held' \in 0..Cap /\ fills' \in Seq(Sale)
        /\ Last' = Last /\ Rows' = Rows /\ OpenOrders' = OpenOrders
    BY <1>1
  <2> QED
    BY <1>5a, <1>5b, <1>5c, <2>1
<1>13. /\ \A i \in Unbooked : i \in Unbooked' /\ fills'[i] = fills[i]
       /\ \A i \in DOMAIN fills : fills'[i] = fills[i] /\ i \in DOMAIN fills'
  BY <1>1, <1>3
<1>14. fills'[n].stop = stop /\ fills'[n].volume <= volume
  BY <1>1, <1>4
<1> QED
  BY <1>1, <1>4, <1>6, <1>7, <1>8, <1>9, <1>10, <1>11, <1>12, <1>13, <1>14 DEF n, Sold

\* The others do not mind a sale.
LEMMA SoldKeeps ==
  ASSUME LedgerInv, NEW volume, NEW stop, Sold(volume, stop), pos' = pos, stops' \subseteq stops,
         NEW v \in Workers, work'[v] = work[v], v = "loop" => bot' = bot
  PROVE  /\ v \in Closers => CloserInv(v)'
         /\ v \in Settlers => SettlerInv(v)'
         /\ v = "opening" => OpeningInv'
<1>1. /\ Last' = Last /\ OpenOrders' = OpenOrders /\ Owed' = Owed /\ Loose <= Loose'
      /\ Loose \in Nat /\ Loose' \in Nat /\ Owed \in Nat /\ held + Loose = held' + Loose'
      /\ \A i \in Unbooked : i \in Unbooked' /\ fills'[i] = fills[i]
  BY DEF Sold
<1>2. v \in Closers => CloserInv(v)'
  BY <1>1, CloserStays DEF LedgerInv
<1>3. v \in Settlers => SettlerInv(v)'
  <2>1. Owed <= Loose => Owed' <= Loose'
    BY <1>1
  <2> QED
    BY <1>1, <2>1, SettlerStays DEF LedgerInv
<1>4. v = "opening" => OpeningInv'
  <2>1. \A b : b <= held + Loose => b <= held' + Loose'
    BY <1>1
  <2> QED
    BY <1>1, <2>1, OpeningStays DEF LedgerInv
<1> QED
  BY <1>2, <1>3, <1>4

\* What is accounted for stays so when more is tracked or sold.
LEMMA AccountedStays ==
  ASSUME Accounted, Owed' = Owed, Loose <= Loose', Tracked <= Tracked',
         Owed \in Nat, Loose \in Nat, Loose' \in Nat, Tracked \in Nat, Tracked' \in Nat, WorkTyped,
         \A w \in Recording : work'[w] = work[w]
  PROVE  Accounted'
<1>1. CASE Owed <= Loose
  BY <1>1 DEF Accounted
<1>2. CASE Owed <= Tracked
  BY <1>2 DEF Accounted
<1>3. ASSUME NEW w \in Recording, Owed <= Tracked + work[w].volume PROVE Accounted'
  <2>1. work[w].volume \in Nat
    BY JobSteps, Somebody DEF Recording, Selling, CloseJob
  <2>2. w \in Recording'
    BY <1>3 DEF Recording, Closers
  <2>3. Owed' <= Tracked' + work'[w].volume
    BY <1>3, <2>1
  <2> QED
    BY <2>2, <2>3 DEF Accounted
<1> QED
  BY <1>1, <1>2, <1>3 DEF Accounted
-----------------------------------------------------------------------------
(* Steps of the exchange and the owner of the account. *)

\* The workers stay what they are.
LEMMA WorkStays == ASSUME WorkTyped, Paired, work' = work PROVE WorkTyped' /\ Paired' /\ Busy' = Busy
<1>1. WorkTyped'
  BY DEF WorkTyped, Idle, OpenJob, CloseJob, SettleJob, Closers, Settlers, Workers
<1> QED
  BY <1>1 DEF Paired, Busy, Idle

\* The copy of the trading loop stays or goes.
LEMMA BotStays == ASSUME BotTyped, Rows' = Rows, bot' = bot \/ bot' = None PROVE BotTyped'
BY DEF BotTyped, None, AnyCopy

\* Stop orders have numbers and volumes.
LEMMA StopsAre == ASSUME LedgerInv, NEW s \in stops PROVE s.id \in Nat \ {0} /\ s.volume \in Nat \ {0}
BY DEF LedgerInv, Typed, StopsTyped, StopOrder

\* A sale more: what watch_orders has to tell is still of sales there were.
LEMMA EventsStay ==
  ASSUME LedgerInv, NEW volume, NEW stop, Sold(volume, stop), events' = events
  PROVE  events' \subseteq {fills'[i].stop : i \in DOMAIN fills'} \ {0}
BY DEF LedgerInv, Typed, Sold

\* The exchange.
LEMMA StopExecutedKeeps == ASSUME LedgerInv, StopExecuted PROVE LedgerInv'
<1>1. PICK s \in stops : /\ Sell(s.volume, s.id) /\ stops' = stops \ {s} /\ events' = events \cup {s.id}
                         /\ UNCHANGED <<wrong, db, memory, work>>
  BY DEF StopExecuted
<1>2. /\ orders' = orders /\ trades' = trades /\ pos' = pos /\ bot' = bot /\ work' = work
      /\ wrong' = wrong /\ stops' \subseteq stops
  BY <1>1 DEF db, memory
<1>3. s.id \in Nat \ {0} /\ s.volume \in Nat \ {0}
  BY StopsAre
<1>4. pos.open /\ s.id = pos.stop => Owed <= s.volume + Loose
  BY DEF LedgerInv, PositionInv
<1>5. Sold(s.volume, s.id)
  BY <1>1, <1>2, <1>3, <1>4, SaleKeeps
<1>6. events' \subseteq {fills'[i].stop : i \in DOMAIN fills'} \ {0}
  <2>1. \A e \in events : e \in {fills[i].stop : i \in DOMAIN fills} \ {0}
    BY DEF LedgerInv, Typed
  <2> QED
    BY <1>1, <1>3, <1>5, <2>1 DEF Sold
<1>7. WorkTyped' /\ Paired' /\ BotTyped'
  BY <1>2, <1>5, WorkStays, BotStays DEF LedgerInv, Typed, Sold
<1>8. Typed'
  BY <1>2, <1>5, <1>6, <1>7 DEF Typed, LedgerInv, Sold
<1>9. \A v \in Workers : (v \in Closers => CloserInv(v)') /\ (v \in Settlers => SettlerInv(v)')
                         /\ (v = "opening" => OpeningInv')
  BY <1>2, <1>5, SoldKeeps
<1>10. Accounted'
  BY <1>2, <1>5, AccountedStays, TrackedIsNat DEF LedgerInv, Typed, Sold
<1>11. RowsInv' /\ PositionInv' /\ HeldInv'
  BY <1>5 DEF Sold
<1> QED
  BY <1>7, <1>8, <1>9, <1>10, <1>11, Somebody DEF LedgerInv

\* The owner of the account sells.
LEMMA OwnerSellsKeeps == ASSUME LedgerInv, OwnerSells PROVE LedgerInv'
<1>1. Sell(held, 0) /\ UNCHANGED <<stops, wrong, db, memory, work, events>>
  BY DEF OwnerSells
<1>2. /\ orders' = orders /\ trades' = trades /\ pos' = pos /\ bot' = bot /\ work' = work
      /\ wrong' = wrong /\ stops' \subseteq stops /\ events' = events
  BY <1>1 DEF db, memory
<1>3. held \in Nat \ {0}
  BY <1>1, RealAssumption DEF LedgerInv, Typed, Sell
<1>5. Sold(held, 0)
  BY <1>1, <1>2, <1>3, SaleKeeps
<1>6. events' \subseteq {fills'[i].stop : i \in DOMAIN fills'} \ {0}
  BY <1>2, <1>5, EventsStay
<1>7. WorkTyped' /\ Paired' /\ BotTyped'
  BY <1>2, <1>5, WorkStays, BotStays DEF LedgerInv, Typed, Sold
<1>8. Typed'
  BY <1>2, <1>5, <1>6, <1>7 DEF Typed, LedgerInv, Sold
<1>9. \A v \in Workers : (v \in Closers => CloserInv(v)') /\ (v \in Settlers => SettlerInv(v)')
                         /\ (v = "opening" => OpeningInv')
  BY <1>2, <1>5, SoldKeeps
<1>10. Accounted'
  BY <1>2, <1>5, AccountedStays, TrackedIsNat DEF LedgerInv, Typed, Sold
<1>11. RowsInv' /\ PositionInv' /\ HeldInv'
  BY <1>5 DEF Sold
<1> QED
  BY <1>7, <1>8, <1>9, <1>10, <1>11, Somebody DEF LedgerInv

\* A closing that fails or sells.
LEMMA CloseSellsKeeps ==
  ASSUME LedgerInv, NEW w \in Closers, CloseSells(w) PROVE LedgerInv'
<1> DEFINE n == Len(fills) + 1
<1>1. /\ work[w].step = "sell" /\ Sell(work[w].volume, 0)
      /\ work' = [work EXCEPT ![w].step = "forget", ![w].fill = n]
      /\ UNCHANGED <<stops, wrong, db, memory, events>>
  BY DEF CloseSells
<1>2. /\ orders' = orders /\ trades' = trades /\ pos' = pos /\ bot' = bot
      /\ wrong' = wrong /\ stops' \subseteq stops /\ events' = events /\ stops' = stops
  BY <1>1 DEF db, memory
<1>3. WorkTyped /\ Paired /\ w \in Workers /\ CloserInv(w)
  BY Somebody DEF LedgerInv, Typed
<1>4. work[w] \in CloseJob /\ w \in Busy /\ Selling(w)
  <2>1. Selling(w) /\ work[w].step # "idle"
    BY <1>1 DEF Selling
  <2> QED
    BY <1>3, <2>1, JobSteps DEF Busy
<1>5. work[w].volume \in Nat \ {0}
  BY <1>4 DEF CloseJob
<1>6. Sold(work[w].volume, 0)
  BY <1>1, <1>2, <1>5, SaleKeeps
<1>7. n \in DOMAIN fills' /\ n \in Unbooked' /\ n \in Nat /\ fills'[n].stop = 0
      /\ fills'[n].volume <= work[w].volume
  BY <1>6 DEF Sold
<1>8. work' = [work EXCEPT ![w] = [work[w] EXCEPT !.step = "forget", !.fill = n]]
  BY <1>1, <1>3 DEF WorkTyped
<1> HIDE DEF n
<1>9. /\ work'[w] = [work[w] EXCEPT !.step = "forget", !.fill = n]
      /\ \A v \in Workers : v # w => work'[v] = work[v]
      /\ work' = [v \in Workers |-> work'[v]]
  BY <1>3, <1>8 DEF WorkTyped
<1>10. /\ work'[w] \in CloseJob /\ work'[w].step = "forget" /\ work'[w].fill = n
       /\ work'[w].volume = work[w].volume /\ work'[w].order = work[w].order
  BY <1>4, <1>7, <1>9 DEF CloseJob
<1>11. WorkTyped'
  BY <1>3, <1>9, <1>10, WorkChanges
<1>12. Busy' = Busy
  BY <1>3, <1>4, <1>9, <1>10 DEF Busy, Idle, CloseJob
<1>13. Paired'
  BY <1>3, <1>12 DEF Paired
<1>14. events' \subseteq {fills'[i].stop : i \in DOMAIN fills'} \ {0}
  BY <1>2, <1>6, EventsStay
<1>15. Typed'
  <2>1. BotTyped'
    BY <1>2, <1>6, BotStays DEF LedgerInv, Typed, Sold
  <2> QED
    BY <1>2, <1>6, <1>11, <1>14, <2>1 DEF Typed, LedgerInv, Sold
<1>16. \A v \in Workers \ {w} : (v \in Closers => CloserInv(v)') /\ (v \in Settlers => SettlerInv(v)')
                         /\ (v = "opening" => OpeningInv')
  BY <1>2, <1>6, <1>9, SoldKeeps
<1>17. CloserInv(w)'
  <2>1. Last' = Last /\ Tracked' = Tracked
    BY <1>6 DEF Sold
  <2> QED
    BY <1>1, <1>2, <1>3, <1>4, <1>7, <1>10, <2>1 DEF CloserInv, Selling
<1>18. SettlerInv(w)'
  BY <1>10 DEF SettlerInv, Settling
<1>19. Accounted'
  <2>1. \A v \in Recording : work'[v] = work[v]
    BY <1>1, <1>9, Somebody DEF Recording
  <2> QED
    BY <1>2, <1>3, <1>6, <2>1, AccountedStays, TrackedIsNat DEF LedgerInv, Typed, Sold
<1>20. RowsInv' /\ PositionInv' /\ HeldInv'
  BY <1>6 DEF Sold
<1> QED
  BY <1>13, <1>15, <1>16, <1>17, <1>18, <1>19, <1>20, Somebody DEF LedgerInv
-----------------------------------------------------------------------------
\* Steps that leave the ledger and the contracts alone.
Same == held' = held /\ fills' = fills /\ orders' = orders /\ trades' = trades

\* The parts that only speak of the ledger stay.
LEMMA SameKeeps ==
  ASSUME LedgerInv, Same
  PROVE  /\ RowsInv' /\ HeldInv' /\ RowsTyped' /\ TradesTyped'
         /\ held' \in 0..Cap /\ fills' \in Seq(Sale)
         /\ Last' = Last /\ Rows' = Rows /\ Owed' = Owed /\ Loose' = Loose
         /\ Unbooked' = Unbooked /\ OpenOrders' = OpenOrders
         /\ \A i : FillsOf(i)' = FillsOf(i)
         /\ Owed \in Nat /\ Loose \in Nat /\ held \in Nat
<1>1. /\ Last' = Last /\ Rows' = Rows /\ Owed' = Owed /\ Loose' = Loose
      /\ Unbooked' = Unbooked /\ OpenOrders' = OpenOrders
      /\ \A i : Remaining(i)' = Remaining(i)
      /\ \A i : FillsOf(i)' = FillsOf(i)
      /\ BookedOnce => BookedOnce'
  BY SameLedger DEF Same
<1>2. Owed \in Nat /\ Loose \in Nat /\ held \in Nat
  BY OwedIsNat, SalesAreMeasured, RealAssumption DEF LedgerInv, Typed
<1>3. RowsInv' /\ HeldInv'
  BY <1>1 DEF LedgerInv, RowsInv, HeldInv, Same
<1>4. RowsTyped' /\ TradesTyped' /\ held' \in 0..Cap /\ fills' \in Seq(Sale)
  BY <1>1 DEF LedgerInv, Typed, RowsTyped, TradesTyped, Same, Row, Booking, Sale
<1> QED
  BY <1>1, <1>2, <1>3, <1>4

\* A closer keeps what it relies on,
LEMMA SameCloser ==
  ASSUME LedgerInv, Same, NEW v \in Closers, work'[v] = work[v], stops' \subseteq stops,
         pos' = pos \/ (~pos'.open /\ v # "loop"), v = "loop" => bot' = bot
  PROVE  CloserInv(v)'
<1>1. Last' = Last /\ Unbooked' = Unbooked /\ fills' = fills /\ CloserInv(v)
  BY SameKeeps DEF LedgerInv, Same
<1> QED
  BY <1>1, CloserStays

\* so does a settler,
LEMMA SameSettler ==
  ASSUME LedgerInv, Same, NEW v \in Settlers, work'[v] = work[v], pos'.open => pos.open
  PROVE  SettlerInv(v)'
<1>1. Last' = Last /\ Unbooked' = Unbooked /\ fills' = fills /\ SettlerInv(v)
      /\ Owed' = Owed /\ Loose' = Loose
  BY SameKeeps DEF LedgerInv, Same
<1> QED
  BY <1>1, SettlerStays

\* an opening,
LEMMA SameOpening ==
  ASSUME LedgerInv, Same, work'["opening"] = work["opening"], pos' = pos PROVE OpeningInv'
<1>1. OpenOrders' = OpenOrders /\ Loose' = Loose /\ held' = held /\ OpeningInv
  BY SameKeeps DEF LedgerInv, Same
<1> QED
  BY <1>1, OpeningStays

\* and the position.
LEMMA SamePosition ==
  ASSUME LedgerInv, Same, pos' = pos, stops' \subseteq stops,
         pos.open => bot' = bot \/ bot'.order = Last
  PROVE  PositionInv'
<1>1. /\ Last' = Last /\ Unbooked' = Unbooked /\ Owed' = Owed /\ Loose' = Loose /\ orders' = orders
      /\ \A i : FillsOf(i)' = FillsOf(i)
  BY SameKeeps DEF Same
<1> QED
  BY <1>1 DEF LedgerInv, PositionInv

\* A position that is not tracked any more.
LEMMA NoPositionThen ==
  ASSUME pos' = None PROVE ~pos'.open /\ PositionInv' /\ PosTyped' /\ Tracked' = 0
BY DEF None, PositionInv, PosTyped, Tracked

\* The position stays what it was,
LEMMA PosStays == ASSUME LedgerInv, Same, pos' = pos PROVE PosTyped'
BY SameKeeps DEF LedgerInv, Typed, PosTyped, None, AnyPosition, Same

\* the stop orders too when some go,
LEMMA StopsStay == ASSUME LedgerInv, stops' \subseteq stops PROVE StopsTyped'
<1>1. IsFiniteSet(stops')
  BY FS_Subset DEF LedgerInv, Typed, StopsTyped
<1> QED
  BY <1>1 DEF LedgerInv, Typed, StopsTyped, StopOrder

\* and what watch_orders has to tell.
LEMMA SameEvents ==
  ASSUME LedgerInv, Same, events' \subseteq events
  PROVE  events' \subseteq {fills'[i].stop : i \in DOMAIN fills'} \ {0}
BY DEF LedgerInv, Typed, Same

\* What is accounted for stays so when more is tracked.
LEMMA SameAccounted ==
  ASSUME LedgerInv, Same, Tracked <= Tracked', Tracked' \in Nat, \A w \in Recording : work'[w] = work[w]
  PROVE  Accounted'
<1>1. Owed' = Owed /\ Loose' = Loose /\ Owed \in Nat /\ Loose \in Nat /\ Tracked \in Nat
  BY SameKeeps, TrackedIsNat DEF LedgerInv, Typed
<1>2. Loose <= Loose'
  BY <1>1
<1> QED
  BY <1>1, <1>2, AccountedStays DEF LedgerInv, Typed

\* A closing that fails.
LEMMA CloseFailsKeeps ==
  ASSUME LedgerInv, NEW w \in Closers, CloseFails(w) PROVE LedgerInv'
<1>1. /\ work[w].step = "sell" /\ (UNCHANGED <<held, fills>> \/ Sell(work[w].volume, 0))
      /\ Finish(w) /\ bot' = (IF w # "request" /\ ~pos.open THEN None ELSE bot)
      /\ UNCHANGED <<stops, wrong, db, pos, events>>
  BY DEF CloseFails
<1>2. /\ orders' = orders /\ trades' = trades /\ pos' = pos
      /\ wrong' = wrong /\ stops' \subseteq stops /\ events' = events /\ stops' = stops
      /\ pos.open => bot' = bot
      /\ bot' = bot \/ bot' = None
  BY <1>1 DEF db
<1>3. WorkTyped /\ Paired /\ w \in Workers
  BY Somebody DEF LedgerInv, Typed
<1>4. work[w] \in CloseJob /\ w \in Busy
  <2>1. Selling(w) /\ work[w].step # "idle"
    BY <1>1 DEF Selling
  <2> QED
    BY <1>3, <2>1, JobSteps DEF Busy
<1>5. work[w].volume \in Nat \ {0}
  BY <1>4 DEF CloseJob
<1>6. /\ work'[w] = Idle /\ \A v \in Workers : v # w => work'[v] = work[v]
      /\ Paired' /\ WorkTyped'
  BY <1>1, <1>3, Finishes
<1>7. w # "loop" => work["loop"] = Idle
  BY <1>3, <1>4, Peers, Somebody
<1>8. w # "loop" => CloserInv("loop")' /\ SettlerInv("loop")'
  <2>1. w # "loop" => work'["loop"] = Idle
    BY <1>6, <1>7, Somebody
  <2> QED
    BY <2>1, IdleThen
<1>9. CloserInv(w)' /\ SettlerInv(w)'
  BY <1>6, IdleThen
<1>10. \A v \in Recording : work'[v] = work[v]
  BY <1>1, <1>6, Somebody DEF Recording
<1>11. CASE UNCHANGED <<held, fills>>
  <2>1. Same
    BY <1>2, <1>11 DEF Same
  <2>2. \A v \in Closers \ {w, "loop"} : CloserInv(v)'
    BY <1>2, <1>6, <2>1, SameCloser, Somebody
  <2>3. \A v \in Settlers \ {w, "loop"} : SettlerInv(v)'
    BY <1>2, <1>6, <2>1, SameSettler, Somebody
  <2>4. OpeningInv'
    BY <1>2, <1>6, <2>1, SameOpening, Somebody
  <2>5. PositionInv' /\ PosTyped' /\ StopsTyped'
    BY <1>2, <2>1, SamePosition, PosStays, StopsStay
  <2>6. BotTyped'
    BY <1>2, <2>1, SameKeeps, BotStays DEF LedgerInv, Typed
  <2>7. Typed'
    BY <1>2, <1>6, <2>1, <2>5, <2>6, SameKeeps, SameEvents DEF LedgerInv, Typed
  <2>8. Accounted'
    <3>1. Tracked' = Tracked /\ Tracked \in Nat
      BY <1>2, TrackedIsNat DEF Tracked, LedgerInv, Typed
    <3> QED
      BY <1>10, <2>1, <3>1, SameAccounted
  <2>9. RowsInv' /\ HeldInv'
    BY <2>1, SameKeeps
  <2> QED
    BY <1>6, <1>8, <1>9, <2>2, <2>3, <2>4, <2>5, <2>7, <2>8, <2>9 DEF LedgerInv
<1>12. CASE Sell(work[w].volume, 0)
  <2>1. Sold(work[w].volume, 0)
    BY <1>2, <1>5, <1>12, SaleKeeps
  <2>2. \A v \in Workers \ {w, "loop"} : (v \in Closers => CloserInv(v)') /\ (v \in Settlers => SettlerInv(v)')
                                         /\ (v = "opening" => OpeningInv')
    BY <1>2, <1>6, <2>1, SoldKeeps
  <2>3. BotTyped'
    BY <1>2, <2>1, BotStays DEF LedgerInv, Typed, Sold
  <2>4. Typed'
    BY <1>2, <1>6, <2>1, <2>3, EventsStay DEF LedgerInv, Typed, Sold
  <2>5. Accounted'
    BY <1>2, <1>3, <1>10, <2>1, AccountedStays, TrackedIsNat DEF LedgerInv, Typed, Sold
  <2>6. RowsInv' /\ PositionInv' /\ HeldInv'
    BY <2>1 DEF Sold
  <2>7. \A v \in Closers \ {w, "loop"} : CloserInv(v)'
    BY <2>2, Somebody
  <2>8. \A v \in Settlers \ {w, "loop"} : SettlerInv(v)'
    BY <2>2, Somebody
  <2>9. OpeningInv'
    BY <2>2, Somebody
  <2> QED
    BY <1>6, <1>8, <1>9, <2>4, <2>5, <2>6, <2>7, <2>8, <2>9 DEF LedgerInv
<1> QED
  BY <1>1, <1>11, <1>12
-----------------------------------------------------------------------------
(* An opening order is sent. *)

\* Only contracts and workers change: everything stays what it was.
LEMMA TypesStay ==
  ASSUME Typed, orders' = orders, trades' = trades, fills' = fills, pos' = pos, bot' = bot,
         stops' = stops, events' = events, wrong' = wrong, held' \in 0..Cap, WorkTyped'
  PROVE  Typed'
<1>1. StopsTyped'
  BY DEF Typed, StopsTyped, StopOrder
<1>2. Rows' = Rows /\ RowsTyped'
  BY DEF Typed, RowsTyped, Rows, Row
<1>3. TradesTyped'
  BY <1>2 DEF Typed, TradesTyped, Booking
<1>4. PosTyped'
  BY <1>2 DEF Typed, PosTyped, None, AnyPosition
<1>5. BotTyped'
  BY <1>2 DEF Typed, BotTyped, None, AnyCopy
<1> QED
  BY <1>1, <1>2, <1>3, <1>4, <1>5 DEF Typed, Sale

\* The owner of the account buys.
LEMMA OwnerBuysKeeps == ASSUME LedgerInv, OwnerBuys PROVE LedgerInv'
<1>1. /\ held < Cap /\ held' = held + 1 /\ stops' = stops /\ fills' = fills /\ wrong' = wrong
      /\ orders' = orders /\ trades' = trades /\ pos' = pos /\ bot' = bot /\ work' = work
      /\ events' = events
  BY DEF OwnerBuys, db, memory
<1>2. /\ Last' = Last /\ Rows' = Rows /\ Owed' = Owed /\ Loose' = Loose
      /\ Unbooked' = Unbooked /\ OpenOrders' = OpenOrders
      /\ \A i : Remaining(i)' = Remaining(i)
      /\ \A i : FillsOf(i)' = FillsOf(i)
      /\ BookedOnce => BookedOnce'
  BY <1>1, SameLedger
<1>3. /\ Owed \in Nat /\ Loose \in Nat /\ held \in Nat /\ Cap \in Nat /\ held \in 0..Cap
      /\ Tracked \in Nat /\ WorkTyped /\ Paired
  BY OwedIsNat, SalesAreMeasured, RealAssumption, TrackedIsNat DEF LedgerInv, Typed
<1>4. held' \in 0..Cap
  BY <1>1, <1>3
<1>5. WorkTyped' /\ Paired'
  BY <1>1, <1>3, WorkStays
<1>6. Typed'
  BY <1>1, <1>4, <1>5, TypesStay DEF LedgerInv
<1>7. RowsInv' /\ PositionInv'
  BY <1>1, <1>2 DEF LedgerInv, RowsInv, PositionInv
<1>8. HeldInv'
  BY <1>1, <1>2, <1>3 DEF LedgerInv, HeldInv
<1>9. \A v \in Closers : CloserInv(v)'
  BY <1>1, <1>2, CloserStays DEF LedgerInv
<1>10. \A v \in Settlers : SettlerInv(v)'
  BY <1>1, <1>2, SettlerStays DEF LedgerInv
<1>11. OpeningInv'
  <2>1. CASE work["opening"] = Idle
    BY <1>1, <2>1, OpeningOver
  <2>2. CASE work["opening"] # Idle
    <3>1. work["opening"] \in OpenJob
      BY <1>3, <2>2, Somebody DEF WorkTyped
    <3>2. work["opening"].bought \in Nat
      BY <3>1, RealAssumption DEF OpenJob
    <3> QED
      BY <1>1, <1>2, <1>3, <2>2, <3>2 DEF LedgerInv, OpeningInv
  <2> QED
    BY <2>1, <2>2
<1>12. Accounted'
  <2>1. Tracked' = Tracked
    BY <1>1 DEF Tracked
  <2> QED
    BY <1>1, <1>2, <1>3, <2>1, AccountedStays DEF LedgerInv
<1> QED
  BY <1>5, <1>6, <1>7, <1>8, <1>9, <1>10, <1>11, <1>12 DEF LedgerInv

\* What begins while somebody may be at work, or ends, beside the rest.
LEMMA LoopForgetsKeeps == ASSUME LedgerInv, LoopForgets PROVE LedgerInv'
<1>1. /\ work["loop"] = Idle /\ ~pos.open /\ bot' = None /\ held' = held /\ stops' = stops
      /\ fills' = fills /\ wrong' = wrong /\ orders' = orders /\ trades' = trades /\ pos' = pos
      /\ work' = work /\ events' = events
  BY DEF LoopForgets, exchange, db
<1>2. Same /\ WorkTyped /\ Paired
  BY <1>1 DEF Same, LedgerInv, Typed
<1>3. \A v \in Closers \ {"loop"} : CloserInv(v)'
  BY <1>1, <1>2, SameCloser
<1>4. \A v \in Settlers : SettlerInv(v)'
  BY <1>1, <1>2, SameSettler
<1>5. CloserInv("loop")'
  BY <1>1, IdleThen
<1>6. OpeningInv' /\ PositionInv' /\ PosTyped' /\ StopsTyped' /\ WorkTyped' /\ Paired'
  BY <1>1, <1>2, SameOpening, SamePosition, PosStays, StopsStay, WorkStays
<1>7. BotTyped'
  BY <1>1, <1>2, SameKeeps, BotStays DEF LedgerInv, Typed
<1>8. Typed'
  BY <1>1, <1>2, <1>6, <1>7, SameKeeps, SameEvents DEF LedgerInv, Typed
<1>9. Accounted'
  <2>1. Tracked' = Tracked /\ Tracked \in Nat
    BY <1>1, TrackedIsNat DEF Tracked, LedgerInv, Typed
  <2> QED
    BY <1>1, <1>2, <2>1, SameAccounted
<1>10. RowsInv' /\ HeldInv'
  BY <1>2, SameKeeps
<1> QED
  BY <1>3, <1>4, <1>5, <1>6, <1>8, <1>9, <1>10, Somebody DEF LedgerInv

\* An opening order is not confirmed.
LEMMA OpenUnconfirmedKeeps == ASSUME LedgerInv, OpenUnconfirmed PROVE LedgerInv'
<1>1. /\ Finish("opening") /\ held' = held /\ stops' = stops /\ bot' = bot
      /\ fills' = fills /\ wrong' = wrong /\ orders' = orders /\ trades' = trades /\ pos' = pos
      /\ events' = events
  BY DEF OpenUnconfirmed, exchange, db, memory
<1>2. Same /\ WorkTyped /\ Paired /\ "opening" \in Workers
  BY <1>1, Somebody DEF Same, LedgerInv, Typed
<1>3. /\ work'["opening"] = Idle /\ \A v \in Workers : v # "opening" => work'[v] = work[v]
      /\ Paired' /\ WorkTyped'
  BY <1>1, <1>2, Finishes
<1>4. \A v \in Closers : CloserInv(v)'
  BY <1>1, <1>2, <1>3, SameCloser, Somebody
<1>5. \A v \in Settlers : SettlerInv(v)'
  BY <1>1, <1>2, <1>3, SameSettler, Somebody
<1>6. OpeningInv' /\ PositionInv' /\ PosTyped' /\ StopsTyped'
  BY <1>1, <1>2, <1>3, OpeningOver, SamePosition, PosStays, StopsStay
<1>7. BotTyped'
  BY <1>1, <1>2, SameKeeps, BotStays DEF LedgerInv, Typed
<1>8. Typed'
  BY <1>1, <1>2, <1>3, <1>6, <1>7, SameKeeps, SameEvents DEF LedgerInv, Typed
<1>9. Accounted'
  <2>1. Tracked' = Tracked /\ Tracked \in Nat
    BY <1>1, TrackedIsNat DEF Tracked, LedgerInv, Typed
  <2>2. \A v \in Recording : work'[v] = work[v]
    BY <1>3, Somebody DEF Recording
  <2> QED
    BY <1>2, <2>1, <2>2, SameAccounted
<1>10. RowsInv' /\ HeldInv'
  BY <1>2, SameKeeps
<1> QED
  BY <1>3, <1>4, <1>5, <1>6, <1>8, <1>9, <1>10 DEF LedgerInv

\* An opening order is sent: whatever is open is the adopted position, which the order will replace.
LEMMA OpenSendKeeps == ASSUME Apart, Mild, LedgerInv, OpenSend PROVE LedgerInv'
<1>1. PICK bought \in {0, Lot} :
        /\ held' = held + bought /\ held + Lot <= Cap
        /\ Start("opening", [step |-> "sent", bought |-> bought])
        /\ NoOtherRow(IF pos.open /\ pos.adopted THEN {pos.order} ELSE {})
        /\ stops' = stops /\ bot' = bot /\ fills' = fills /\ wrong' = wrong /\ orders' = orders
        /\ trades' = trades /\ pos' = pos /\ events' = events
  BY DEF OpenSend, db, memory
<1> DEFINE job == [step |-> "sent", bought |-> bought]
<1>2. /\ Last' = Last /\ Rows' = Rows /\ Owed' = Owed /\ Loose' = Loose
      /\ Unbooked' = Unbooked /\ OpenOrders' = OpenOrders
      /\ \A i : Remaining(i)' = Remaining(i)
      /\ \A i : FillsOf(i)' = FillsOf(i)
      /\ BookedOnce => BookedOnce'
  BY <1>1, SameLedger
<1>3. /\ Owed \in Nat /\ Loose \in Nat /\ held \in Nat /\ Cap \in Nat /\ Lot \in Nat
      /\ Tracked \in Nat /\ WorkTyped /\ Paired /\ bought \in Nat
  BY OwedIsNat, SalesAreMeasured, RealAssumption, TrackedIsNat DEF LedgerInv, Typed
<1>4. held' \in 0..Cap
  BY <1>1, <1>3
<1>5. job # Idle /\ job.step = "sent" /\ job.bought = bought /\ job \in OpenJob
  BY DEF Idle, OpenJob
<1> HIDE DEF job
<1>6. /\ work' = [v \in Workers |-> work'[v]]
      /\ work'["opening"] = job /\ \A v \in Workers : v # "opening" => work'[v] = work[v]
      /\ Paired' /\ Free("opening")
  <2>1. Start("opening", job)
    BY <1>1 DEF job
  <2> QED
    BY <1>3, <1>5, <2>1, Starts, Somebody
<1>7. WorkTyped'
  BY <1>3, <1>5, <1>6, WorkChanges, Somebody
<1>8. \A v \in Workers : v # "opening" => work'[v] = Idle
  <2>1. Busy = {}
    BY <1>6, FreeAlone
  <2> QED
    BY <1>6, <2>1 DEF Busy
<1>9. (\A v \in Closers : CloserInv(v)') /\ (\A v \in Settlers : SettlerInv(v)')
  BY <1>8, IdleThen, Somebody
<1>10. Typed'
  BY <1>1, <1>4, <1>7, TypesStay DEF LedgerInv
<1>11. RowsInv' /\ PositionInv'
  BY <1>1, <1>2 DEF LedgerInv, RowsInv, PositionInv
<1>12. HeldInv'
  BY <1>1, <1>2, <1>3 DEF LedgerInv, HeldInv
<1>13. OpeningInv'
  <2>1. OpenOrders' \subseteq IF pos'.open /\ pos'.adopted THEN {pos'.order} ELSE {}
    BY <1>1, <1>2 DEF NoOtherRow, Mild
  <2>2. bought <= held' + Loose'
    BY <1>1, <1>2, <1>3
  <2> QED
    BY <1>5, <1>6, <2>1, <2>2 DEF OpeningInv
<1>14. Accounted'
  <2>1. Tracked' = Tracked
    BY <1>1 DEF Tracked
  <2>2. \A v \in Recording : work'[v] = work[v]
    BY <1>6, Somebody DEF Recording
  <2> QED
    BY <1>1, <1>2, <1>3, <2>1, <2>2, AccountedStays DEF LedgerInv
<1> QED
  BY <1>6, <1>9, <1>10, <1>11, <1>12, <1>13, <1>14 DEF LedgerInv
-----------------------------------------------------------------------------
(* A closing, up to its being recorded. *)

\* A closing that begins closes the last row's position.
LEMMA CloserOrders ==
  ASSUME LedgerInv, pos.open
  PROVE  /\ pos.order = Last /\ (bot.open => bot.order = Last) /\ pos.volume \in Nat \ {0}
         /\ Last \in Rows /\ Last # 0
BY PosIs, LastIsRow DEF LedgerInv, PositionInv, Typed

\* A closing begins: the stop order goes.
LEMMA CloseBeginsKeeps ==
  ASSUME Apart, LedgerInv, NEW w \in Closers, NEW volume \in Nat \ {0}, NEW order, order = Last,
         Close(w, volume, order), Same, wrong' = wrong, pos' = pos, events' = events, BotTyped',
         bot' = bot \/ bot'.order = Last, w # "loop" => bot' = bot,
         w = "loop" => bot'.open /\ Tracked <= bot'.volume
  PROVE  LedgerInv'
<1> DEFINE job == [step |-> "sell", volume |-> volume, order |-> order, fill |-> 0]
<1>1. pos.open /\ stops' = Without(pos.stop) /\ Start(w, job)
  BY DEF Close
<1>2. WorkTyped /\ Paired /\ w \in Workers /\ Last \in Nat /\ stops' \subseteq stops
  BY <1>1, LastIsRow, Somebody DEF LedgerInv, Typed, Without
<1>3. /\ job # Idle /\ job.step = "sell" /\ job.volume = volume /\ job.order = Last
      /\ job.fill = 0 /\ job \in CloseJob
  BY <1>2 DEF Idle, CloseJob
<1> HIDE DEF job
<1>4. /\ work' = [v \in Workers |-> work'[v]]
      /\ work'[w] = job /\ \A v \in Workers : v # w => work'[v] = work[v]
      /\ Paired' /\ Free(w)
  BY <1>1, <1>2, <1>3, Starts
<1>5. WorkTyped'
  BY <1>2, <1>3, <1>4, WorkChanges
<1>6. \A v \in Workers : work[v] # Idle => Pair(w, v)
  BY <1>2, <1>4, FreeWorker DEF Busy
<1>7. \A v \in Workers \ {w} : v # "watch" => work'[v] = Idle
  BY <1>4, <1>6, Somebody DEF Pair
<1>8. \A v \in Closers \ {w} : CloserInv(v)'
  BY <1>7, IdleThen, Somebody
<1>9. \A v \in Settlers \ {w} : SettlerInv(v)'
  BY <1>4, SameSettler, Somebody
<1>10. SettlerInv(w)'
  BY <1>3, <1>4 DEF SettlerInv, Settling
<1>11. OpeningInv'
  BY <1>7, OpeningOver, Somebody
<1>12. Last' = Last /\ Tracked' = Tracked
  BY SameKeeps DEF Tracked
<1>13. CloserInv(w)'
  <2>1. \A s \in stops' : s.id # pos.stop
    BY <1>1 DEF Without
  <2>2. Last # 0
    BY <1>1, CloserOrders
  <2> QED
    BY <1>3, <1>4, <1>12, <2>1, <2>2 DEF CloserInv, Selling
<1>14. PositionInv' /\ PosTyped' /\ StopsTyped'
  BY <1>2, SamePosition, PosStays, StopsStay
<1>15. Typed'
  BY <1>5, <1>14, SameKeeps, SameEvents DEF LedgerInv, Typed
<1>16. Accounted'
  <2>1. Tracked \in Nat
    BY TrackedIsNat DEF LedgerInv, Typed
  <2>2. work[w] = Idle
    BY <1>4 DEF Free
  <2>3. w \notin Recording
    BY <2>2, IdleIs DEF Recording
  <2>4. \A v \in Recording : work'[v] = work[v]
    BY <1>4, <2>3, Somebody DEF Recording
  <2> QED
    BY <1>12, <2>1, <2>4, SameAccounted
<1>17. RowsInv' /\ HeldInv'
  BY SameKeeps
<1> QED
  BY <1>4, <1>8, <1>9, <1>10, <1>11, <1>13, <1>14, <1>15, <1>16, <1>17 DEF LedgerInv

\* A closing begins: in the trading loop,
LEMMA LoopClosesKeeps == ASSUME Apart, LedgerInv, LoopCloses PROVE LedgerInv'
<1> DEFINE known == Max({bot.volume, pos.volume})
<1>1. /\ bot.open /\ pos.open /\ bot' = [bot EXCEPT !.volume = known]
      /\ \E volume \in 1..known : Close("loop", volume, bot.order)
      /\ UNCHANGED <<held, fills, wrong, db, pos, events>>
  BY DEF LoopCloses
<1>2. PosTyped /\ BotTyped /\ Rows' = Rows
  BY <1>1 DEF LedgerInv, Typed, db, Rows
<1>3. /\ bot \in AnyCopy /\ bot.order \in Rows /\ bot.volume \in Nat \ {0} /\ pos.volume \in Nat \ {0}
      /\ Tracked = pos.volume /\ bot.order = Last
  BY <1>1, <1>2, BotIs, PosIs, CloserOrders
<1>4. known \in {bot.volume, pos.volume} /\ bot.volume <= known /\ pos.volume <= known
  <2>1. \E x \in {bot.volume, pos.volume} : \A y \in {bot.volume, pos.volume} : x >= y
    BY <1>3
  <2> QED
    BY <2>1, <1>3 DEF Max
<1> HIDE DEF known
<1>5. known \in Nat \ {0}
  BY <1>3, <1>4
<1>6. bot' \in AnyCopy /\ bot'.open /\ bot'.volume = known /\ bot'.order = bot.order
  BY <1>1, <1>3, <1>5 DEF AnyCopy
<1>7. BotTyped'
  BY <1>2, <1>3, <1>6 DEF BotTyped, AnyCopy
<1>8. PICK volume \in 1..known : Close("loop", volume, bot.order)
  BY <1>1
<1>9. volume \in Nat \ {0}
  BY <1>5
<1>10. Same /\ wrong' = wrong /\ pos' = pos /\ events' = events
  BY <1>1 DEF Same, db
<1>11. Tracked <= bot'.volume /\ bot'.order = Last
  BY <1>3, <1>4, <1>6
<1> QED
  BY <1>3, <1>6, <1>7, <1>8, <1>9, <1>10, <1>11, CloseBeginsKeeps, Somebody

\* by the channel,
LEMMA ChannelClosesKeeps == ASSUME Apart, LedgerInv, ChannelCloses PROVE LedgerInv'
<1>1. /\ bot.open /\ pos.open /\ Close("channel", bot.volume, bot.order) /\ bot' = bot
      /\ Same /\ wrong' = wrong /\ pos' = pos /\ events' = events
  BY DEF ChannelCloses, Close, Same, db, memory
<1>2. BotTyped /\ BotTyped' /\ bot.volume \in Nat \ {0} /\ bot.order = Last
  BY <1>1, BotIs, BotStays, SameKeeps, CloserOrders DEF LedgerInv, Typed
<1> QED
  BY <1>1, <1>2, CloseBeginsKeeps, Somebody

\* by a request.
LEMMA RequestClosesKeeps == ASSUME Apart, LedgerInv, RequestCloses PROVE LedgerInv'
<1>1. /\ pos.open /\ Close("request", pos.volume, pos.order) /\ bot' = bot
      /\ Same /\ wrong' = wrong /\ pos' = pos /\ events' = events
  BY DEF RequestCloses, Same, db, memory
<1>2. BotTyped' /\ pos.volume \in Nat \ {0} /\ pos.order = Last
  BY <1>1, BotStays, SameKeeps, CloserOrders DEF LedgerInv, Typed
<1> QED
  BY <1>1, <1>2, CloseBeginsKeeps, Somebody

\* The sale is forgotten.
LEMMA CloseForgetsKeeps == ASSUME LedgerInv, NEW w \in Closers, CloseForgets(w) PROVE LedgerInv'
<1>1. /\ work[w].step = "forget" /\ Continue(w, "record") /\ Same /\ stops' = stops /\ wrong' = wrong
      /\ bot' = bot /\ events' = events
      /\ pos' = (IF pos.open /\ pos.volume > work[w].volume
                 THEN [pos EXCEPT !.volume = pos.volume - work[w].volume] ELSE None)
  BY DEF CloseForgets, exchange, db, Same
<1>2. /\ WorkTyped /\ Paired /\ w \in Workers /\ PosTyped /\ BotTyped /\ stops' \subseteq stops
      /\ PositionInv
  BY <1>1, Somebody DEF LedgerInv, Typed
<1>3. work[w] \in CloseJob /\ w \in Busy /\ Selling(w)
  <2>1. Selling(w) /\ work[w].step # "idle"
    BY <1>1 DEF Selling
  <2> QED
    BY <1>2, <2>1, JobSteps DEF Busy
<1>4. work[w].volume \in Nat \ {0}
  BY <1>3 DEF CloseJob
<1>5. /\ work' = [v \in Workers |-> work'[v]]
      /\ work'[w] = [work[w] EXCEPT !.step = "record"]
      /\ \A v \in Workers : v # w => work'[v] = work[v]
      /\ Busy' = Busy /\ Paired'
  BY <1>1, <1>2, <1>3, Continues DEF Busy
<1>6. /\ work'[w] \in CloseJob /\ work'[w].step = "record" /\ work'[w].fill = work[w].fill
      /\ work'[w].volume = work[w].volume /\ work'[w].order = work[w].order
  BY <1>3, <1>5 DEF CloseJob
<1>7. WorkTyped'
  BY <1>2, <1>5, <1>6, WorkChanges
<1>8. \/ pos' = None
      \/ /\ pos.open /\ pos.volume > work[w].volume
         /\ pos' = [pos EXCEPT !.volume = pos.volume - work[w].volume]
         /\ pos' \in AnyPosition /\ pos'.open /\ pos'.volume = pos.volume - work[w].volume
         /\ pos'.order = pos.order /\ pos'.stop = pos.stop /\ pos'.since = pos.since
         /\ pos'.adopted = pos.adopted /\ pos.order \in Rows /\ pos.since <= Len(fills)
  <2>1. CASE pos.open /\ pos.volume > work[w].volume
    <3>1. pos \in AnyPosition /\ pos.order \in Rows /\ pos.since <= Len(fills) /\ pos.volume \in Nat
      BY <1>2, <2>1, PosIs
    <3>2. pos.volume - work[w].volume \in Nat \ {0}
      BY <1>4, <2>1, <3>1
    <3> QED
      BY <1>1, <2>1, <3>1, <3>2 DEF AnyPosition
  <2>2. CASE ~(pos.open /\ pos.volume > work[w].volume)
    BY <1>1, <2>2
  <2> QED
    BY <2>1, <2>2
<1>9. \A v \in Workers \ {w} : v # "watch" => work'[v] = Idle
  <2>1. \A v \in Workers \ {w} : v # "watch" => work[v] = Idle
    BY <1>2, <1>3, Peers, Somebody
  <2> QED
    BY <1>5, <2>1
<1>10. pos'.open => pos.open
  BY <1>8 DEF None
<1>11. \A v \in Closers \ {w} : CloserInv(v)'
  BY <1>9, IdleThen, Somebody
<1>12. \A v \in Settlers \ {w} : SettlerInv(v)'
  BY <1>1, <1>5, <1>10, SameSettler, Somebody
<1>13. SettlerInv(w)'
  BY <1>6 DEF SettlerInv, Settling
<1>14. OpeningInv'
  BY <1>9, OpeningOver, Somebody
<1>15. /\ Last' = Last /\ Unbooked' = Unbooked /\ Owed' = Owed /\ Loose' = Loose /\ Rows' = Rows
       /\ fills' = fills /\ orders' = orders /\ \A i : FillsOf(i)' = FillsOf(i)
  BY <1>1, SameKeeps DEF Same
<1>16. CloserInv(w)'
  <2>1. /\ work[w].order = Last /\ Last # 0 /\ work[w].fill \in Unbooked /\ fills[work[w].fill].stop = 0
        /\ fills[work[w].fill].volume <= work[w].volume
        /\ w = "loop" => bot.open /\ Tracked <= bot.volume
    BY <1>1, <1>3 DEF LedgerInv, CloserInv
  <2>2. w = "loop" /\ pos'.open => bot'.open /\ Tracked' + work[w].volume <= bot'.volume
    <3> SUFFICES ASSUME w = "loop", pos'.open PROVE bot'.open /\ Tracked' + work[w].volume <= bot'.volume
      OBVIOUS
    <3>1. /\ pos.open /\ Tracked = pos.volume /\ Tracked' = pos.volume - work[w].volume
          /\ pos.volume \in Nat
      BY <1>2, <1>8, PosIs DEF None, Tracked
    <3> QED
      BY <1>1, <1>4, <2>1, <3>1
  <2> QED
    BY <1>6, <1>15, <2>1, <2>2 DEF CloserInv, Selling
<1>17. PositionInv'
  <2>1. CASE pos' = None
    BY <2>1, NoPositionThen
  <2>2. CASE pos.open /\ pos'.open /\ pos'.order = pos.order /\ pos'.stop = pos.stop
             /\ pos'.since = pos.since
    BY <1>1, <1>2, <1>15, <2>2 DEF PositionInv
  <2> QED
    BY <1>8, <2>1, <2>2
<1>18. PosTyped'
  <2>1. CASE pos' = None
    BY <2>1, NoPositionThen
  <2>2. CASE pos' \in AnyPosition /\ pos'.order \in Rows /\ pos'.since <= Len(fills)
    BY <1>15, <2>2 DEF PosTyped, AnyPosition
  <2> QED
    BY <1>8, <2>1, <2>2
<1>19. BotTyped' /\ StopsTyped'
  BY <1>1, <1>2, <1>15, BotStays, StopsStay
<1>20. Typed'
  BY <1>1, <1>7, <1>18, <1>19, SameKeeps, SameEvents DEF LedgerInv, Typed
<1>21. Accounted'
  <2>1. Tracked \in Nat /\ Owed \in Nat
    BY <1>1, <1>2, TrackedIsNat, SameKeeps
  <2>2. Tracked' \in Nat /\ Tracked <= Tracked' + work[w].volume
    <3>1. CASE pos' = None
      <4>1. Tracked' = 0 /\ (pos.open => ~(pos.volume > work[w].volume))
        BY <1>1, <3>1, NoPositionThen DEF None
      <4>2. CASE pos.open
        BY <1>2, <1>4, <4>1, <4>2, PosIs
      <4>3. CASE ~pos.open
        BY <1>4, <4>1, <4>3 DEF Tracked
      <4> QED
        BY <4>2, <4>3
    <3>2. CASE /\ pos.open /\ pos'.open /\ pos.volume > work[w].volume
               /\ pos'.volume = pos.volume - work[w].volume
      <4>1. Tracked' = pos.volume - work[w].volume /\ Tracked = pos.volume /\ pos.volume \in Nat
        BY <1>2, <3>2, PosIs DEF Tracked
      <4> QED
        BY <1>4, <3>2, <4>1
    <3> QED
      BY <1>8, <3>1, <3>2
  <2>3. w \in Recording'
    BY <1>6, Somebody DEF Recording, Closers
  <2>4. Recording = {}
    <3>1. \A v \in Closers \ {w} : work[v] = Idle
      BY <1>2, <1>3, Peers, Somebody
    <3> QED
      BY <1>1, <3>1, IdleIs DEF Recording
  <2>5. CASE Owed <= Loose
    BY <1>15, <2>5 DEF Accounted
  <2>6. CASE Owed <= Tracked
    <3>1. Owed <= Tracked' + work[w].volume
      BY <1>4, <2>1, <2>2, <2>6
    <3>2. Owed' <= Tracked' + work'[w].volume
      BY <1>6, <1>15, <3>1
    <3> QED
      BY <2>3, <3>2 DEF Accounted
  <2> QED
    BY <2>4, <2>5, <2>6 DEF LedgerInv, Accounted
<1>22. RowsInv' /\ HeldInv'
  BY <1>1, SameKeeps
<1> QED
  BY <1>5, <1>11, <1>12, <1>13, <1>14, <1>16, <1>17, <1>20, <1>21, <1>22 DEF LedgerInv
-----------------------------------------------------------------------------
(* What booking a sale does. *)

\* The volume of one sale.
LEMMA OneSale == ASSUME Typed, NEW i \in DOMAIN fills PROVE VolumeOf({i}) = fills[i].volume
<1>1. fills[i].volume \in Nat
  BY SaleOf
<1>2. Measured(fills, {}) /\ i \notin {}
  BY FS_EmptySet DEF Measured
<1>3. Total(fills, {} \cup {i}) = fills[i].volume + Total(fills, {})
  BY <1>1, <1>2, TotalWith
<1>4. Total(fills, {}) = 0
  BY TotalOfNothing
<1>5. {} \cup {i} = {i}
  OBVIOUS
<1>6. Total(fills, {i}) = Total(fills, {} \cup {i})
  BY <1>5, Zenon
<1> QED
  BY <1>1, <1>3, <1>4, <1>6 DEF VolumeOf

\* What is taken off the open volume is no less than what is taken off the sales.
LEMMA LessOfBoth ==
  ASSUME NEW o \in Nat, NEW v \in Nat, NEW some \in Nat, some <= v, NEW l, NEW m \in Nat, l = m + some,
         NEW p, p = Less(o, v)
  PROVE  \A b \in Nat : o <= b + l => p <= b + m
BY DEF Less

\* What is covered by sales stays covered when one of them is booked.
LEMMA LessOfAll ==
  ASSUME NEW o \in Nat, NEW v \in Nat, NEW some \in Nat, some <= v, NEW l, NEW m \in Nat, l = m + some,
         NEW p, p = Less(o, v)
  PROVE  o <= l => p <= m
BY DEF Less

\* A trade of the last row, for no less than its sales.
LEMMA TradeKeeps ==
  ASSUME LedgerInv, Last # 0, NEW sales \in SUBSET Unbooked, NEW v \in Nat, VolumeOf(sales) <= v,
         trades' = Append(trades, NewTrade(Last, sales, v)), fills' = fills, orders' = orders,
         held' = held
  PROVE  /\ TradesTyped' /\ RowsTyped' /\ RowsInv' /\ HeldInv' /\ held' \in 0..Cap /\ fills' \in Seq(Sale)
         /\ Last' = Last /\ Rows' = Rows /\ Unbooked' = Unbooked \ sales
         /\ Loose \in Nat /\ Loose' \in Nat /\ Owed \in Nat /\ Owed' \in Nat /\ held \in Nat /\ Owed' <= Owed
         /\ \A b \in Nat : Owed <= b + Loose => Owed' <= b + Loose'
         /\ Owed <= Loose => Owed' <= Loose'
         /\ \A b \in Nat : Owed <= b + v => Owed' <= b
         /\ \A i : FillsOf(i)' = FillsOf(i)
<1>1. Typed /\ RowsTyped /\ TradesTyped /\ RowsInv /\ HeldInv /\ held \in Nat /\ held \in 0..Cap
      /\ fills \in Seq(Sale)
  BY RealAssumption DEF LedgerInv, Typed
<1>2. Last \in Rows /\ Owed = Remaining(Last)
  BY <1>1, LastIsRow DEF Owed
<1>3. /\ TradesTyped' /\ RowsTyped'
      /\ Unbooked' = Unbooked \ sales /\ Loose = Loose' + VolumeOf(sales) /\ Loose' \in Nat
      /\ BookedOnce => BookedOnce'
      /\ \A i \in Rows : Remaining(i)' = IF i = Last THEN Less(Remaining(i), v) ELSE Remaining(i)
      /\ Last' = Last /\ Rows' = Rows
      /\ Len(trades') = Len(trades) + 1 /\ trades'[Len(trades) + 1] = NewTrade(Last, sales, v)
      /\ DOMAIN trades' = DOMAIN trades \cup {Len(trades) + 1}
      /\ \A t \in DOMAIN trades : trades'[t] = trades[t]
  BY <1>1, <1>2, TradeIs
<1>4. Loose \in Nat /\ Owed \in Nat /\ VolumeOf(sales) \in Nat
  <2>1. Unbooked \in SUBSET DOMAIN fills
    BY <1>1, SalesAreMeasured
  <2> QED
    BY <1>1, <2>1, SalesAreMeasured, OwedIsNat
<1>5. Owed' = Less(Owed, v)
  BY <1>2, <1>3 DEF Owed
<1>6. /\ Owed' \in Nat /\ Owed' <= Owed
      /\ \A b \in Nat : Owed <= b + v => Owed' <= b
  BY <1>4, <1>5 DEF Less
<1>7a. \A b \in Nat : Owed <= b + Loose => Owed' <= b + Loose'
  BY <1>3, <1>4, <1>5, LessOfBoth
<1>7b. Owed <= Loose => Owed' <= Loose'
  BY <1>3, <1>4, <1>5, LessOfAll
<1>8. HeldInv'
  BY <1>1, <1>7a DEF HeldInv
<1>9. RowsInv'
  <2>1. \A i \in Rows' : i # Last' => Remaining(i)' = 0
    BY <1>1, <1>3 DEF RowsInv
  <2>2. ASSUME NEW t \in DOMAIN trades', trades'[t].order # Last
             PROVE  t \in DOMAIN trades /\ trades'[t] = trades[t]
    <3>1. NewTrade(Last, sales, v).order = Last
      BY DEF NewTrade
    <3> QED
      BY <1>3, <2>2, <3>1
  <2>3. \A t \in DOMAIN trades' : trades'[t].order # Last' =>
          \A i \in trades'[t].fills : i <= orders'[Last'].at
    BY <1>1, <1>3, <2>2 DEF RowsInv
  <2> QED
    BY <1>1, <1>3, <2>1, <2>3 DEF RowsInv
<1>10. \A i : FillsOf(i)' = FillsOf(i)
  BY DEF FillsOf
<1> QED
  BY <1>1, <1>3, <1>4, <1>6, <1>7a, <1>7b, <1>8, <1>9, <1>10

\* A position whose stop order was brought up to date, or left alone.
LEMMA RearmedPosition ==
  ASSUME PosTyped, pos.open, NEW id \in Nat, NEW vol \in Nat \ {0}, NEW g \in BOOLEAN,
         pos' = [pos EXCEPT !.stop = id, !.volume = vol, !.gone = g],
         Rows' = Rows, fills' = fills
  PROVE  /\ PosTyped' /\ pos'.open /\ pos'.stop = id /\ pos'.order = pos.order
         /\ pos'.since = pos.since /\ pos'.volume = vol /\ pos'.adopted = pos.adopted /\ Tracked' = vol
<1>1. pos \in AnyPosition /\ pos.order \in Rows /\ pos.since <= Len(fills)
  BY PosIs
<1>2. /\ pos' \in AnyPosition /\ pos'.open /\ pos'.stop = id /\ pos'.order = pos.order
      /\ pos'.since = pos.since /\ pos'.volume = vol /\ pos'.adopted = pos.adopted
  BY <1>1 DEF AnyPosition
<1>3. AnyPosition' = AnyPosition
  BY DEF AnyPosition
<1> QED
  BY <1>1, <1>2, <1>3 DEF PosTyped, Tracked
-----------------------------------------------------------------------------
(* A closing is recorded. *)

\* The position after a trade, its stop order as it was or brought up to date.
LEMMA TradedPosition ==
  ASSUME LedgerInv, pos.open, NEW volume \in Nat \ {0}, NEW v \in Nat,
         NEW o, o = Owed', NEW l \in Nat, l = Loose', NEW u, u = Unbooked', o \in Nat,
         o <= held + l, o <= volume + l,
         \A b \in Nat : Owed <= b + Loose => o <= b + l,
         Owed <= Loose => o <= l,
         \A i \in Unbooked : fills[i].stop # 0 => i \in u,
         NEW p \in Synced(pos.stop, volume) \cup {[stop |-> pos.stop, stops |-> stops]}
  PROVE  /\ p.stop \in Nat /\ IsFiniteSet(p.stops) /\ p.stops \subseteq StopOrder
         /\ FillsOf(p.stop) \subseteq u
         /\ FillsOf(p.stop) # {} => o <= l
         /\ \A s \in p.stops : s.id = p.stop => o <= s.volume + l
         /\ \A s \in p.stops : s.id # p.stop => s \in stops
<1>1. Typed /\ PosTyped /\ PositionInv /\ StopsTyped /\ held \in Nat
  BY RealAssumption DEF LedgerInv, Typed
<1>2. /\ FillsOf(pos.stop) \subseteq Unbooked
      /\ FillsOf(pos.stop) # {} => Owed <= Loose
      /\ \A s \in stops : s.id = pos.stop => Owed <= s.volume + Loose
      /\ pos.stop \in Nat
  BY <1>1, PosIs DEF PositionInv
<1>3. \A s \in stops : s.id = pos.stop => o <= s.volume + l
  BY <1>2, StopsAre
<1>4. FillsOf(pos.stop) \subseteq u
  <2>1. \A i \in FillsOf(pos.stop) : fills[i].stop # 0
    BY DEF FillsOf
  <2> QED
    BY <1>2, <2>1
<1>5. FillsOf(pos.stop) # {} => o <= l
  BY <1>2
<1>6. CASE p = [stop |-> pos.stop, stops |-> stops]
  BY <1>1, <1>2, <1>3, <1>4, <1>5, <1>6 DEF StopsTyped
<1>7. CASE p \in Synced(pos.stop, volume)
  <2>1. /\ IsFiniteSet(p.stops) /\ p.stops \subseteq StopOrder /\ p.stop \in Nat
        /\ p.stop = pos.stop \/ FillsOf(p.stop) = {}
        /\ \A s \in p.stops :
             IF s.id = p.stop THEN \/ s.volume \in {volume, held}
                                   \/ p.stop = pos.stop /\ s \in stops
             ELSE s \in stops /\ s.id # pos.stop
    BY <1>1, <1>7, SyncedIs
  <2>2. ASSUME NEW s \in p.stops, s.id = p.stop PROVE o <= s.volume + l
    <3>1. CASE s.volume = volume
      BY <3>1
    <3>2. CASE s.volume = held
      BY <3>2
    <3>3. CASE p.stop = pos.stop /\ s \in stops
      BY <1>3, <2>2, <3>3
    <3> QED
      BY <2>1, <2>2, <3>1, <3>2, <3>3
  <2>3. FillsOf(p.stop) \subseteq u /\ (FillsOf(p.stop) # {} => o <= l)
    BY <1>4, <1>5, <2>1
  <2> QED
    BY <2>1, <2>2, <2>3
<1> QED
  BY <1>6, <1>7

\* The sale of a closing is booked, and the rest of the position gets a stop order again.
LEMMA CloseRecordsKeeps == ASSUME LedgerInv, NEW w \in Closers, CloseRecords(w) PROVE LedgerInv'
<1> DEFINE partly == w = "loop" /\ bot.open /\ work[w].volume < bot.volume
           left == bot.volume - work[w].volume
           v == work[w].volume
           sale == work[w].fill
<1>1. /\ work[w].step = "record"
      /\ trades' = Append(trades, NewTrade(work[w].order, {sale}, v))
      /\ Finish(w)
      /\ bot' = (IF partly THEN [bot EXCEPT !.volume = left] ELSE IF w = "request" THEN bot ELSE None)
      /\ \/ /\ partly /\ pos.open
            /\ \E s \in Synced(pos.stop, left) :
                 pos' = [pos EXCEPT !.stop = s.stop] /\ stops' = s.stops
         \/ ~(partly /\ pos.open) /\ UNCHANGED <<pos, stops>>
      /\ held' = held /\ fills' = fills /\ wrong' = wrong /\ orders' = orders /\ events' = events
  BY DEF CloseRecords
<1>2. /\ Typed /\ WorkTyped /\ Paired /\ w \in Workers /\ PosTyped /\ BotTyped
      /\ PositionInv /\ Accounted /\ StopsTyped
  BY Somebody DEF LedgerInv, Typed
<1>3. work[w] \in CloseJob /\ w \in Busy /\ Selling(w)
  <2>1. Selling(w) /\ work[w].step # "idle"
    BY <1>1 DEF Selling
  <2> QED
    BY <1>2, <2>1, JobSteps DEF Busy
<1>4. v \in Nat \ {0}
  BY <1>3 DEF CloseJob
<1>5. /\ work[w].order = Last /\ Last # 0
      /\ sale \in Unbooked /\ fills[sale].stop = 0 /\ fills[sale].volume <= v
      /\ w = "loop" => (pos.open => bot.open /\ Tracked + v <= bot.volume)
  BY <1>1, <1>3 DEF LedgerInv, CloserInv
<1> HIDE DEF v, sale
<1>6. {sale} \in SUBSET Unbooked /\ VolumeOf({sale}) <= v
  <2>1. sale \in DOMAIN fills
    BY <1>2, <1>5, SalesAreMeasured
  <2> QED
    BY <1>2, <1>5, <2>1, OneSale
<1>7. /\ TradesTyped' /\ RowsTyped' /\ RowsInv' /\ HeldInv' /\ held' \in 0..Cap /\ fills' \in Seq(Sale)
      /\ Last' = Last /\ Rows' = Rows /\ Unbooked' = Unbooked \ {sale}
      /\ Loose \in Nat /\ Loose' \in Nat /\ Owed \in Nat /\ Owed' \in Nat /\ held \in Nat /\ Owed' <= Owed
      /\ \A b \in Nat : Owed <= b + Loose => Owed' <= b + Loose'
      /\ \A b \in Nat : Owed <= b + v => Owed' <= b
      /\ \A i : FillsOf(i)' = FillsOf(i)
  BY <1>1, <1>4, <1>5, <1>6, TradeKeeps
<1>8. Owed <= Loose => Owed' <= Loose'
  BY <1>1, <1>4, <1>5, <1>6, TradeKeeps
<1>9. /\ work'[w] = Idle /\ \A u \in Workers : u # w => work'[u] = work[u]
      /\ Paired' /\ WorkTyped'
  BY <1>1, <1>2, Finishes
<1>10. \A u \in Workers \ {w} : u # "watch" => work[u] = Idle
  BY <1>2, <1>3, Peers, Somebody
<1>11. w = "loop" => work["watch"] = Idle
  BY <1>2, <1>3, Peers, Somebody
<1>12. \A u \in Recording : u = w
  <2>1. \A u \in Closers \ {w} : work[u] = Idle
    BY <1>10, Somebody
  <2> QED
    BY <2>1, IdleIs DEF Recording
<1>13. Owed <= Loose \/ Owed <= Tracked + v
  <2>1. Tracked \in Nat
    BY <1>2, TrackedIsNat
  <2>2. Owed <= Tracked => Owed <= Tracked + v
    BY <1>4, <1>7, <2>1
  <2> QED
    BY <1>2, <1>12, <2>2 DEF Accounted, v
<1>14. Owed' <= Loose' \/ Owed' <= Tracked
  BY <1>2, <1>7, <1>8, <1>13, TrackedIsNat
<1>15. pos'.open <=> pos.open
  BY <1>1, <1>2, PosIs DEF AnyPosition
<1>16. partly => bot \in AnyCopy /\ bot.order \in Rows /\ left \in Nat \ {0} /\ bot.volume \in Nat
  BY <1>2, <1>4, BotIs DEF v
<1>17. BotTyped' /\ (bot'.open => bot.open /\ bot'.order = bot.order)
  <2>1. CASE partly
    <3>1. bot' = [bot EXCEPT !.volume = left]
      BY <1>1, <2>1
    <3> HIDE DEF left
    <3>2. bot' \in AnyCopy /\ bot'.order = bot.order
      BY <1>16, <2>1, <3>1 DEF AnyCopy
    <3> QED
      BY <1>7, <1>16, <2>1, <3>2 DEF BotTyped, AnyCopy
  <2>2. CASE ~partly
    <3>1. bot' = bot \/ bot' = None
      BY <1>1, <2>2
    <3> QED
      BY <1>2, <1>7, <3>1, BotStays DEF None
  <2> QED
    BY <2>1, <2>2
<1>18. /\ PosTyped' /\ StopsTyped' /\ PositionInv' /\ Tracked' = Tracked
  <2>0. /\ \A i \in Unbooked : fills[i].stop # 0 => i \in Unbooked'
    BY <1>5, <1>7
  <2>00. Owed' <= held + Loose'
    BY <1>1, <1>7 DEF HeldInv
  <2>1. CASE ~pos.open
    <3>1. pos' = pos /\ stops' = stops /\ pos = None
      BY <1>1, <1>2, <2>1 DEF PosTyped, AnyPosition
    <3> QED
      BY <1>2, <3>1, NoPositionThen DEF StopsTyped, StopOrder, Tracked
  <2>2. CASE pos.open
    <3>0. /\ pos.order = Last /\ pos.since = orders[Last].at /\ (bot.open => bot.order = Last)
          /\ pos \in AnyPosition /\ pos.volume \in Nat \ {0} /\ pos.gone \in BOOLEAN /\ Tracked = pos.volume
      BY <1>2, <2>2, PosIs DEF PositionInv, AnyPosition
    <3>0a. \E volume \in Nat \ {0} :
           \E p \in Synced(pos.stop, volume) \cup {[stop |-> pos.stop, stops |-> stops]} :
            /\ pos' = [pos EXCEPT !.stop = p.stop] /\ stops' = p.stops /\ Owed' <= volume + Loose'
      <4>1. CASE partly
        <5>1. PICK s \in Synced(pos.stop, left) : pos' = [pos EXCEPT !.stop = s.stop] /\ stops' = s.stops
          BY <1>1, <2>2, <4>1
        <5>2. Tracked <= left
          <6>1. Tracked + v <= bot.volume /\ Tracked \in Nat /\ bot.volume \in Nat
            BY <1>2, <1>5, <1>16, <2>2, <4>1, TrackedIsNat
          <6>2. left = bot.volume - v
            BY DEF v
          <6> QED
            BY <1>4, <6>1, <6>2
        <5> HIDE DEF left
        <5>3. left \in Nat \ {0} /\ Tracked \in Nat
          BY <1>2, <1>16, <4>1, TrackedIsNat
        <5>4. Owed' <= left + Loose'
          <6>1. \A o, l, t, x \in Nat : (o <= l \/ o <= t) /\ t <= x => o <= x + l
            OBVIOUS
          <6> QED
            BY <1>7, <1>14, <5>2, <5>3, <6>1
        <5> QED
          BY <5>1, <5>3, <5>4
      <4>2. CASE ~partly
        <5>1. pos' = pos /\ stops' = stops
          BY <1>1, <4>2
        <5> DEFINE p == [stop |-> pos.stop, stops |-> stops]
        <5>2. pos' = [pos EXCEPT !.stop = p.stop] /\ stops' = p.stops
          BY <3>0, <5>1 DEF AnyPosition
        <5>3. Owed' <= (Owed' + 1) + Loose' /\ Owed' + 1 \in Nat \ {0}
          <6>1. \A o, l \in Nat : o <= (o + 1) + l /\ o + 1 \in Nat \ {0}
            OBVIOUS
          <6> QED
            BY <1>7, <6>1
        <5> HIDE DEF p
        <5> QED
          BY <5>2, <5>3 DEF p
      <4> QED
        BY <4>1, <4>2
    <3>0b. PICK volume \in Nat \ {0} :
           \E p \in Synced(pos.stop, volume) \cup {[stop |-> pos.stop, stops |-> stops]} :
            /\ pos' = [pos EXCEPT !.stop = p.stop] /\ stops' = p.stops /\ Owed' <= volume + Loose'
      BY <3>0a
    <3>1. PICK p \in Synced(pos.stop, volume) \cup {[stop |-> pos.stop, stops |-> stops]} :
            /\ pos' = [pos EXCEPT !.stop = p.stop] /\ stops' = p.stops /\ Owed' <= volume + Loose'
      BY <3>0b
    <3>2. /\ p.stop \in Nat /\ IsFiniteSet(p.stops) /\ p.stops \subseteq StopOrder
          /\ FillsOf(p.stop) \subseteq Unbooked'
          /\ FillsOf(p.stop) # {} => Owed' <= Loose'
          /\ \A s \in p.stops : s.id = p.stop => Owed' <= s.volume + Loose'
      BY <1>4, <1>7, <1>8, <2>0, <2>00, <2>2, <3>1, TradedPosition, ZenonT(60)
    <3>3. pos' = [pos EXCEPT !.stop = p.stop, !.volume = pos.volume, !.gone = pos.gone]
      BY <3>0, <3>1 DEF AnyPosition
    <3>4. /\ PosTyped' /\ pos'.open /\ pos'.stop = p.stop /\ pos'.order = pos.order
          /\ pos'.since = pos.since /\ pos'.volume = pos.volume /\ Tracked' = pos.volume
      BY <1>1, <1>2, <1>7, <2>2, <3>0, <3>2, <3>3, RearmedPosition, ZenonT(60)
    <3>5. StopsTyped'
      BY <3>1, <3>2 DEF StopsTyped, StopOrder
    <3>6. PositionInv'
      BY <1>1, <1>7, <1>17, <3>0, <3>1, <3>2, <3>4 DEF PositionInv
    <3> QED
      BY <3>0, <3>4, <3>5, <3>6
  <2> QED
    BY <2>1, <2>2
<1>19. events' \subseteq {fills'[i].stop : i \in DOMAIN fills'} \ {0}
  BY <1>1, <1>2 DEF Typed
<1>20. Typed'
  BY <1>1, <1>2, <1>7, <1>9, <1>17, <1>18, <1>19 DEF Typed
<1>21. Accounted'
  BY <1>14, <1>18 DEF Accounted
<1>22. OpeningInv'
  <2>1. work'["opening"] = Idle
    BY <1>9, <1>10, Somebody
  <2> QED
    BY <2>1, OpeningOver
<1>23. \A u \in Closers : CloserInv(u)'
  <2>1. \A u \in Closers : work'[u] = Idle
    BY <1>9, <1>10, Somebody
  <2> QED
    BY <2>1, IdleThen
<1>24. SettlerInv("loop")'
  <2>1. work'["loop"] = Idle
    BY <1>9, <1>10, Somebody
  <2> QED
    BY <2>1, IdleThen
<1>25. SettlerInv("watch")'
  <2>1. \A i \in Unbooked : fills[i].stop # 0 => i \in Unbooked' /\ fills'[i] = fills[i]
    BY <1>1, <1>5, <1>7
  <2>2. work'["watch"] = work["watch"] /\ SettlerInv("watch")
    BY <1>9, Somebody DEF LedgerInv
  <2> QED
    BY <1>7, <1>8, <1>15, <2>1, <2>2, SettlerStays, Somebody
<1> QED
  BY <1>7, <1>9, <1>18, <1>20, <1>21, <1>22, <1>23, <1>24, <1>25, Somebody DEF LedgerInv
-----------------------------------------------------------------------------
(* Settling a sale found on the exchange. *)

\* A stop order is cancelled or not, without a new one.
LEMMA CancelledIs == ASSUME NEW id, stops' \in Cancelled(Without(id)) PROVE stops' \subseteq stops
BY DEF Cancelled, Without

\* A worker that settles: who is beside it.
LEMMA SettlerIs ==
  ASSUME LedgerInv, NEW w \in Settlers, Settling(w)
  PROVE  /\ w \in Workers /\ w \in Busy /\ work[w] \in SettleJob
         /\ work["opening"] = Idle
         /\ \A v \in Settlers \ {w} : work[v] = Idle
         /\ \A v \in Closers : v = "loop" \/ w = "loop" => v = w \/ work[v] = Idle
<1>1. WorkTyped /\ Paired /\ w \in Workers
  BY Somebody DEF LedgerInv, Typed
<1>2. work[w].step # "idle"
  BY DEF Settling
<1>3. w \in Busy /\ work[w] \in SettleJob
  BY <1>1, <1>2, JobSteps DEF Busy
<1>4. w = "loop" => \A v \in Workers : v # w => work[v] = Idle
  BY <1>1, <1>3, Peers
<1>5. w = "watch" => work["loop"] = Idle /\ work["opening"] = Idle
  BY <1>1, <1>3, Peers
<1> QED
  BY <1>1, <1>3, <1>4, <1>5, Somebody

\* A settling forgets the position.
LEMMA SettleForgetsKeeps == ASSUME LedgerInv, NEW w \in Settlers, SettleForgets(w) PROVE LedgerInv'
<1>1. /\ work[w].step = "drop" /\ pos' = None /\ stops' \subseteq stops
      /\ Continue(w, "book") /\ Same /\ wrong' = wrong /\ bot' = bot /\ events' = events
  <2>1. stops' \in Cancelled(Without(IF pos.open /\ pos.order = work[w].order THEN pos.stop
                                     ELSE work[w].stop))
    BY DEF SettleForgets
  <2>2. stops' \subseteq stops
    BY <2>1, CancelledIs
  <2> QED
    BY <2>2 DEF SettleForgets, Same, db
<1>2. /\ WorkTyped /\ Paired /\ BotTyped /\ Settling(w)
  BY <1>1 DEF LedgerInv, Typed, Settling
<1>3. /\ w \in Workers /\ w \in Busy /\ work[w] \in SettleJob
      /\ work["opening"] = Idle
      /\ \A v \in Settlers \ {w} : work[v] = Idle
      /\ \A v \in Closers : v = "loop" \/ w = "loop" => v = w \/ work[v] = Idle
  BY <1>2, SettlerIs
<1>4. /\ work' = [v \in Workers |-> work'[v]]
      /\ work'[w] = [work[w] EXCEPT !.step = "book"]
      /\ \A v \in Workers : v # w => work'[v] = work[v]
      /\ Busy' = Busy /\ Paired'
  BY <1>1, <1>2, <1>3, Continues DEF Busy
<1>5. /\ work'[w] \in SettleJob /\ work'[w].step = "book" /\ work'[w].fills = work[w].fills
      /\ work'[w].order = work[w].order
  BY <1>3, <1>4 DEF SettleJob
<1>6. WorkTyped'
  BY <1>2, <1>3, <1>4, <1>5, WorkChanges
<1>7. ~pos'.open /\ PositionInv' /\ PosTyped'
  BY <1>1, NoPositionThen
<1>8. /\ Last' = Last /\ Unbooked' = Unbooked /\ Owed' = Owed /\ Loose' = Loose /\ fills' = fills
      /\ RowsInv' /\ HeldInv' /\ Rows' = Rows
  BY <1>1, SameKeeps DEF Same
<1>9. OpeningInv'
  BY <1>3, <1>4, OpeningOver, Somebody
<1>10. \A v \in Settlers \ {w} : SettlerInv(v)'
  BY <1>3, <1>4, IdleThen, Somebody
<1>11. /\ work[w].order = Last /\ Last # 0 /\ work[w].fills \subseteq Unbooked
       /\ w = "watch" => \A i \in work[w].fills : fills[i].stop # 0
       /\ Owed <= Loose
  BY <1>2 DEF LedgerInv, SettlerInv
<1>12. SettlerInv(w)'
  BY <1>5, <1>7, <1>8, <1>11 DEF SettlerInv
<1>13. Accounted'
  BY <1>8, <1>11 DEF Accounted
<1>14. ASSUME NEW v \in Closers PROVE CloserInv(v)'
  <2>1. CASE v = w
    BY <1>5, <2>1 DEF CloserInv, Selling
  <2>2. CASE v # w /\ work[v] = Idle
    BY <1>4, <2>2, IdleThen, Somebody
  <2>3. CASE v # w /\ v # "loop"
    BY <1>1, <1>4, <1>7, <2>3, SameCloser, Somebody
  <2> QED
    BY <1>3, <2>1, <2>2, <2>3
<1>15. BotTyped' /\ StopsTyped'
  BY <1>1, <1>2, <1>8, BotStays, StopsStay
<1>16. Typed'
  BY <1>1, <1>6, <1>7, <1>15, SameKeeps, SameEvents DEF LedgerInv, Typed
<1> QED
  BY <1>4, <1>7, <1>8, <1>9, <1>10, <1>12, <1>13, <1>14, <1>16 DEF LedgerInv

\* A settling books its sales.
LEMMA SettleRecordsKeeps == ASSUME LedgerInv, NEW w \in Settlers, SettleRecords(w) PROVE LedgerInv'
<1> DEFINE sales == work[w].fills
           v == VolumeOf(sales)
<1>1. /\ work[w].step = "book" /\ trades' = Append(trades, NewTrade(work[w].order, sales, v))
      /\ Finish(w) /\ stops' = stops /\ pos' = pos
      /\ held' = held /\ fills' = fills /\ orders' = orders /\ wrong' = wrong /\ bot' = bot /\ events' = events
  BY DEF SettleRecords, exchange, memory
<1>2. /\ Typed /\ WorkTyped /\ Paired /\ BotTyped /\ PosTyped /\ StopsTyped /\ Settling(w)
  BY <1>1 DEF LedgerInv, Typed, Settling
<1>3. /\ w \in Workers /\ w \in Busy /\ work[w] \in SettleJob
      /\ work["opening"] = Idle
      /\ \A u \in Settlers \ {w} : work[u] = Idle
      /\ \A u \in Closers : u = "loop" \/ w = "loop" => u = w \/ work[u] = Idle
  BY <1>2, SettlerIs
<1>4. /\ work[w].order = Last /\ Last # 0 /\ sales \in SUBSET Unbooked
      /\ w = "watch" => \A i \in sales : fills[i].stop # 0
      /\ Owed <= Loose /\ ~pos.open
  BY <1>1, <1>2 DEF LedgerInv, SettlerInv
<1> HIDE DEF sales
<1>5. v \in Nat /\ VolumeOf(sales) <= v
  <2>1. sales \in SUBSET DOMAIN fills
    BY <1>2, <1>4, SalesAreMeasured
  <2>2. VolumeOf(sales) \in Nat
    BY <1>2, <2>1, SalesAreMeasured
  <2> QED
    BY <2>2
<1> HIDE DEF v
<1>6. /\ TradesTyped' /\ RowsTyped' /\ RowsInv' /\ HeldInv' /\ held' \in 0..Cap /\ fills' \in Seq(Sale)
      /\ Last' = Last /\ Rows' = Rows /\ Unbooked' = Unbooked \ sales
      /\ Owed <= Loose => Owed' <= Loose'
  BY <1>1, <1>4, <1>5, TradeKeeps
<1>7. /\ work'[w] = Idle /\ \A u \in Workers : u # w => work'[u] = work[u]
      /\ Paired' /\ WorkTyped'
  BY <1>1, <1>2, <1>3, Finishes
<1>8. OpeningInv'
  BY <1>3, <1>7, OpeningOver, Somebody
<1>9. \A u \in Settlers : SettlerInv(u)'
  BY <1>3, <1>7, IdleThen, Somebody
<1>10. ASSUME NEW u \in Closers PROVE CloserInv(u)'
  <2>1. CASE u = w
    BY <1>7, <2>1, IdleThen
  <2>2. CASE u # w /\ work[u] = Idle
    BY <1>7, <2>2, IdleThen, Somebody
  <2>3. CASE u # w /\ u # "loop" /\ w = "watch"
    <3>1. \A i \in Unbooked : fills[i].stop = 0 => i \in Unbooked' /\ fills'[i] = fills[i]
      BY <1>1, <1>4, <1>6, <2>3
    <3>2. work'[u] = work[u] /\ CloserInv(u)
      BY <1>7, <2>3, Somebody DEF LedgerInv
    <3> QED
      BY <1>1, <1>6, <2>3, <3>1, <3>2, CloserStays
  <2>4. w = "loop" \/ w = "watch"
    BY Somebody
  <2> QED
    BY <1>3, <2>1, <2>2, <2>3, <2>4
<1>11. pos' = None
  BY <1>1, <1>2, <1>4 DEF PosTyped, AnyPosition
<1>12. PosTyped' /\ PositionInv'
  BY <1>11, NoPositionThen
<1>13. BotTyped' /\ StopsTyped'
  BY <1>1, <1>2, <1>6, BotStays, StopsStay
<1>14. events' \subseteq {fills'[i].stop : i \in DOMAIN fills'} \ {0}
  BY <1>1, <1>2 DEF Typed
<1>15. Typed'
  BY <1>1, <1>2, <1>6, <1>7, <1>12, <1>13, <1>14 DEF Typed
<1>16. Accounted'
  BY <1>4, <1>6 DEF Accounted
<1> QED
  BY <1>6, <1>7, <1>8, <1>9, <1>10, <1>12, <1>15, <1>16 DEF LedgerInv
-----------------------------------------------------------------------------
(* The reconciliation looks at the exchange. *)

\* When nobody is at work.
LEMMA NobodyAtWork ==
  ASSUME \A w \in Workers : work'[w] = Idle
  PROVE  /\ Paired' /\ OpeningInv'
         /\ (\A w \in Closers : CloserInv(w)') /\ (\A w \in Settlers : SettlerInv(w)')
<1>1. Busy' = {}
  BY DEF Busy, Idle
<1> QED
  BY <1>1, IdleThen, OpeningOver, Somebody DEF Paired

\* When nobody but the watcher is.
LEMMA OnlyTheWatcher ==
  ASSUME LedgerInv, Busy \subseteq {"watch"}
  PROVE  /\ \A w \in Workers \ {"watch"} : work[w] = Idle
         /\ Recording = {} /\ (Owed <= Loose \/ Owed <= Tracked) /\ Owed <= Tracked + Loose
<1>1. \A w \in Workers \ {"watch"} : work[w] = Idle
  BY DEF Busy
<1>2. Recording = {}
  BY <1>1, IdleIs, Somebody DEF Recording
<1>3. Owed <= Loose \/ Owed <= Tracked
  BY <1>2 DEF LedgerInv, Accounted
<1>4. Owed \in Nat /\ Loose \in Nat /\ Tracked \in Nat
  BY OwedIsNat, SalesAreMeasured, TrackedIsNat DEF LedgerInv, Typed
<1> QED
  BY <1>1, <1>2, <1>3, <1>4

\* The position is looked at, and its stop order brought up to date or left alone.
LEMMA PositionKeeps ==
  ASSUME LedgerInv, Same, work' = work, Busy \subseteq {"watch"}, bot' = bot, events' = events,
         wrong' \in BOOLEAN, pos.open,
         NEW volume \in Nat \ {0}, Owed <= volume + Loose,
         NEW p \in Synced(pos.stop, volume) \cup {[stop |-> pos.stop, stops |-> stops]},
         NEW vol \in Nat \ {0}, pos.volume <= vol, NEW g \in BOOLEAN,
         pos' = [pos EXCEPT !.stop = p.stop, !.volume = vol, !.gone = g], stops' = p.stops
  PROVE  LedgerInv'
<1>1. /\ Typed /\ WorkTyped /\ Paired /\ PosTyped /\ BotTyped /\ PositionInv /\ StopsTyped
      /\ HeldInv /\ fills' = fills /\ orders' = orders
  BY DEF LedgerInv, Typed, Same
<1>2. /\ RowsInv' /\ HeldInv' /\ RowsTyped' /\ TradesTyped'
      /\ held' \in 0..Cap /\ fills' \in Seq(Sale)
      /\ Last' = Last /\ Rows' = Rows /\ Owed' = Owed /\ Loose' = Loose
      /\ Unbooked' = Unbooked /\ OpenOrders' = OpenOrders
      /\ \A i : FillsOf(i)' = FillsOf(i)
      /\ Owed \in Nat /\ Loose \in Nat /\ held \in Nat
  BY SameKeeps
<1>3. WorkTyped' /\ Paired' /\ Busy' = Busy
  BY <1>1, WorkStays
<1>4. /\ pos.order = Last /\ pos.since = orders[Last].at /\ (bot.open => bot.order = Last)
      /\ pos.volume \in Nat /\ Tracked = pos.volume
  BY <1>1, PosIs DEF PositionInv
<1>5. /\ p.stop \in Nat /\ IsFiniteSet(p.stops) /\ p.stops \subseteq StopOrder
      /\ FillsOf(p.stop) \subseteq Unbooked
      /\ FillsOf(p.stop) # {} => Owed <= Loose
      /\ \A s \in p.stops : s.id = p.stop => Owed <= s.volume + Loose
  <2>1. Owed <= held + Loose
    BY <1>1 DEF HeldInv
  <2>2. /\ \A b \in Nat : Owed <= b + Loose => Owed <= b + Loose
        /\ \A i \in Unbooked : fills[i].stop # 0 => i \in Unbooked
    OBVIOUS
  <2>3. Owed = Owed' /\ Loose = Loose' /\ Unbooked = Unbooked'
    BY <1>2
  <2>4. 0 \in Nat
    OBVIOUS
  <2> QED
    BY <1>2, <2>1, <2>2, <2>3, <2>4, TradedPosition
<1>6. /\ PosTyped' /\ pos'.open /\ pos'.stop = p.stop /\ pos'.order = pos.order
      /\ pos'.since = pos.since /\ pos'.volume = vol /\ Tracked' = vol
  BY <1>1, <1>2, <1>5, RearmedPosition
<1>7. StopsTyped'
  BY <1>5 DEF StopsTyped, StopOrder
<1>8. PositionInv'
  BY <1>1, <1>2, <1>4, <1>5, <1>6 DEF PositionInv
<1>9. BotTyped'
  BY <1>1, <1>2, BotStays
<1>10. Typed'
  BY <1>2, <1>3, <1>6, <1>7, <1>9, SameEvents DEF LedgerInv, Typed
<1>11. \A w \in Workers \ {"watch"} : work'[w] = Idle
  BY OnlyTheWatcher
<1>12. \A w \in Closers : CloserInv(w)'
  BY <1>11, IdleThen, Somebody
<1>13. \A w \in Settlers : SettlerInv(w)'
  BY SameSettler
<1>14. OpeningInv'
  BY <1>11, OpeningOver, Somebody
<1>15. Accounted'
  BY <1>2, <1>4, <1>6, OnlyTheWatcher DEF Accounted
<1> QED
  BY <1>2, <1>3, <1>8, <1>10, <1>12, <1>13, <1>14, <1>15 DEF LedgerInv

\* The stop order is moved.
LEMMA EditKeeps == ASSUME Apart, LedgerInv, Edit PROVE LedgerInv'
<1>1. PICK p \in Synced(pos.stop, pos.volume) : pos' = [pos EXCEPT !.stop = p.stop] /\ stops' = p.stops
  BY DEF Edit
<1>2. /\ Free("request") /\ pos.open /\ Same /\ wrong' = wrong /\ bot' = bot /\ work' = work /\ events' = events
  BY DEF Edit, Same, db
<1>3. Busy \subseteq {"watch"}
  <2>1. \A v \in Busy : Pair("request", v)
    BY <1>2, FreeWorker, Somebody
  <2> QED
    BY <2>1 DEF Pair
<1>4. pos \in AnyPosition /\ pos.volume \in Nat \ {0} /\ Tracked = pos.volume
  BY <1>2, PosIs DEF LedgerInv, Typed
<1>5. Owed <= pos.volume + Loose
  BY <1>3, <1>4, OnlyTheWatcher
<1>6. pos' = [pos EXCEPT !.stop = p.stop, !.volume = pos.volume, !.gone = pos.gone] /\ pos.gone \in BOOLEAN
  BY <1>1, <1>4 DEF AnyPosition
<1>7. wrong' \in BOOLEAN /\ pos.volume <= pos.volume
  BY <1>2, <1>4 DEF LedgerInv, Typed
<1> QED
  BY <1>1, <1>2, <1>3, <1>4, <1>5, <1>6, <1>7, PositionKeeps

\* When the exchange has answered, nobody is at work on an open position.
LEMMA AnsweredIs ==
  ASSUME Apart, NEW contracts, Answered(contracts)
  PROVE  Free("loop") /\ Busy = {} /\ pos.open /\ wrong' \in BOOLEAN
<1>1. Free("loop") /\ pos.open /\ wrong' = (contracts # held)
  BY DEF Answered
<1>2. Busy = {}
  BY <1>1, FreeAlone
<1> QED
  BY <1>1, <1>2

\* The exchange has more than is tracked,
LEMMA ReconcileGrowthKeeps == ASSUME Apart, LedgerInv, ReconcileGrowth PROVE LedgerInv'
<1>1. PICK p \in Synced(pos.stop, held) :
        pos' = [pos EXCEPT !.volume = held, !.stop = p.stop] /\ stops' = p.stops
  BY DEF ReconcileGrowth
<1>2. /\ Answered(held) /\ held > pos.volume /\ Same /\ bot' = bot /\ work' = work /\ events' = events
  BY DEF ReconcileGrowth, Same, db
<1>3. Busy \subseteq {"watch"} /\ pos.open /\ wrong' \in BOOLEAN
  BY <1>2, AnsweredIs
<1>4. pos \in AnyPosition /\ pos.volume \in Nat \ {0} /\ held \in Nat
  BY <1>3, PosIs, RealAssumption DEF LedgerInv, Typed
<1>5. Owed <= held + Loose /\ held \in Nat \ {0} /\ pos.volume <= held
  BY <1>2, <1>4 DEF LedgerInv, HeldInv
<1>6. pos' = [pos EXCEPT !.stop = p.stop, !.volume = held, !.gone = pos.gone] /\ pos.gone \in BOOLEAN
  BY <1>1, <1>4 DEF AnyPosition
<1> QED
  BY <1>1, <1>2, <1>3, <1>5, <1>6, PositionKeeps

\* What is only marked as gone, or as there again.
LEMMA MarkedKeeps ==
  ASSUME Apart, LedgerInv, NEW contracts, Answered(contracts), Same, stops' = stops, bot' = bot, work' = work,
         events' = events, NEW g \in BOOLEAN, pos' = [pos EXCEPT !.gone = g]
  PROVE  LedgerInv'
<1>1. Busy \subseteq {"watch"} /\ pos.open /\ wrong' \in BOOLEAN
  BY AnsweredIs
<1>2. pos \in AnyPosition /\ pos.volume \in Nat \ {0} /\ Tracked = pos.volume /\ pos.volume <= pos.volume
  BY <1>1, PosIs DEF LedgerInv, Typed
<1>3. Owed <= pos.volume + Loose
  BY <1>1, <1>2, OnlyTheWatcher
<1> DEFINE p == [stop |-> pos.stop, stops |-> stops]
<1>4. /\ pos' = [pos EXCEPT !.stop = p.stop, !.volume = pos.volume, !.gone = g]
      /\ stops' = p.stops /\ p \in Synced(pos.stop, pos.volume) \cup {[stop |-> pos.stop, stops |-> stops]}
  BY <1>2 DEF AnyPosition
<1> HIDE DEF p
<1> QED
  BY <1>1, <1>2, <1>3, <1>4, PositionKeeps

\* as much,
LEMMA ReconcileHeldKeeps == ASSUME Apart, LedgerInv, ReconcileHeld PROVE LedgerInv'
<1>1. Answered(held) /\ Same /\ stops' = stops /\ bot' = bot /\ work' = work /\ events' = events
      /\ pos' = [pos EXCEPT !.gone = FALSE]
  BY DEF ReconcileHeld, Same, exchange, db
<1> QED
  BY <1>1, MarkedKeeps

\* nothing, for the first time,
LEMMA ReconcileSuspectsKeeps == ASSUME Apart, LedgerInv, ReconcileSuspects PROVE LedgerInv'
<1>1. Answered(0) /\ Same /\ stops' = stops /\ bot' = bot /\ work' = work /\ events' = events
      /\ pos' = [pos EXCEPT !.gone = TRUE]
  BY DEF ReconcileSuspects, Same, exchange, db
<1> QED
  BY <1>1, MarkedKeeps

\* or nothing, and the sales cannot be read.
LEMMA ReconcilePostponesKeeps == ASSUME Apart, LedgerInv, ReconcilePostpones PROVE LedgerInv'
<1>1. Answered(0) /\ Same /\ stops' = stops /\ bot' = bot /\ work' = work /\ events' = events
      /\ pos' = [pos EXCEPT !.gone = FALSE]
  BY DEF ReconcilePostpones, Same, exchange, db
<1> QED
  BY <1>1, MarkedKeeps
-----------------------------------------------------------------------------
(* It settles, or the watcher does. *)

\* The position is marked as missing or found again.
LEMMA MarkedPosition ==
  ASSUME PosTyped, pos.open, NEW g \in BOOLEAN, pos' = [pos EXCEPT !.gone = g],
         Rows' = Rows, fills' = fills
  PROVE  /\ PosTyped' /\ pos'.open /\ pos'.stop = pos.stop /\ pos'.order = pos.order
         /\ pos'.since = pos.since /\ Tracked' = pos.volume
<1>1. pos \in AnyPosition /\ pos.order \in Rows /\ pos.since <= Len(fills)
  BY PosIs
<1>2. /\ pos' \in AnyPosition /\ pos'.open /\ pos'.stop = pos.stop /\ pos'.order = pos.order
      /\ pos'.since = pos.since /\ pos'.volume = pos.volume
  BY <1>1 DEF AnyPosition
<1>3. AnyPosition' = AnyPosition
  BY DEF AnyPosition
<1> QED
  BY <1>1, <1>2, <1>3 DEF PosTyped, Tracked

\* Something is found to settle: nobody has booked it, and it covers what the row has open.
LEMMA SettleBegins ==
  ASSUME Apart, LedgerInv, NEW w \in Settlers, NEW sales \in SUBSET Unbooked, pos.open, Settle(w, sales),
         Same, stops' = stops, wrong' \in BOOLEAN, bot' = bot, events' \subseteq events,
         NEW g \in BOOLEAN, pos' = [pos EXCEPT !.gone = g], w = "watch" => pos' = pos,
         Owed <= Loose, w = "watch" => \A i \in sales : fills[i].stop # 0
  PROVE  LedgerInv'
<1> DEFINE job == [step |-> "drop", order |-> pos.order, stop |-> pos.stop, fills |-> sales]
<1>1. /\ Typed /\ WorkTyped /\ Paired /\ PosTyped /\ BotTyped /\ PositionInv /\ StopsTyped
      /\ w \in Workers /\ fills' = fills /\ orders' = orders
  BY Somebody DEF LedgerInv, Typed, Same
<1>2. /\ pos \in AnyPosition /\ pos.order = Last /\ pos.stop \in Nat /\ Last \in Nat /\ Last # 0
      /\ pos.volume \in Nat \ {0} /\ Tracked = pos.volume
  BY <1>1, PosIs, CloserOrders
<1>3. Start(w, job)
  BY DEF Settle
<1>4. sales \in SUBSET Nat
  BY <1>1, SalesAreMeasured, SaleOf
<1>5. job # Idle /\ job.step = "drop" /\ job.order = Last /\ job.fills = sales /\ job \in SettleJob
  BY <1>2, <1>4 DEF Idle, SettleJob
<1> HIDE DEF job
<1>6. /\ work' = [v \in Workers |-> work'[v]]
      /\ work'[w] = job /\ \A v \in Workers : v # w => work'[v] = work[v]
      /\ Paired' /\ Free(w)
  BY <1>1, <1>3, <1>5, Starts
<1>7. WorkTyped'
  BY <1>1, <1>5, <1>6, WorkChanges
<1>8. \A v \in Workers : work[v] # Idle => Pair(w, v)
  BY <1>1, <1>6, FreeWorker DEF Busy
<1>9. \A v \in Workers \ {w} : w # "watch" \/ v \in {"opening", "loop"} => work'[v] = Idle
  BY <1>6, <1>8, Somebody DEF Pair
<1>10. /\ RowsInv' /\ HeldInv' /\ RowsTyped' /\ TradesTyped'
       /\ Last' = Last /\ Rows' = Rows /\ Owed' = Owed /\ Loose' = Loose
       /\ Unbooked' = Unbooked /\ \A i : FillsOf(i)' = FillsOf(i)
  BY SameKeeps
<1>11. /\ PosTyped' /\ pos'.open /\ pos'.stop = pos.stop /\ pos'.order = pos.order
       /\ pos'.since = pos.since /\ Tracked' = pos.volume
  <2>1. PosTyped /\ Rows' = Rows /\ fills' = fills
    BY <1>1, <1>10
  <2> QED
    BY <2>1, MarkedPosition
<1>12. PositionInv'
  BY <1>1, <1>10, <1>11 DEF PositionInv
<1>13. ASSUME NEW v \in Closers PROVE CloserInv(v)'
  <2>1. CASE v = w
    BY <1>5, <1>6, <2>1 DEF CloserInv, Selling
  <2>2. CASE v # w /\ (w # "watch" \/ v = "loop")
    BY <1>9, <2>2, IdleThen, Somebody
  <2>3. CASE v # w /\ w = "watch" /\ v # "loop"
    BY <1>6, <2>3, SameCloser, Somebody
  <2> QED
    BY <2>1, <2>2, <2>3
<1>14. ASSUME NEW v \in Settlers PROVE SettlerInv(v)'
  <2>1. CASE v = w
    <3>1. work'[v].order = Last' /\ Last' # 0 /\ work'[v].fills \subseteq Unbooked'
      BY <1>2, <1>5, <1>6, <1>10, <2>1
    <3>2. v = "watch" => \A i \in work'[v].fills : fills'[i].stop # 0
      BY <1>1, <1>5, <1>6, <2>1
    <3>3. work'[v].step # "book"
      BY <1>5, <1>6, <2>1
    <3>4. Owed' <= Loose'
      BY <1>10
    <3> QED
      BY <3>1, <3>2, <3>3, <3>4 DEF SettlerInv
  <2>2. CASE v # w
    <3>1. v = "loop" \/ w # "watch"
      BY <2>2, Somebody
    <3>2. work'[v] = Idle
      BY <1>9, <2>2, <3>1, Somebody
    <3> QED
      BY <3>2, IdleThen
  <2> QED
    BY <2>1, <2>2
<1>15. OpeningInv'
  BY <1>9, OpeningOver, Somebody
<1>16. Accounted'
  BY <1>10 DEF Accounted
<1>17. BotTyped' /\ StopsTyped'
  BY <1>1, <1>10, BotStays, StopsStay
<1>18. Typed'
  BY <1>7, <1>11, <1>17, SameKeeps, SameEvents DEF LedgerInv, Typed
<1> QED
  BY <1>6, <1>10, <1>12, <1>13, <1>14, <1>15, <1>16, <1>18 DEF LedgerInv

\* A report that is about nothing tracked.
LEMMA HeardIsOver ==
  ASSUME LedgerInv, Same, work' = work, pos' = pos, bot' = bot, stops' = stops, wrong' = wrong,
         events' \subseteq events
  PROVE  LedgerInv'
<1>1. WorkTyped /\ Paired /\ BotTyped
  BY DEF LedgerInv, Typed
<1>2. WorkTyped' /\ Paired'
  BY <1>1, WorkStays
<1>3. RowsInv' /\ HeldInv' /\ Rows' = Rows
  BY SameKeeps
<1>4. PositionInv' /\ PosTyped' /\ StopsTyped' /\ BotTyped'
  BY <1>1, <1>3, SamePosition, PosStays, StopsStay, BotStays
<1>5. OpeningInv' /\ (\A w \in Closers : CloserInv(w)') /\ (\A w \in Settlers : SettlerInv(w)')
  BY SameOpening, SameCloser, SameSettler
<1>6. Typed'
  BY <1>2, <1>4, SameKeeps, SameEvents DEF LedgerInv, Typed
<1>7. Accounted'
  <2>1. Tracked' = Tracked /\ Tracked \in Nat
    BY TrackedIsNat DEF Tracked, LedgerInv, Typed
  <2>2. Tracked <= Tracked' /\ Tracked' \in Nat
    BY <2>1
  <2> QED
    BY <2>2, SameAccounted
<1> QED
  BY <1>2, <1>3, <1>4, <1>5, <1>6, <1>7 DEF LedgerInv

\* watch_orders tells that a stop order was executed.
LEMMA WatcherHearsKeeps == ASSUME Apart, LedgerInv, WatcherHears PROVE LedgerInv'
<1>1. PICK id \in events :
        /\ events' = events \ {id}
        /\ (pos.open /\ pos.stop = id /\ Settle("watch", FillsOf(id))) \/ work' = work
  BY DEF WatcherHears
<1>2. Same /\ stops' = stops /\ wrong' = wrong /\ pos' = pos /\ bot' = bot /\ events' \subseteq events
  BY <1>1 DEF WatcherHears, Same, exchange, db, memory
<1>3. CASE work' = work
  BY <1>2, <1>3, HeardIsOver
<1>4. CASE pos.open /\ pos.stop = id /\ Settle("watch", FillsOf(id))
  <2>1. id # 0 /\ \E i \in DOMAIN fills : fills[i].stop = id
    BY DEF LedgerInv, Typed
  <2>2. FillsOf(id) # {} /\ \A i \in FillsOf(id) : fills[i].stop # 0
    BY <2>1 DEF FillsOf
  <2>3. FillsOf(id) \in SUBSET Unbooked /\ Owed <= Loose
    BY <1>4, <2>2 DEF LedgerInv, PositionInv
  <2>4. pos.gone \in BOOLEAN /\ pos' = [pos EXCEPT !.gone = pos.gone] /\ wrong' \in BOOLEAN
    <3>1. pos \in AnyPosition
      BY <1>4, PosIs DEF LedgerInv, Typed
    <3> QED
      BY <1>2, <3>1 DEF AnyPosition, LedgerInv, Typed
  <2> QED
    BY <1>2, <1>4, <2>2, <2>3, <2>4, SettleBegins, Somebody
<1> QED
  BY <1>1, <1>3, <1>4

\* A set of numbers up to n has a greatest element.
LEMMA GreatestOf ==
  ASSUME NEW n \in Nat, NEW S \in SUBSET (0..n), S # {}
  PROVE  Max(S) \in S /\ \A x \in S : x <= Max(S)
<1> DEFINE T == {n - x : x \in S}
<1>1. \A x \in S : x \in Nat /\ x <= n /\ n - x \in Nat
  OBVIOUS
<1>2. T \in SUBSET Nat /\ T # {}
  BY <1>1
<1>3. \A x \in S : n - x \in T
  OBVIOUS
<1>4. \A y \in T : \E x \in S : y = n - x
  OBVIOUS
<1> HIDE DEF T
<1>5. PICK y \in T : \A z \in T : y <= z
  BY <1>2, LeastOf
<1>6. PICK x \in S : y = n - x
  BY <1>4
<1>7. \A z \in S : z <= x
  <2> SUFFICES ASSUME NEW z \in S PROVE z <= x
    OBVIOUS
  <2>1. n - x <= n - z
    BY <1>3, <1>5, <1>6
  <2> QED
    BY <1>1, <2>1
<1>8. \A z \in S : x >= z
  BY <1>1, <1>7
<1>9. Max(S) \in S /\ \A z \in S : Max(S) >= z
  BY <1>8 DEF Max
<1> QED
  BY <1>1, <1>9

\* What the history finds is what nobody has booked.
LEMMA HistoryIsUnbooked ==
  ASSUME LedgerInv, pos.open PROVE HistoryOf(pos) \subseteq Unbooked
<1> DEFINE ats == {pos.since} \cup {trades[i].at : i \in TradesOf(pos.order)}
<1>1. /\ Typed /\ TradesTyped /\ pos.order = Last /\ pos.since = orders[Last].at
      /\ pos.since \in Nat /\ pos.since <= Len(fills) /\ Len(fills) \in Nat
  BY PosIs DEF LedgerInv, Typed, PositionInv
<1>2. ats \in SUBSET (0..Len(fills)) /\ pos.since \in ats
  <2>1. \A t \in TradesOf(pos.order) : trades[t].at \in Nat /\ trades[t].at <= Len(fills)
    BY <1>1, BookingIs DEF TradesOf
  <2> QED
    BY <1>1, <2>1
<1> HIDE DEF ats
<1>3. pos.since <= Max(ats) /\ Max(ats) \in Nat
  <2>1. Len(fills) \in Nat /\ ats # {}
    BY <1>1, <1>2
  <2>2. Max(ats) \in ats /\ \A x \in ats : x <= Max(ats)
    BY <1>2, <2>1, GreatestOf
  <2>3. \A x \in ats : x \in Nat
    BY <1>2, <2>1
  <2> QED
    BY <1>2, <2>2, <2>3, Zenon
<1> SUFFICES ASSUME NEW i \in HistoryOf(pos) PROVE i \in Unbooked
  OBVIOUS
<1>4. /\ i \in DOMAIN fills /\ i > Max(ats)
      /\ \A t \in TradesOf(pos.order) : i \notin trades[t].fills
  BY DEF HistoryOf, ats
<1>5. i \in Nat
  BY <1>1, <1>4, SaleOf
<1>6. ~(i <= orders[Last].at)
  BY <1>1, <1>3, <1>4, <1>5
<1>7. ASSUME NEW t \in DOMAIN trades PROVE i \notin trades[t].fills
  <2>1. CASE trades[t].order = Last
    BY <1>1, <1>4, <2>1 DEF TradesOf
  <2>2. CASE trades[t].order # Last
    BY <1>6, <2>2 DEF LedgerInv, RowsInv
  <2> QED
    BY <2>1, <2>2
<1> QED
  BY <1>4, <1>7 DEF Unbooked

\* The position is gone: what was sold since is booked.
LEMMA ReconcileSettlesKeeps == ASSUME Apart, LedgerInv, ReconcileSettles PROVE LedgerInv'
<1>1. /\ Answered(0) /\ Same /\ stops' = stops /\ bot' = bot /\ events' = events
      /\ pos' = [pos EXCEPT !.gone = FALSE]
      /\ \/ FillsOf(pos.stop) # {} /\ Settle("loop", FillsOf(pos.stop))
         \/ /\ HistoryOf(pos) # {} /\ VolumeOf(HistoryOf(pos)) = pos.volume
            /\ Settle("loop", HistoryOf(pos))
  BY DEF ReconcileSettles, Same, exchange, db
<1>2. Busy \subseteq {"watch"} /\ pos.open /\ wrong' \in BOOLEAN
  BY <1>1, AnsweredIs
<1>3. CASE FillsOf(pos.stop) # {} /\ Settle("loop", FillsOf(pos.stop))
  <2>1. FillsOf(pos.stop) \in SUBSET Unbooked /\ Owed <= Loose
    BY <1>2, <1>3 DEF LedgerInv, PositionInv
  <2> QED
    BY <1>1, <1>2, <1>3, <2>1, SettleBegins, Somebody
<1>4. CASE VolumeOf(HistoryOf(pos)) = pos.volume /\ Settle("loop", HistoryOf(pos))
  <2>1. HistoryOf(pos) \in SUBSET Unbooked
    BY <1>2, HistoryIsUnbooked
  <2>2. Measured(fills, Unbooked)
    BY SalesAreMeasured DEF LedgerInv
  <2>3. /\ Total(fills, Unbooked) = Total(fills, HistoryOf(pos)) + Total(fills, Unbooked \ HistoryOf(pos))
        /\ Total(fills, HistoryOf(pos)) \in Nat /\ Total(fills, Unbooked \ HistoryOf(pos)) \in Nat
    BY <2>1, <2>2, TotalSplit
  <2>4. Loose = Total(fills, Unbooked) /\ Total(fills, HistoryOf(pos)) = Tracked
    <3>1. Tracked = pos.volume
      BY <1>2 DEF Tracked
    <3> QED
      BY <1>4, <3>1 DEF Loose, VolumeOf
  <2>5. Tracked <= Loose /\ Tracked \in Nat /\ Loose \in Nat /\ Owed \in Nat
    <3>1. \A a, b, c \in Nat : a = b + c => b <= a
      OBVIOUS
    <3>2. Loose \in Nat /\ Owed \in Nat
      BY SalesAreMeasured, OwedIsNat DEF LedgerInv, Typed
    <3> QED
      BY <2>3, <2>4, <3>1, <3>2
  <2>6. Owed <= Loose
    BY <1>2, <2>5, OnlyTheWatcher
  <2> QED
    BY <1>1, <1>2, <1>4, <2>1, <2>6, SettleBegins, Somebody
<1> QED
  BY <1>1, <1>3, <1>4
-----------------------------------------------------------------------------
(* Positions written off, opened and adopted. *)

\* The position is gone and was never sold: its row is rejected.
LEMMA ReconcileWritesOffKeeps == ASSUME Apart, LedgerInv, ReconcileWritesOff PROVE LedgerInv'
<1>1. /\ Answered(0) /\ pos' = None /\ stops' \subseteq stops /\ orders' = Rejected(pos.order)
      /\ held' = held /\ fills' = fills /\ trades' = trades /\ bot' = bot /\ work' = work /\ events' = events
  BY CancelledIs DEF ReconcileWritesOff
<1>2. Busy = {} /\ pos.open /\ wrong' \in BOOLEAN
  BY <1>1, AnsweredIs
<1>3. /\ Typed /\ WorkTyped /\ Paired /\ BotTyped /\ RowsInv
      /\ pos.order = Last /\ Last \in Rows /\ Last # 0 /\ Loose \in Nat /\ held \in Nat
  BY <1>2, CloserOrders, SalesAreMeasured, RealAssumption DEF LedgerInv, Typed
<1>4. /\ RowsTyped' /\ TradesTyped' /\ Last' = Last /\ Rows' = Rows
      /\ \A i \in Rows : Remaining(i)' = IF i = Last THEN 0 ELSE Remaining(i)
      /\ \A i \in Rows : orders'[i].at = orders[i].at
      /\ Unbooked' = Unbooked /\ Loose' = Loose
      /\ BookedOnce => BookedOnce'
  BY <1>1, <1>3, RowRejectedIs
<1>5. Owed' = 0
  BY <1>3, <1>4 DEF Owed
<1>6. PosTyped' /\ PositionInv'
  BY <1>1, NoPositionThen
<1>7. RowsInv'
  BY <1>1, <1>3, <1>4 DEF RowsInv
<1>8. HeldInv' /\ Accounted'
  <2>1. Owed' <= Loose' /\ Owed' <= held' + Loose'
    BY <1>1, <1>3, <1>4, <1>5
  <2> QED
    BY <2>1 DEF HeldInv, Accounted
<1>9. WorkTyped' /\ BotTyped' /\ StopsTyped'
  BY <1>1, <1>3, <1>4, WorkStays, BotStays, StopsStay
<1>10. events' \subseteq {fills'[i].stop : i \in DOMAIN fills'} \ {0}
  BY <1>1, <1>3 DEF Typed
<1>11. held' \in 0..Cap /\ fills' \in Seq(Sale)
  BY <1>1, <1>3 DEF Typed
<1>12. Typed'
  BY <1>2, <1>4, <1>6, <1>9, <1>10, <1>11 DEF Typed, Sale
<1>13. \A w \in Workers : work'[w] = Idle
  BY <1>1, <1>2 DEF Busy
<1> QED
  BY <1>6, <1>7, <1>8, <1>12, <1>13, NobodyAtWork DEF LedgerInv

\* A new row, and the position that is tracked for it.
RowMade(n, v) ==
  /\ RowsTyped' /\ TradesTyped' /\ RowsInv' /\ Last' = n /\ n \in Rows' /\ n \in Nat /\ Owed' = v
  /\ orders'[n].at = Len(fills) /\ Unbooked' = Unbooked /\ Loose' = Loose

\* A row is written after the others were settled or rejected.
LEMMA RowIsMade ==
  ASSUME LedgerInv, NEW o, NEW v \in 1..Cap, NEW n, n = Last + 1,
         NEW base, base = (IF o \in Rows THEN Rejected(o) ELSE orders), orders' = Append(base, NewOrder(v)),
         \A i \in Rows : i # o => Remaining(i) = 0, fills' = fills, trades' = trades
  PROVE  RowMade(n, v)
<1>1. /\ Typed /\ RowsInv /\ TradesTyped /\ Len(fills) \in Nat /\ Last \in Nat /\ n \in Nat
  BY LastIsRow DEF LedgerInv, Typed
<1>2. /\ RowsTyped' /\ TradesTyped'
      /\ Last' = n /\ Rows' = Rows \cup {n} /\ n \notin Rows
      /\ Owed' = v /\ Remaining(n)' = v
      /\ \A i \in Rows : Remaining(i)' = IF i = o THEN 0 ELSE Remaining(i)
      /\ orders'[n].at = Len(fills)
      /\ Unbooked' = Unbooked /\ Loose' = Loose
      /\ BookedOnce => BookedOnce'
  BY <1>1, RowMadeIs
<1>3. \A i \in Rows' : i # Last' => Remaining(i)' = 0
  BY <1>2
<1>4. \A t \in DOMAIN trades' : \A i \in trades'[t].fills : i <= orders'[Last'].at
  <2>1. \A t \in DOMAIN trades : trades[t].fills \subseteq DOMAIN fills
    BY <1>1, BookingIs
  <2>2. \A i \in DOMAIN fills : i <= Len(fills)
    BY <1>1, SaleOf
  <2> QED
    BY <1>2, <2>1, <2>2
<1>5. RowsInv'
  BY <1>1, <1>2, <1>3, <1>4 DEF RowsInv
<1> QED
  BY <1>1, <1>2, <1>5 DEF RowMade

\* A position is opened over a row just written.
LEMMA OpenedKeeps ==
  ASSUME LedgerInv, NEW v \in 1..Cap, NEW n, RowMade(n, v), v <= held + Loose,
         NEW rest \in SUBSET stops, NEW p \in Placed(rest), stops' = p.stops,
         pos' \in AnyPosition, pos'.order = n, pos'.since = Len(fills), pos'.volume = v, pos'.stop = p.stop,
         bot' = None \/ (bot' \in AnyCopy /\ bot'.order = n),
         held' = held, fills' = fills, wrong' = wrong, events' = events,
         WorkTyped', \A w \in Workers : work'[w] = Idle
  PROVE  LedgerInv'
<1>1. /\ Typed /\ Loose \in Nat /\ held \in Nat /\ v \in Nat \ {0} /\ Len(fills) \in Nat
  BY SalesAreMeasured, RealAssumption DEF LedgerInv, Typed
<1>2. /\ RowsTyped' /\ TradesTyped' /\ RowsInv' /\ Last' = n /\ n \in Rows' /\ n \in Nat /\ Owed' = v
      /\ orders'[n].at = Len(fills) /\ Unbooked' = Unbooked /\ Loose' = Loose
  BY DEF RowMade
<1>3. /\ IsFiniteSet(p.stops) /\ p.stops \subseteq StopOrder /\ p.stop \in Nat
      /\ FillsOf(p.stop) = {}
      /\ \A s \in p.stops : IF s.id = p.stop THEN s.volume = held ELSE s \in rest
  BY <1>1, PlacedIs
<1>4. HeldInv'
  BY <1>2 DEF HeldInv
<1>5. pos'.since <= Len(fills')
  BY <1>1
<1>6. PosTyped'
  BY <1>2, <1>5 DEF PosTyped, AnyPosition
<1>7. bot'.open => bot'.order = n
  BY DEF None
<1>8. BotTyped'
  BY <1>2 DEF BotTyped, None, AnyCopy
<1>9. PositionInv'
  <2>1. FillsOf(pos.stop)' = {}
    BY <1>3 DEF FillsOf
  <2>2. \A s \in stops' : s.id = pos'.stop => Owed' <= s.volume + Loose'
    BY <1>2, <1>3
  <2> QED
    BY <1>2, <1>7, <2>1, <2>2 DEF PositionInv
<1>10. StopsTyped'
  BY <1>3 DEF StopsTyped, StopOrder
<1>11. events' \subseteq {fills'[i].stop : i \in DOMAIN fills'} \ {0}
  BY <1>1 DEF Typed
<1>12. held' \in 0..Cap /\ wrong' \in BOOLEAN /\ fills' \in Seq(Sale)
  BY <1>1 DEF Typed
<1>13. Typed'
  BY <1>2, <1>6, <1>8, <1>10, <1>11, <1>12 DEF Typed, Sale
<1>14. Accounted'
  <2>1. Tracked' = v
    BY DEF Tracked, AnyPosition
  <2>2. Owed' <= Tracked'
    BY <1>1, <1>2, <2>1
  <2> QED
    BY <2>2 DEF Accounted
<1> QED
  BY <1>2, <1>4, <1>9, <1>13, <1>14, NobodyAtWork DEF LedgerInv

\* A position found on the exchange is adopted.
LEMMA AdoptKeeps == ASSUME Apart, Mild, LedgerInv, Adopt PROVE LedgerInv'
<1> DEFINE n == Last + 1
<1>1. PICK p \in Placed(stops) :
        /\ pos' = [NewPosition(held, n, TRUE) EXCEPT !.stop = p.stop] /\ stops' = p.stops
  BY DEF Adopt, Last
<1>2. /\ Free("loop") /\ ~pos.open /\ held > 0 /\ ~bot.open
      /\ OpenOrders = {} /\ orders' = Append(orders, NewOrder(held))
      /\ held' = held /\ fills' = fills /\ wrong' = wrong /\ trades' = trades /\ bot' = bot /\ work' = work
      /\ events' = events
  BY DEF Adopt, Mild, NoOtherRow
<1>3. Busy = {}
  BY <1>2, FreeAlone
<1>4. /\ Typed /\ WorkTyped /\ Paired /\ RowsTyped /\ TradesTyped /\ held \in 0..Cap
      /\ Loose \in Nat /\ bot = None /\ held \in Nat
  <2>1. Typed /\ Paired
    BY DEF LedgerInv
  <2>2. Loose \in Nat /\ held \in Nat
    BY <2>1, SalesAreMeasured, RealAssumption DEF Typed
  <2>3. bot = None
    BY <1>2, <2>1 DEF Typed, BotTyped, AnyCopy
  <2> QED
    BY <2>1, <2>2, <2>3 DEF Typed
<1>5. held \in 1..Cap /\ held <= held + Loose
  BY <1>2, <1>4
<1>6. 0 \notin Rows
  BY <1>4, LastIsRow
<1>7. \A i \in Rows : Remaining(i) = 0
  <2>1. \A i \in Rows : ~(Remaining(i) > 0)
    BY <1>2 DEF OpenOrders, Rows
  <2> QED
    BY <1>4, <2>1, RemainingIsNat
<1>8. WorkTyped' /\ \A w \in Workers : work'[w] = Idle
  <2>1. \A w \in Workers : work'[w] = Idle
    BY <1>2, <1>3 DEF Busy
  <2> QED
    BY <1>2, <1>4, <2>1, WorkStays
<1> HIDE DEF n
<1>9. RowMade(n, held)
  <2>1. \A i \in Rows : i # 0 => Remaining(i) = 0
    BY <1>7
  <2>2. orders = IF 0 \in Rows THEN Rejected(0) ELSE orders
    BY <1>6
  <2>3. n = Last + 1
    BY DEF n
  <2> QED
    BY <1>2, <1>5, <2>1, <2>2, <2>3, RowIsMade
<1>10. p.stop \in Nat /\ n \in Nat /\ held \in Nat \ {0} /\ Len(fills) \in Nat
  <2>1. p.stop \in Nat
    BY <1>4, PlacedIs
  <2>2. n \in Nat
    BY <1>9 DEF RowMade
  <2> QED
    BY <1>2, <1>4, <2>1, <2>2 DEF Typed
<1>11. /\ pos' \in AnyPosition /\ pos'.order = n /\ pos'.since = Len(fills) /\ pos'.volume = held
       /\ pos'.stop = p.stop
  BY <1>1, <1>10 DEF NewPosition, AnyPosition
<1>12. bot' = None
  BY <1>2, <1>4
<1> QED
  BY <1>1, <1>2, <1>5, <1>8, <1>9, <1>11, <1>12, OpenedKeeps

\* An opening order is filled: the position is booked, and an adopted one written off.
LEMMA OpenConfirmedKeeps ==
  ASSUME Apart, LedgerInv, NEW volume \in 1..Lot, OpenConfirmed(volume) PROVE LedgerInv'
<1> DEFINE superseded == pos.open /\ pos.adopted
           n == Last + 1
           o == IF superseded THEN pos.order ELSE 0
           base == IF superseded THEN Rejected(pos.order) ELSE orders
           new == NewPosition(volume, n, FALSE)
<1>1. /\ work["opening"].step = "sent" /\ work["opening"].bought >= volume
      /\ orders' = Append(base, NewOrder(volume))
      /\ \E rest \in IF superseded THEN Cancelled(Without(pos.stop)) ELSE {stops} :
         \E placed \in Placed(rest) : pos' = [new EXCEPT !.stop = placed.stop] /\ stops' = placed.stops
      /\ bot' = Copy(new)
      /\ Finish("opening")
      /\ held' = held /\ fills' = fills /\ wrong' = wrong /\ trades' = trades /\ events' = events
  BY DEF OpenConfirmed, Last
<1>2. /\ Typed /\ WorkTyped /\ Paired /\ PosTyped /\ RowsTyped /\ TradesTyped /\ OpeningInv
      /\ Loose \in Nat /\ held \in Nat /\ Last \in Nat
  BY SalesAreMeasured, LastIsRow, RealAssumption DEF LedgerInv, Typed
<1>3. "opening" \in Busy /\ work["opening"] \in OpenJob /\ work["opening"] # Idle
  <2>1. work["opening"].step # "idle"
    BY <1>1
  <2> QED
    BY <1>1, <1>2, <2>1, JobSteps, Somebody DEF Busy
<1>4. /\ OpenOrders \subseteq IF superseded THEN {pos.order} ELSE {}
      /\ work["opening"].bought <= held + Loose
  BY <1>2, <1>3 DEF OpeningInv
<1>5. superseded => pos.order \in Rows
  BY <1>2, PosIs
<1>6. 0 \notin Rows
  BY <1>2, LastIsRow
<1>7. /\ base = (IF o \in Rows THEN Rejected(o) ELSE orders)
      /\ \A i \in Rows : i # o => i \notin OpenOrders
  BY <1>4, <1>5, <1>6
<1>8. \A i \in Rows : i # o => Remaining(i) = 0
  <2>1. \A i \in Rows : i \notin OpenOrders => ~(Remaining(i) > 0)
    BY DEF OpenOrders, Rows
  <2> QED
    BY <1>2, <1>7, <2>1, RemainingIsNat
<1>9. volume \in 1..Cap /\ volume <= held + Loose
  <2>1. volume \in Nat /\ work["opening"].bought \in Nat
    BY <1>3, RealAssumption DEF OpenJob
  <2> QED
    BY <1>1, <1>2, <1>4, <2>1, RealAssumption
<1>10. PICK rest \in SUBSET stops :
         \E placed \in Placed(rest) : pos' = [new EXCEPT !.stop = placed.stop] /\ stops' = placed.stops
  <2>1. \A rest \in Cancelled(Without(pos.stop)) \cup {stops} : rest \in SUBSET stops
    BY DEF Cancelled, Without
  <2> QED
    BY <1>1, <2>1
<1>11. PICK p \in Placed(rest) : pos' = [new EXCEPT !.stop = p.stop] /\ stops' = p.stops
  BY <1>10
<1>12. bot' = [open |-> TRUE, volume |-> volume, order |-> n]
  BY <1>1 DEF Copy, NewPosition
<1>13. /\ work'["opening"] = Idle /\ \A v \in Workers : v # "opening" => work'[v] = work[v]
       /\ WorkTyped'
  BY <1>1, <1>2, Finishes, Somebody
<1>14. \A w \in Workers : work'[w] = Idle
  <2>1. \A v \in Workers : v # "opening" => work[v] = Idle
    BY <1>2, <1>3, Peers
  <2> QED
    BY <1>13, <2>1
<1> HIDE DEF superseded, o, base
<1>15. RowMade(n, volume)
  <2>1. n = Last + 1
    OBVIOUS
  <2> HIDE DEF n
  <2> QED
    BY <1>1, <1>7, <1>8, <1>9, <2>1, RowIsMade
<1> HIDE DEF n
<1>16. p.stop \in Nat /\ n \in Nat /\ volume \in Nat \ {0} /\ Len(fills) \in Nat
  <2>1. p.stop \in Nat
    BY <1>2, PlacedIs
  <2>2. n \in Nat
    BY <1>15 DEF RowMade
  <2> QED
    BY <1>2, <2>1, <2>2 DEF Typed
<1>17. /\ pos' \in AnyPosition /\ pos'.order = n /\ pos'.since = Len(fills) /\ pos'.volume = volume
       /\ pos'.stop = p.stop
  BY <1>11, <1>16 DEF NewPosition, AnyPosition
<1>18. bot' \in AnyCopy /\ bot'.order = n
  BY <1>12, <1>16 DEF AnyCopy
<1> QED
  BY <1>1, <1>9, <1>11, <1>13, <1>14, <1>15, <1>17, <1>18, OpenedKeeps
-----------------------------------------------------------------------------
(* A restart. *)

\* What a restart finds.
LEMMA RestoredIs ==
  ASSUME LedgerInv
  PROVE  /\ DbVolume = Owed /\ Owed \in Nat
         /\ OpenOrders = {} => Restored = None /\ Owed = 0
         /\ OpenOrders # {} =>
              /\ Owed # 0 /\ Last \in Rows /\ Last # 0
              /\ Restored = [open |-> TRUE, volume |-> Owed, order |-> Last, stop |-> 0,
                             since |-> orders[Last].at, gone |-> FALSE, adopted |-> FALSE]
<1>1. TradesTyped /\ RowsTyped /\ \A i \in Rows : i # Last => Remaining(i) = 0
  BY DEF LedgerInv, Typed, RowsInv
<1>2. DbVolume = Owed /\ OpenOrders = (IF Owed = 0 THEN {} ELSE {Last})
  BY <1>1, DbVolumeIs
<1>3. Owed \in Nat /\ Last \in Nat
  BY <1>1, OwedIsNat, LastIsRow
<1>4. CASE Owed = 0
  <2>1. OpenOrders = {}
    BY <1>2, <1>4
  <2> QED
    BY <1>2, <1>3, <1>4, <2>1 DEF Restored
<1>5. CASE Owed # 0
  <2>1. OpenOrders = {Last}
    BY <1>2, <1>5
  <2>2. Max({Last}) = Last /\ Min({Last}) = Last
    BY <1>3 DEF Max, Min
  <2>3. Last # 0 /\ Last \in Rows
    BY <1>1, <1>5, LastIsRow DEF Owed
  <2>4. Restored = [open |-> TRUE, volume |-> DbVolume, order |-> Max({Last}), stop |-> 0,
                    since |-> orders[Min({Last})].at, gone |-> FALSE, adopted |-> FALSE]
    BY <2>1 DEF Restored
  <2> QED
    BY <1>2, <1>3, <1>5, <2>1, <2>2, <2>3, <2>4
<1> QED
  BY <1>4, <1>5

\* What a restart leaves.
LEMMA RestartIs ==
  ASSUME LedgerInv, Restart
  PROVE  /\ Same /\ events' = {} /\ wrong' = FALSE /\ (\A w \in Workers : work'[w] = Idle) /\ WorkTyped'
         /\ OpenOrders = {} => pos' = None /\ bot' = None /\ stops' = stops /\ Owed = 0
         /\ OpenOrders # {} =>
              /\ Last \in Rows /\ Last # 0 /\ Owed \in Nat \ {0}
              /\ bot' \in AnyCopy /\ bot'.order = Last
              /\ \E rest \in Cancelled({}) : \E p \in Placed(rest) :
                   /\ stops' = p.stops /\ pos' \in AnyPosition /\ pos'.stop = p.stop
                   /\ pos'.order = Last /\ pos'.since = orders[Last].at /\ pos'.volume = Owed
<1>1. /\ Typed /\ RowsTyped
  BY DEF LedgerInv, Typed
<1>2. PICK placed \in Rearmed :
        /\ pos' = (IF Restored.open THEN [Restored EXCEPT !.stop = placed.stop] ELSE None)
        /\ stops' = placed.stops
  BY DEF Restart
<1>3. /\ Same /\ events' = {} /\ wrong' = FALSE /\ bot' = Copy(Restored)
      /\ work' = [w \in Workers |-> Idle]
  BY DEF Restart, Same, db
<1>4. (\A w \in Workers : work'[w] = Idle) /\ WorkTyped'
  <2>1. Workers' = Workers /\ Idle' = Idle
    BY DEF Workers, Idle
  <2> QED
    BY <1>3, <2>1 DEF WorkTyped
<1>5. CASE OpenOrders = {}
  <2>1. Restored = None /\ Owed = 0 /\ ~Restored.open
    BY <1>5, RestoredIs DEF None
  <2>2. placed = [stop |-> 0, stops |-> stops]
    BY <2>1 DEF Rearmed
  <2>3. pos' = None /\ stops' = stops
    BY <1>2, <2>1, <2>2
  <2>4. bot' = None
    BY <1>3, <2>1 DEF Copy
  <2> QED
    BY <1>3, <1>4, <1>5, <2>1, <2>3, <2>4
<1>6. CASE OpenOrders # {}
  <2>1. /\ Last \in Rows /\ Last # 0 /\ Owed \in Nat \ {0}
        /\ Restored = [open |-> TRUE, volume |-> Owed, order |-> Last, stop |-> 0,
                       since |-> orders[Last].at, gone |-> FALSE, adopted |-> FALSE]
    BY <1>6, RestoredIs
  <2>2. Restored.open
    BY <2>1
  <2>3. PICK rest \in Cancelled({}) : placed \in Placed(rest)
    BY <2>2 DEF Rearmed
  <2>4. orders[Last].at \in Nat /\ Last \in Nat
    BY <1>1, <2>1, RowIs, LastIsRow
  <2>5. placed.stop \in Nat
    <3>1. rest \in SUBSET stops
      BY DEF Cancelled
    <3> QED
      BY <1>1, <2>3, <3>1, PlacedIs
  <2>6. /\ pos' \in AnyPosition /\ pos'.stop = placed.stop /\ pos'.order = Last
        /\ pos'.since = orders[Last].at /\ pos'.volume = Owed
    BY <1>2, <2>1, <2>4, <2>5 DEF AnyPosition
  <2>7. bot' = [open |-> TRUE, volume |-> Owed, order |-> Last]
    BY <1>3, <2>1 DEF Copy
  <2>8. bot' \in AnyCopy /\ bot'.order = Last
    BY <2>1, <2>4, <2>7 DEF AnyCopy
  <2> QED
    BY <1>2, <1>3, <1>4, <1>6, <2>1, <2>3, <2>6, <2>8
<1> QED
  BY <1>5, <1>6

\* The process restarts: what is open is read from the rows.
LEMMA RestartKeeps == ASSUME LedgerInv, Restart PROVE LedgerInv'
<1>1. /\ Same /\ events' = {} /\ wrong' = FALSE /\ (\A w \in Workers : work'[w] = Idle) /\ WorkTyped'
      /\ OpenOrders = {} => pos' = None /\ bot' = None /\ stops' = stops /\ Owed = 0
      /\ OpenOrders # {} =>
              /\ Last \in Rows /\ Last # 0 /\ Owed \in Nat \ {0}
              /\ bot' \in AnyCopy /\ bot'.order = Last
              /\ \E rest \in Cancelled({}) : \E p \in Placed(rest) :
                   /\ stops' = p.stops /\ pos' \in AnyPosition /\ pos'.stop = p.stop
                   /\ pos'.order = Last /\ pos'.since = orders[Last].at /\ pos'.volume = Owed
  BY RestartIs
<1>2. /\ RowsInv' /\ HeldInv' /\ RowsTyped' /\ TradesTyped'
      /\ held' \in 0..Cap /\ fills' \in Seq(Sale)
      /\ Last' = Last /\ Rows' = Rows /\ Owed' = Owed /\ Loose' = Loose
      /\ Unbooked' = Unbooked /\ \A i : FillsOf(i)' = FillsOf(i)
      /\ Owed \in Nat /\ Loose \in Nat /\ held \in Nat
  BY <1>1, SameKeeps
<1>3. /\ Typed /\ RowsTyped /\ BotTyped /\ HeldInv /\ fills' = fills /\ orders' = orders
  BY <1>1 DEF LedgerInv, Typed, Same
<1>4. PosTyped' /\ BotTyped' /\ StopsTyped' /\ PositionInv' /\ (Owed <= Loose \/ Owed <= Tracked')
  <2>1. CASE OpenOrders = {}
    <3>1. pos' = None /\ bot' = None /\ stops' \subseteq stops /\ Owed = 0
      BY <1>1, <2>1
    <3> QED
      BY <1>2, <1>3, <3>1, NoPositionThen, BotStays, StopsStay
  <2>2. CASE OpenOrders # {}
    <3>1. /\ Last \in Rows /\ Last # 0 /\ bot' \in AnyCopy /\ bot'.order = Last
      BY <1>1, <2>2
    <3>2. PICK rest \in Cancelled({}) : \E p \in Placed(rest) :
                   /\ stops' = p.stops /\ pos' \in AnyPosition /\ pos'.stop = p.stop
                   /\ pos'.order = Last /\ pos'.since = orders[Last].at /\ pos'.volume = Owed
      BY <1>1, <2>2
    <3>3. PICK p \in Placed(rest) :
                   /\ stops' = p.stops /\ pos' \in AnyPosition /\ pos'.stop = p.stop
                   /\ pos'.order = Last /\ pos'.since = orders[Last].at /\ pos'.volume = Owed
      BY <3>2
    <3>4. rest \in SUBSET stops
      BY DEF Cancelled
    <3>5. /\ IsFiniteSet(p.stops) /\ p.stops \subseteq StopOrder /\ p.stop \in Nat
          /\ FillsOf(p.stop) = {}
          /\ \A s \in p.stops : IF s.id = p.stop THEN s.volume = held ELSE s \in rest
      BY <1>3, <3>4, PlacedIs
    <3>6. orders[Last].at <= Len(fills)
      BY <1>3, <3>1, RowIs
    <3>7. PosTyped'
      BY <1>2, <1>3, <3>1, <3>3, <3>6 DEF PosTyped, AnyPosition
    <3>8. BotTyped'
      BY <1>2, <3>1 DEF BotTyped, AnyCopy
    <3>9. StopsTyped'
      BY <3>3, <3>5 DEF StopsTyped, StopOrder
    <3>10. PositionInv'
      <4>1. FillsOf(pos.stop)' = {}
        BY <1>3, <3>3, <3>5 DEF FillsOf
      <4>2. \A s \in stops' : s.id = pos'.stop => Owed' <= s.volume + Loose'
        BY <1>2, <1>3, <3>3, <3>5 DEF HeldInv
      <4> QED
        BY <1>2, <1>3, <3>1, <3>3, <4>1, <4>2 DEF PositionInv
    <3>11. Tracked' = Owed
      BY <3>3 DEF Tracked, AnyPosition
    <3>12. Owed <= Tracked'
      BY <1>2, <3>11
    <3> QED
      BY <3>7, <3>8, <3>9, <3>10, <3>12
  <2> QED
    BY <2>1, <2>2
<1>5. events' \subseteq {fills'[i].stop : i \in DOMAIN fills'} \ {0}
  BY <1>1
<1>6. Typed'
  BY <1>1, <1>2, <1>4, <1>5 DEF Typed, Sale
<1>7. Accounted'
  BY <1>2, <1>4 DEF Accounted
<1> QED
  BY <1>1, <1>2, <1>4, <1>6, <1>7, NobodyAtWork DEF LedgerInv
-----------------------------------------------------------------------------
(* The theorems about states. *)

\* The first state.
LEMMA LedgerBegins == ASSUME Init PROVE LedgerInv
<1>1. /\ held = 0 /\ stops = {} /\ fills = <<>> /\ wrong = FALSE
      /\ orders = <<>> /\ trades = <<>> /\ pos = None /\ bot = None
      /\ work = [w \in Workers |-> Idle] /\ events = {}
  BY DEF Init
<1>2. \A w \in Workers : work[w] = Idle
  BY <1>1
<1>3. Busy = {} /\ Paired
  BY <1>2 DEF Busy, Paired
<1>4. WorkTyped
  BY <1>1 DEF WorkTyped
<1>5. /\ StopsTyped /\ PosTyped /\ BotTyped
  BY <1>1, FS_EmptySet DEF StopsTyped, PosTyped, BotTyped
<1>6. Last = 0 /\ Rows = {} /\ Owed = 0 /\ RowsTyped /\ TradesTyped
  BY <1>1 DEF Last, Rows, Owed, RowsTyped, TradesTyped
<1>7. Typed
  <2>1. 0 \in 0..Cap
    BY RealAssumption
  <2>2. fills \in Seq(Sale)
    BY <1>1
  <2>3. events \subseteq {fills[i].stop : i \in DOMAIN fills} \ {0}
    BY <1>1
  <2> QED
    BY <1>1, <1>4, <1>5, <1>6, <2>1, <2>2, <2>3 DEF Typed
<1>8. RowsInv
  BY <1>1, <1>6 DEF RowsInv, BookedOnce
<1>9. PositionInv
  BY <1>1 DEF PositionInv, None
<1>10. HeldInv /\ Accounted
  <2>1. Loose \in Nat /\ held = 0
    BY <1>1, <1>7, SalesAreMeasured
  <2> QED
    BY <1>6, <2>1 DEF HeldInv, Accounted
<1>11. OpeningInv /\ (\A w \in Closers : CloserInv(w)) /\ (\A w \in Settlers : SettlerInv(w))
  BY <1>2, IdleIs, Somebody DEF OpeningInv
<1> QED
  BY <1>3, <1>7, <1>8, <1>9, <1>10, <1>11 DEF LedgerInv

\* A buy fills in part at least.
LEMMA FilledVolume == ASSUME NEW least \in {1, Lot}, NEW volume \in least..Lot PROVE volume \in 1..Lot
BY RealAssumption

\* Every step.
LEMMA LedgerStays == ASSUME Apart, Mild, LedgerInv, [Next]_vars PROVE LedgerInv'
<1>1. CASE StopExecuted
  BY <1>1, StopExecutedKeeps
<1>2. CASE OwnerBuys
  BY <1>2, OwnerBuysKeeps
<1>3. CASE OwnerSells
  BY <1>3, OwnerSellsKeeps
<1>4. CASE OpenSend
  BY <1>4, OpenSendKeeps
<1>5. CASE OpenUnconfirmed
  BY <1>5, OpenUnconfirmedKeeps
<1>6. ASSUME NEW volume \in (IF "partial confirmation" \in Mishaps THEN 1 ELSE Lot)..Lot,
             OpenConfirmed(volume)
      PROVE  LedgerInv'
  <2>1. (IF "partial confirmation" \in Mishaps THEN 1 ELSE Lot) \in {1, Lot}
    BY Zenon
  <2>2. volume \in 1..Lot
    BY <2>1, FilledVolume, Zenon
  <2> QED
    BY <1>6, <2>2, OpenConfirmedKeeps, Zenon
<1>7. CASE LoopCloses \/ ChannelCloses \/ RequestCloses
  BY <1>7, LoopClosesKeeps, ChannelClosesKeeps, RequestClosesKeeps
<1>8. ASSUME NEW w \in {"loop", "channel", "request"},
             CloseFails(w) \/ CloseSells(w) \/ CloseForgets(w) \/ CloseRecords(w)
      PROVE  LedgerInv'
  BY <1>8, CloseFailsKeeps, CloseSellsKeeps, CloseForgetsKeeps, CloseRecordsKeeps, Somebody
<1>9. CASE LoopForgets
  BY <1>9, LoopForgetsKeeps
<1>10. CASE Edit
  BY <1>10, EditKeeps
<1>11. CASE WatcherHears
  BY <1>11, WatcherHearsKeeps
<1>12. ASSUME NEW w \in {"loop", "watch"}, SettleForgets(w) \/ SettleRecords(w) PROVE LedgerInv'
  BY <1>12, SettleForgetsKeeps, SettleRecordsKeeps, Somebody
<1>13. CASE ReconcileGrowth
  BY <1>13, ReconcileGrowthKeeps
<1>14. CASE ReconcileHeld \/ ReconcileSuspects \/ ReconcilePostpones
  BY <1>14, ReconcileHeldKeeps, ReconcileSuspectsKeeps, ReconcilePostponesKeeps
<1>15. CASE ReconcileSettles
  BY <1>15, ReconcileSettlesKeeps
<1>16. CASE ReconcileWritesOff
  BY <1>16, ReconcileWritesOffKeeps
<1>17. CASE Adopt
  BY <1>17, AdoptKeeps
<1>18. CASE Restart
  BY <1>18, RestartKeeps
<1>19. CASE UNCHANGED vars
  <2>1. Same /\ work' = work /\ pos' = pos /\ bot' = bot /\ stops' = stops /\ wrong' = wrong
        /\ events' \subseteq events
    BY <1>19 DEF vars, exchange, db, memory, Same
  <2> QED
    BY <2>1, HeardIsOver
<1> QED
  BY <1>1, <1>2, <1>3, <1>4, <1>5, <1>6, <1>7, <1>8, <1>9, <1>10, <1>11, <1>12, <1>13, <1>14, <1>15,
     <1>16, <1>17, <1>18, <1>19 DEF Next

\* What is held, booked and tracked fits together in every state, as long as only the watcher works
\* beside another (Apart) and none of the mishaps left out happens (Mild).
THEOREM LedgerHolds == ASSUME Apart, Mild PROVE Spec => []LedgerInv
<1>1. Init => LedgerInv
  BY LedgerBegins
<1>2. LedgerInv /\ [Next]_vars => LedgerInv'
  BY LedgerStays
<1> QED
  BY <1>1, <1>2, PTL DEF Spec

\* No sale on the exchange is booked as two trades: whatever closes a position - the trading loop, a
\* message of the channel, a request, a stop order the watcher hears of or one the reconciliation finds
\* executed -, whatever the exchange answers and wherever the process stops.
THEOREM SalesAreBookedOnce == ASSUME Apart, Mild PROVE Spec => []BookedOnce
<1>1. LedgerInv => BookedOnce
  BY DEF LedgerInv, RowsInv
<1> QED
  BY <1>1, LedgerHolds, PTL

\* When nobody is at work, what the rows say is open is tracked or was sold by sales not yet booked:
\* nothing is written off or forgotten in the memory alone.
THEOREM OpenRowsAreCovered == ASSUME Apart, Mild PROVE Spec => []LedgerCovered
<1>1. LedgerInv => LedgerCovered
  <2> SUFFICES ASSUME LedgerInv, Busy = {} PROVE DbVolume <= Tracked + VolumeOf(Unbooked)
    BY DEF LedgerCovered
  <2>1. Owed <= Tracked + Loose
    BY OnlyTheWatcher
  <2>2. DbVolume = Owed
    BY RestoredIs
  <2> QED
    BY <2>1, <2>2 DEF Loose
<1> QED
  BY <1>1, LedgerHolds, PTL

\* What a worker does is one of the model's jobs.
LEMMA JobsAreTyped == ASSUME LedgerInv, NEW w \in Workers PROVE work[w] \in Job
<1>1. Typed /\ WorkTyped /\ RowsTyped /\ Last \in Nat /\ (Last # 0 => Last \in Rows)
  BY LastIsRow DEF LedgerInv, Typed
<1>2. Unbooked \subseteq DOMAIN fills
  BY DEF Unbooked
<1>3. CASE work[w] = Idle
  BY <1>3 DEF Job
<1>4. CASE work[w] \in OpenJob
  BY <1>4 DEF Job, OpenJob
<1>5. CASE w \in Closers /\ work[w] \in CloseJob
  <2>1. Selling(w) /\ CloserInv(w)
    BY <1>5 DEF Selling, CloseJob, LedgerInv
  <2>2. /\ work[w].order \in DOMAIN orders /\ work[w].fill \in {0} \cup DOMAIN fills
    BY <1>1, <1>2, <1>5, <2>1 DEF CloserInv, CloseJob, Rows
  <2> QED
    BY <1>5, <2>2 DEF Job, CloseJob
<1>6. CASE w \in Settlers /\ work[w] \in SettleJob
  <2>1. Settling(w) /\ SettlerInv(w)
    BY <1>6 DEF Settling, SettleJob, LedgerInv
  <2>2. /\ work[w].order \in DOMAIN orders /\ work[w].fills \subseteq DOMAIN fills
    BY <1>1, <1>2, <2>1 DEF SettlerInv, Rows
  <2> QED
    BY <1>6, <2>2 DEF Job, SettleJob
<1> QED
  BY <1>1, <1>3, <1>4, <1>5, <1>6 DEF WorkTyped

\* The state stays within its type, for any lot, cap and number of rows, sales and stop orders.
THEOREM TypesHold == ASSUME Apart, Mild PROVE Spec => []TypeOK
<1>1. LedgerInv => TypeOK
  <2> SUFFICES ASSUME LedgerInv PROVE TypeOK
    OBVIOUS
  <2>1. Typed /\ RowsTyped /\ TradesTyped /\ PosTyped /\ BotTyped /\ Len(fills) \in Nat
    BY DEF LedgerInv, Typed
  <2>2. \A s \in stops : {s.id, s.volume} \subseteq Nat \ {0}
    BY StopsAre
  <2>3. \A i \in DOMAIN fills : fills[i].volume \in 1..Cap /\ fills[i].stop \in Nat
    BY <2>1, SaleOf
  <2>4. \A i \in DOMAIN orders :
          orders[i].volume \in 1..Cap /\ orders[i].filled \in BOOLEAN /\ orders[i].at \in 0..Len(fills)
    BY <2>1, RowIs DEF Rows
  <2>5. \A i \in DOMAIN trades :
          /\ trades[i].order \in DOMAIN orders /\ trades[i].fills \subseteq DOMAIN fills
          /\ trades[i].volume \in Nat /\ trades[i].at \in 0..Len(fills)
    BY <2>1, BookingIs DEF Rows
  <2>6. pos.open => /\ pos.order \in DOMAIN orders /\ pos.since \in 0..Len(fills)
                    /\ pos.volume \in Nat \ {0} /\ pos.stop \in Nat
    BY <2>1, PosIs DEF Rows
  <2>7. bot.open => bot.order \in DOMAIN orders /\ bot.volume \in Nat \ {0}
    BY <2>1, BotIs DEF Rows
  <2>8. \A w \in Workers : work[w] \in Job
    BY JobsAreTyped
  <2>9. held \in 0..Cap /\ wrong \in BOOLEAN /\ events \subseteq {fills[i].stop : i \in DOMAIN fills}
    BY <2>1 DEF Typed
  <2> QED
    BY <2>2, <2>3, <2>4, <2>5, <2>6, <2>7, <2>8, <2>9 DEF TypeOK
<1> QED
  BY <1>1, LedgerHolds, PTL
-----------------------------------------------------------------------------
(* No stop order is left behind. *)

\* Nothing about the stop orders has changed, or there are fewer.
LEMMA FewerStops ==
  ASSUME stops' \subseteq stops, pos.open => pos'.open /\ pos'.stop = pos.stop
  PROVE  Stray' \subseteq Stray
BY DEF Stray

\* The position is not tracked any more, and its stop order is gone.
LEMMA StopIsGone ==
  ASSUME stops' \subseteq stops, pos.open => \A s \in stops' : s.id # pos.stop
  PROVE  Stray' \subseteq Stray
BY DEF Stray

\* Another stop order took the place of the one that was.
LEMMA StopIsReplaced ==
  ASSUME NEW p, stops' = p.stops, pos'.open, pos'.stop = p.stop,
         \A s \in p.stops : s.id # p.stop => s \in stops /\ (pos.open => s.id # pos.stop)
  PROVE  Stray' \subseteq Stray
BY DEF Stray

\* A stop order brought up to date replaces the position's own,
LEMMA SyncLeavesNone ==
  ASSUME LedgerInv, pos.open, NEW volume \in Nat \ {0}, NEW p \in Synced(pos.stop, volume),
         stops' = p.stops, pos'.open, pos'.stop = p.stop
  PROVE  Stray' \subseteq Stray
<1>1. \A s \in p.stops :
        IF s.id = p.stop THEN \/ s.volume \in {volume, held}
                              \/ p.stop = pos.stop /\ s \in stops
        ELSE s \in stops /\ s.id # pos.stop
  BY SyncedIs DEF LedgerInv
<1> QED
  BY <1>1, StopIsReplaced

\* an opening leaves no stop order but that of what it has replaced,
LEMMA OpenConfirmedLeavesNone ==
  ASSUME Mild, LedgerInv, NEW volume, OpenConfirmed(volume)
  PROVE  Stray' \subseteq Stray \/ DbVolume < Tracked
<1> DEFINE superseded == pos.open /\ pos.adopted
           new == NewPosition(volume, Last + 1, FALSE)
<1>1. PICK rest \in IF superseded THEN Cancelled(Without(pos.stop)) ELSE {stops} :
         \E placed \in Placed(rest) : pos' = [new EXCEPT !.stop = placed.stop] /\ stops' = placed.stops
  BY DEF OpenConfirmed, Last
<1>2. PICK p \in Placed(rest) : pos' = [new EXCEPT !.stop = p.stop] /\ stops' = p.stops
  BY <1>1
<1>3. rest \in SUBSET stops /\ (superseded => rest = Without(pos.stop))
  BY <1>1 DEF Cancelled, Without, Mild
<1>4. \A s \in p.stops : s.id # p.stop => s \in rest
  BY <1>3, PlacedIs DEF LedgerInv
<1>5. pos'.open /\ pos'.stop = p.stop
  BY <1>2 DEF NewPosition
<1>6. CASE superseded \/ ~pos.open
  <2>1. \A s \in p.stops : s.id # p.stop => s \in stops /\ (pos.open => s.id # pos.stop)
    BY <1>3, <1>4, <1>6 DEF Without
  <2> QED
    BY <1>2, <1>5, <2>1, StopIsReplaced
<1>7. CASE pos.open /\ ~superseded
  <2>1. work["opening"] # Idle
    BY DEF OpenConfirmed, Idle
  <2>2. OpenOrders = {}
    BY <1>7, <2>1 DEF LedgerInv, OpeningInv
  <2>3. DbVolume = 0
    BY <2>2, RestoredIs
  <2>4. Tracked \in Nat \ {0}
    BY <1>7, PosIs DEF LedgerInv, Typed
  <2> QED
    BY <2>3, <2>4
<1> QED
  BY <1>6, <1>7

\* a restart cancels the one it finds,
LEMMA RestartLeavesNone ==
  ASSUME Mild, LedgerInv, Restart PROVE Stray' \subseteq Stray \/ DbVolume < Tracked
<1>1. CASE OpenOrders = {}
  <2>1. pos' = None /\ stops' = stops /\ DbVolume = 0
    BY <1>1, RestartIs, RestoredIs
  <2>2. CASE pos.open
    <3>1. Tracked \in Nat \ {0}
      BY <2>2, PosIs DEF LedgerInv, Typed
    <3> QED
      BY <2>1, <3>1
  <2>3. CASE ~pos.open
    BY <2>1, <2>3, FewerStops
  <2> QED
    BY <2>2, <2>3
<1>2. CASE OpenOrders # {}
  <2>1. PICK rest \in Cancelled({}) : \E p \in Placed(rest) :
                   /\ stops' = p.stops /\ pos' \in AnyPosition /\ pos'.stop = p.stop
    BY <1>2, RestartIs
  <2>2. PICK p \in Placed(rest) : stops' = p.stops /\ pos' \in AnyPosition /\ pos'.stop = p.stop
    BY <2>1
  <2>3. rest = {}
    BY DEF Cancelled, Mild
  <2>4. \A s \in p.stops : s.id # p.stop => s \in rest
    <3>1. rest \in SUBSET stops
      BY <2>3
    <3> QED
      BY <3>1, PlacedIs DEF LedgerInv
  <2>5. pos'.open
    BY <2>2 DEF AnyPosition
  <2> QED
    BY <2>2, <2>3, <2>4, <2>5, StopIsReplaced
<1> QED
  BY <1>1, <1>2

\* and so does every step.
LEMMA LeavesNone ==
  ASSUME Mild, LedgerInv, [Next]_vars PROVE Stray' \subseteq Stray \/ DbVolume < Tracked
<1>1. CASE StopExecuted
  BY <1>1, FewerStops DEF StopExecuted, memory
<1>2. CASE OwnerBuys \/ OwnerSells \/ OpenSend \/ OpenUnconfirmed \/ LoopForgets
  BY <1>2, FewerStops DEF OwnerBuys, OwnerSells, OpenSend, OpenUnconfirmed, LoopForgets, exchange, memory
<1>3. ASSUME NEW volume, OpenConfirmed(volume) PROVE Stray' \subseteq Stray \/ DbVolume < Tracked
  BY <1>3, OpenConfirmedLeavesNone
<1>4. CASE LoopCloses \/ ChannelCloses \/ RequestCloses
  BY <1>4, FewerStops DEF LoopCloses, ChannelCloses, RequestCloses, Close, Without, memory
<1>5. ASSUME NEW w \in Closers, CloseFails(w) \/ CloseSells(w) PROVE Stray' \subseteq Stray
  BY <1>5, FewerStops DEF CloseFails, CloseSells, memory
<1>6. ASSUME NEW w \in Closers, CloseForgets(w) PROVE Stray' \subseteq Stray
  <2>1. stops' = stops /\ work[w].step = "forget"
    BY <1>6 DEF CloseForgets, exchange
  <2>2. pos.open => \A s \in stops : s.id # pos.stop
    BY <2>1 DEF LedgerInv, CloserInv, Selling
  <2> QED
    BY <2>1, <2>2, StopIsGone
<1>7. ASSUME NEW w \in Closers, CloseRecords(w) PROVE Stray' \subseteq Stray
  <2> DEFINE left == bot.volume - work[w].volume
  <2>1. \/ /\ w = "loop" /\ bot.open /\ work[w].volume < bot.volume /\ pos.open
           /\ \E s \in Synced(pos.stop, left) : pos' = [pos EXCEPT !.stop = s.stop] /\ stops' = s.stops
        \/ pos' = pos /\ stops' = stops
    BY <1>7 DEF CloseRecords
  <2>2. CASE pos' = pos /\ stops' = stops
    BY <2>2, FewerStops
  <2>3. CASE /\ w = "loop" /\ bot.open /\ work[w].volume < bot.volume /\ pos.open
             /\ \E s \in Synced(pos.stop, left) : pos' = [pos EXCEPT !.stop = s.stop] /\ stops' = s.stops
    <3>1. PICK p \in Synced(pos.stop, left) : pos' = [pos EXCEPT !.stop = p.stop] /\ stops' = p.stops
      BY <2>3
    <3>2. work[w].volume \in Nat \ {0} /\ bot.volume \in Nat
      <4>1. work[w].step = "record" /\ w \in Workers
        BY <1>7, Somebody DEF CloseRecords
      <4>2. work[w] \in CloseJob
        BY <4>1, JobSteps DEF Selling, LedgerInv, Typed
      <4> QED
        BY <2>3, <4>2, BotIs DEF CloseJob, LedgerInv, Typed
    <3>3. left \in Nat \ {0}
      BY <2>3, <3>2
    <3>4. pos'.open /\ pos'.stop = p.stop
      BY <2>3, <3>1, PosIs DEF LedgerInv, Typed, AnyPosition
    <3> HIDE DEF left
    <3> QED
      BY <2>3, <3>1, <3>3, <3>4, SyncLeavesNone
  <2> QED
    BY <2>1, <2>2, <2>3
<1>8. CASE Edit
  <2>1. PICK p \in Synced(pos.stop, pos.volume) : pos' = [pos EXCEPT !.stop = p.stop] /\ stops' = p.stops
    BY <1>8 DEF Edit
  <2>2. pos.open /\ pos.volume \in Nat \ {0} /\ pos \in AnyPosition
    BY <1>8, PosIs DEF Edit, LedgerInv, Typed
  <2>3. pos'.open /\ pos'.stop = p.stop
    BY <2>1, <2>2 DEF AnyPosition
  <2> QED
    BY <2>1, <2>2, <2>3, SyncLeavesNone
<1>9. CASE ReconcileGrowth
  <2>1. PICK p \in Synced(pos.stop, held) :
          pos' = [pos EXCEPT !.volume = held, !.stop = p.stop] /\ stops' = p.stops
    BY <1>9 DEF ReconcileGrowth
  <2>2. pos.open /\ held > pos.volume
    BY <1>9 DEF ReconcileGrowth, Answered
  <2>3. pos \in AnyPosition /\ pos.volume \in Nat \ {0} /\ held \in Nat
    BY <2>2, PosIs, RealAssumption DEF LedgerInv, Typed
  <2>4. pos'.open /\ pos'.stop = p.stop
    BY <2>1, <2>3 DEF AnyPosition
  <2>5. held \in Nat \ {0}
    BY <2>2, <2>3
  <2> QED
    BY <2>1, <2>2, <2>4, <2>5, SyncLeavesNone
<1>10. CASE ReconcileHeld \/ ReconcileSuspects \/ ReconcilePostpones \/ ReconcileSettles
  <2>1. stops' = stops /\ pos.open /\ \E g \in BOOLEAN : pos' = [pos EXCEPT !.gone = g]
    BY <1>10 DEF ReconcileHeld, ReconcileSuspects, ReconcilePostpones, ReconcileSettles, Answered, exchange
  <2>2. pos \in AnyPosition
    BY <2>1, PosIs DEF LedgerInv, Typed
  <2>3. pos'.open /\ pos'.stop = pos.stop
    BY <2>1, <2>2 DEF AnyPosition
  <2> QED
    BY <2>1, <2>3, FewerStops
<1>11. CASE WatcherHears
  BY <1>11, FewerStops DEF WatcherHears, exchange, memory
<1>12. ASSUME NEW w \in Settlers, SettleForgets(w) PROVE Stray' \subseteq Stray
  <2>1. /\ work[w].step = "drop"
        /\ stops' \in Cancelled(Without(IF pos.open /\ pos.order = work[w].order THEN pos.stop
                                        ELSE work[w].stop))
    BY <1>12 DEF SettleForgets
  <2>2. work[w].order = Last
    BY <2>1 DEF LedgerInv, SettlerInv, Settling
  <2>3. pos.open => stops' = Without(pos.stop)
    BY <2>1, <2>2, CloserOrders DEF Cancelled, Mild
  <2>4. stops' \subseteq stops
    BY <2>1, CancelledIs
  <2> QED
    BY <2>3, <2>4, StopIsGone DEF Without
<1>13. ASSUME NEW w \in Settlers, SettleRecords(w) PROVE Stray' \subseteq Stray
  BY <1>13, FewerStops DEF SettleRecords, exchange, memory
<1>14. CASE ReconcileWritesOff
  <2>1. stops' = Without(pos.stop)
    BY <1>14 DEF ReconcileWritesOff, Cancelled, Mild
  <2> QED
    BY <2>1, StopIsGone DEF Without
<1>15. CASE Adopt
  <2>1. PICK p \in Placed(stops) :
          pos' = [NewPosition(held, Len(orders) + 1, TRUE) EXCEPT !.stop = p.stop] /\ stops' = p.stops
    BY <1>15 DEF Adopt
  <2>2. ~pos.open /\ pos'.open /\ pos'.stop = p.stop
    BY <1>15, <2>1 DEF Adopt, NewPosition
  <2>3. \A s \in p.stops : s.id # p.stop => s \in stops
    BY PlacedIs DEF LedgerInv
  <2> QED
    BY <2>1, <2>2, <2>3, StopIsReplaced
<1>16. CASE Restart
  BY <1>16, RestartLeavesNone
<1>17. CASE UNCHANGED vars
  BY <1>17, FewerStops DEF vars, exchange, memory
<1>18. {"loop", "channel", "request"} = Closers /\ {"loop", "watch"} = Settlers
  BY Somebody
<1> QED
  BY <1>1, <1>2, <1>3, <1>4, <1>5, <1>6, <1>7, <1>8, <1>9, <1>10, <1>11, <1>12, <1>13, <1>14, <1>15,
     <1>16, <1>17, <1>18 DEF Next

\* No step of any worker leaves a stop order on the exchange without the position it protects, where
\* the rows know of what is tracked.
THEOREM StopsAreNotLeftBehind == ASSUME Apart, Mild PROVE Spec => NoStopLeftBehind
<1>1. LedgerInv /\ [Next]_vars => [Stray' \subseteq Stray \/ DbVolume < Tracked]_vars
  BY LeavesNone
<1> QED
  BY <1>1, LedgerHolds, PTL DEF Spec, NoStopLeftBehind
=============================================================================
