---------------------------- MODULE ChannelProofs ---------------------------
(***************************************************************************)
(* Theorems about the two ways a channel's messages come in.               *)
(*                                                                         *)
(* ChannelHistory, for every channel, limit and number of failures: the    *)
(* stored part of a channel's history has no holes, and an answer that the *)
(* start of the channel is reached is true; and what the classifier learns *)
(* of the replayed signals is sound.                                       *)
(*                                                                         *)
(* ChannelIntake, for any channels, messages, models and number of         *)
(* restarts: no signal is lost without a trace; what is heard is what is   *)
(* listed, and a signal is judged by the settings of its own channel,      *)
(* however the requests overlap, for every channel they did not meet at.   *)
(***************************************************************************)
EXTENDS ChannelHistory, ChannelIntake, WellFoundedInduction, TLAPS

(***************************************************************************)
(* ChannelHistory                                                          *)
(***************************************************************************)

Types ==
  /\ newest \in MessageIds
  /\ status \in [MessageIds -> {"none", "parsed", "closed_report", "unparsed"}]
  /\ reached \in BOOLEAN
  /\ run \in {Idle, [step |-> "reads"]}
             \cup [step : {"fetches"}, before : 0..Length]
             \cup [step : {"stores"}, next : MessageIds, last : MessageIds, start : BOOLEAN]

\* What a request under way relies on: the cursor it has read is still the oldest message stored,
\* and it stores downwards from there, so that everything below its place is missing and everything
\* above it is complete.  This is what makes HistoryIsWhole inductive.
Request ==
  /\ run # Idle => ~reached
  /\ run.step = "fetches" => IsCursor(run.before)
  /\ run.step = "stores" => /\ run.last <= run.next /\ run.next <= newest
                            /\ \A o \in Stored : run.next < o
                            /\ WholeAbove(run.next)
                            /\ run.start => run.last = 1

Posted == \A o \in Stored : o <= newest

HistoryInv == Types /\ Posted /\ Request /\ HistoryIsWhole

-----------------------------------------------------------------------------
(* Holes.                                                                  *)

\* What is complete above a message is complete above every newer one.
LEMMA WholeIsMonotone ==
  ASSUME NEW x \in Int, NEW y \in Int, x <= y, WholeAbove(x)
  PROVE  WholeAbove(y)
BY DEF WholeAbove, Texts, MessageIds

\* Completeness, the cursor and what is posted are matters of the rows alone.
LEMMA RowsDecide ==
  ASSUME status' = status
  PROVE  /\ Stored' = Stored
         /\ \A x : WholeAbove(x)' <=> WholeAbove(x)
         /\ NoHoles' <=> NoHoles
         /\ \A c : IsCursor(c)' <=> IsCursor(c)
BY DEF Stored, WholeAbove, NoHoles, IsCursor

\* Above the cursor everything is complete, and so it is above the message before it.
LEMMA WholeAboveCursor ==
  ASSUME NoHoles, NEW c \in Stored, IsCursor(c)
  PROVE  WholeAbove(c - 1)
<1>1. WholeAbove(c)
  BY DEF NoHoles
<1>2. SUFFICES ASSUME NEW i \in Texts, c - 1 < i, NEW o \in Stored, i < o
               PROVE  i \in Stored
  BY DEF WholeAbove
<1>3. i \in Int /\ c \in Int
  BY DEF Texts, MessageIds, Stored
<1>4. CASE i = c
  BY <1>4
<1>5. CASE i # c
  <2>1. c < i
    BY <1>2, <1>3, <1>5
  <2> QED
    BY <1>1, <1>2, <2>1 DEF WholeAbove
<1> QED
  BY <1>4, <1>5

\* Storing the message just below what is stored leaves no hole.
LEMMA StoringBelow ==
  ASSUME NEW n \in MessageIds, WholeAbove(n), \A o \in Stored : n < o,
         \/ n \notin Texts /\ Stored' = Stored
         \/ Stored' = Stored \cup {n}
  PROVE  /\ WholeAbove(n - 1)'
         /\ NoHoles'
         /\ \A o \in Stored' : n - 1 < o
<1>1. \A o \in Stored' : n - 1 < o /\ o \in Int
  BY DEF Stored, MessageIds
<1>2. WholeAbove(n - 1)'
  <2>1. SUFFICES ASSUME NEW i \in Texts, n - 1 < i, NEW o \in Stored', i < o
                 PROVE  i \in Stored'
    BY DEF WholeAbove
  <2>2. i \in Int /\ n \in Int
    BY DEF Texts, MessageIds
  <2>3. CASE i = n
    BY <2>3
  <2>4. CASE i # n
    <3>1. n < i /\ o # n
      BY <2>1, <2>2, <2>4
    <3>2. o \in Stored
      BY <3>1
    <3> QED
      BY <2>1, <3>1, <3>2 DEF WholeAbove
  <2> QED
    BY <2>3, <2>4
<1>3. NoHoles'
  <2>1. SUFFICES ASSUME NEW o \in Stored', NEW i \in Texts, o < i, NEW u \in Stored', i < u
                 PROVE  i \in Stored'
    BY DEF NoHoles, WholeAbove
  <2>2. n - 1 < i
    BY <1>1, <2>1 DEF Texts, MessageIds
  <2> QED
    BY <1>2, <2>1, <2>2 DEF WholeAbove
<1> QED
  BY <1>1, <1>2, <1>3
-----------------------------------------------------------------------------
(* The invariant.                                                          *)

LEMMA HistoryInit == Init => HistoryInv
<1> SUFFICES ASSUME Init PROVE HistoryInv
  OBVIOUS
<1>1. Stored = {}
  BY DEF Init, Stored
<1>2. Types
  <2>1. newest \in MessageIds
    BY HistoryAssumption DEF Init, MessageIds
  <2>2. run = Idle /\ reached = FALSE /\ status = [i \in MessageIds |-> "none"]
    BY DEF Init
  <2> QED
    BY <2>1, <2>2 DEF Types
<1>3. Posted /\ HistoryIsWhole
  BY <1>1 DEF Init, Posted, HistoryIsWhole, NoHoles
<1>4. Request
  BY DEF Init, Request, Idle
<1> QED
  BY <1>2, <1>3, <1>4 DEF HistoryInv

\* Steps that leave the rows and the request alone.
LEMMA OthersKeep ==
  ASSUME HistoryInv, status' = status, run' = run, reached' = reached,
         newest' \in MessageIds, newest <= newest'
  PROVE  HistoryInv'
<1> USE RowsDecide
<1>1. Types'
  BY DEF HistoryInv, Types
<1>2. Posted'
  BY DEF HistoryInv, Posted, Types, MessageIds, Stored
<1>3. HistoryIsWhole'
  BY DEF HistoryInv, HistoryIsWhole
<1>4. Request'
  <2>1. ASSUME run.step = "stores" PROVE run.next <= newest'
    <3>1. run.next <= newest /\ run.next \in Int /\ newest \in Int /\ newest' \in Int
      BY <2>1 DEF HistoryInv, Request, Types, MessageIds, Idle
    <3> QED
      BY <3>1
  <2> QED
    BY <2>1 DEF HistoryInv, Request
<1> QED
  BY <1>1, <1>2, <1>3, <1>4 DEF HistoryInv

\* A request that ends without a row.
LEMMA EndsKeep ==
  ASSUME HistoryInv, status' = status, newest' = newest, run' = Idle,
         reached' \in BOOLEAN, reached' => WholeAbove(0)
  PROVE  HistoryInv'
<1> USE RowsDecide
<1>1. Types'
  BY DEF HistoryInv, Types
<1>2. Posted' /\ HistoryIsWhole'
  BY DEF HistoryInv, Posted, HistoryIsWhole
<1>3. Request'
  BY DEF Request, Idle
<1> QED
  BY <1>1, <1>2, <1>3 DEF HistoryInv

LEMMA LocksKeeps == HistoryInv /\ Locks => HistoryInv'
<1> SUFFICES ASSUME HistoryInv, Locks PROVE HistoryInv'
  OBVIOUS
<1> USE RowsDecide
<1>1. Types'
  BY DEF HistoryInv, Types, Locks
<1>2. Posted' /\ HistoryIsWhole'
  BY DEF HistoryInv, Posted, HistoryIsWhole, Locks
<1>3. Request'
  BY DEF Locks, Request
<1> QED
  BY <1>1, <1>2, <1>3 DEF HistoryInv

LEMMA ReadsKeeps == HistoryInv /\ Reads => HistoryInv'
<1> SUFFICES ASSUME HistoryInv, Reads PROVE HistoryInv'
  OBVIOUS
<1> USE RowsDecide
<1>1. PICK c \in 0..Length : IsCursor(c) /\ run' = [step |-> "fetches", before |-> c]
  BY DEF Reads
<1>2. Types'
  BY <1>1 DEF HistoryInv, Types, Reads
<1>3. Posted' /\ HistoryIsWhole'
  BY DEF HistoryInv, Posted, HistoryIsWhole, Reads
<1>4. ~reached /\ reached' = reached /\ status' = status
  BY DEF HistoryInv, Request, Reads, Idle
<1>5. Request'
  BY <1>1, <1>4 DEF Request
<1> QED
  BY <1>2, <1>3, <1>5 DEF HistoryInv

LEMMA FetchesKeeps == HistoryInv /\ Fetches => HistoryInv'
<1> SUFFICES ASSUME HistoryInv, Fetches PROVE HistoryInv'
  OBVIOUS
<1> DEFINE next == IF run.before = 0 THEN newest ELSE run.before - 1
           last == IF next > Limit THEN next - Limit + 1 ELSE 1
<1> USE HistoryAssumption
<1>1. /\ run.step = "fetches" /\ run.before \in 0..Length /\ IsCursor(run.before)
      /\ newest \in MessageIds /\ newest' = newest /\ status' = status /\ ~reached
  BY DEF HistoryInv, Types, Request, Fetches, Idle
<1>2. next \in 0..Length /\ next <= newest
  <2>1. CASE run.before = 0
    BY <1>1, <2>1 DEF MessageIds
  <2>2. CASE run.before # 0
    <3>1. run.before \in Stored
      BY <1>1, <2>2 DEF IsCursor
    <3>2. run.before <= newest
      BY <3>1 DEF HistoryInv, Posted
    <3> QED
      BY <1>1, <2>2, <3>2 DEF MessageIds
  <2> QED
    BY <2>1, <2>2
<1>3. WholeAbove(next) /\ \A o \in Stored : next < o
  <2>1. CASE run.before = 0
    <3>1. Stored = {}
      BY <1>1, <2>1 DEF IsCursor, Stored, MessageIds
    <3> QED
      BY <3>1 DEF WholeAbove
  <2>2. CASE run.before # 0
    <3>1. run.before \in Stored /\ (\A o \in Stored : run.before <= o)
      BY <1>1, <2>2 DEF IsCursor
    <3>2. WholeAbove(run.before - 1)
      BY <1>1, <3>1, WholeAboveCursor DEF HistoryInv, HistoryIsWhole
    <3>3. \A o \in Stored : o \in Int
      BY DEF Stored, MessageIds
    <3> QED
      BY <1>1, <2>2, <3>1, <3>2, <3>3
  <2> QED
    BY <2>1, <2>2
<1>4. CASE next = 0
  <2>1. run' = Idle /\ reached' = TRUE
    BY <1>4 DEF Fetches, Ends
  <2>2. WholeAbove(0)
    BY <1>3, <1>4
  <2> HIDE DEF next, last
  <2> QED
    BY <1>1, <2>1, <2>2, EndsKeep
<1>5. CASE next # 0
  <2>1. /\ run' = [step |-> "stores", next |-> next, last |-> last,
                   start |-> next - last + 1 < Limit]
        /\ reached' = reached
    BY <1>5 DEF Fetches
  <2> HIDE DEF next
  <2>2. next \in MessageIds
    BY <1>2, <1>5 DEF MessageIds
  <2>3. next \in Int /\ next >= 1 /\ next <= Length /\ Limit \in Int /\ Limit >= 1
    BY <2>2 DEF MessageIds
  <2>4. last \in Int /\ 1 <= last /\ last <= next
    BY <2>3
  <2>5. next - last + 1 < Limit => last = 1
    BY <2>3
  <2> HIDE DEF last
  <2>6. last \in MessageIds
    BY <2>3, <2>4 DEF MessageIds
  <2> USE RowsDecide
  <2>7. Types'
    BY <1>1, <2>1, <2>2, <2>6 DEF HistoryInv, Types
  <2>8. Posted' /\ HistoryIsWhole'
    BY <1>1, <2>1 DEF HistoryInv, Posted, HistoryIsWhole
  <2>9. Request'
    BY <1>1, <1>2, <1>3, <2>1, <2>5, <2>4 DEF Request
  <2> QED
    BY <2>7, <2>8, <2>9 DEF HistoryInv
<1> QED
  BY <1>4, <1>5

LEMMA StoresKeeps == HistoryInv /\ Stores => HistoryInv'
<1> SUFFICES ASSUME HistoryInv, Stores PROVE HistoryInv'
  OBVIOUS
<1> USE HistoryAssumption
<1>0. PICK n \in MessageIds, last \in MessageIds, start \in BOOLEAN :
        run = [step |-> "stores", next |-> n, last |-> last, start |-> start]
  BY DEF HistoryInv, Types, Stores, Idle
<1>1. /\ run.step = "stores" /\ run.next = n /\ run.last = last /\ run.start = start
      /\ newest \in MessageIds /\ newest' = newest /\ ~reached
  BY <1>0 DEF HistoryInv, Types, Request, Stores, Idle
<1>2. /\ last <= n /\ n <= newest /\ WholeAbove(n) /\ (start => last = 1)
      /\ \A o \in Stored : n < o
  BY <1>1 DEF HistoryInv, Request
<1>3. n \notin Stored
  BY <1>1, <1>2 DEF MessageIds
<1>4. /\ status' \in [MessageIds -> {"none", "parsed", "closed_report", "unparsed"}]
      /\ \/ n \notin Texts /\ Stored' = Stored
         \/ Stored' = Stored \cup {n}
  <2>1. CASE Kind[n] = "bare"
    BY <1>1, <2>1 DEF Stores, HistoryInv, Types, Stored, Texts
  <2>2. CASE Kind[n] # "bare"
    <3>1. PICK s \in ParseStatus(n) : status' = [status EXCEPT ![n] = s]
      BY <1>1, <1>3, <2>2 DEF Stores
    <3>2. s \in {"parsed", "closed_report", "unparsed"}
      BY DEF ParseStatus
    <3> QED
      BY <1>1, <3>1, <3>2 DEF HistoryInv, Types, Stored
  <2> QED
    BY <2>1, <2>2
<1>5. /\ WholeAbove(n - 1)' /\ NoHoles'
      /\ \A o \in Stored' : n - 1 < o
  BY <1>1, <1>2, <1>4, StoringBelow
<1>6. Posted'
  BY <1>1, <1>2, <1>4 DEF HistoryInv, Posted
<1>7. CASE n = last
  <2>1. run' = Idle /\ reached' = start
    BY <1>1, <1>7 DEF Stores, Ends
  <2>2. reached' => WholeAbove(0)'
    <3>1. ASSUME start PROVE n - 1 = 0
      BY <1>2, <1>7, <3>1
    <3> QED
      BY <1>5, <2>1, <3>1
  <2>3. Types'
    BY <1>1, <1>4, <2>1 DEF Types
  <2>4. Request'
    BY <2>1 DEF Request, Idle
  <2> QED
    BY <1>5, <1>6, <2>2, <2>3, <2>4 DEF HistoryInv, HistoryIsWhole
<1>8. CASE n # last
  <2>1. run' = [step |-> "stores", next |-> n - 1, last |-> last, start |-> start]
        /\ reached' = reached
    BY <1>0, <1>1, <1>8 DEF Stores
  <2>2. n - 1 \in MessageIds /\ last <= n - 1 /\ n - 1 <= newest
    BY <1>1, <1>2, <1>8 DEF MessageIds
  <2>3. Types'
    BY <1>1, <1>4, <2>1, <2>2 DEF Types, HistoryInv
  <2>4. Request'
    BY <1>1, <1>2, <1>5, <2>1, <2>2 DEF Request
  <2>5. HistoryIsWhole'
    BY <1>1, <1>5, <2>1 DEF HistoryIsWhole
  <2> QED
    BY <1>6, <2>3, <2>4, <2>5 DEF HistoryInv
<1> QED
  BY <1>7, <1>8

LEMMA HistoryStep == HistoryInv /\ [Next]_vars => HistoryInv'
<1> SUFFICES ASSUME HistoryInv, [Next]_vars PROVE HistoryInv'
  OBVIOUS
<1>0. newest \in MessageIds /\ newest \in Int /\ Length \in Int
  BY HistoryAssumption DEF HistoryInv, Types, MessageIds
<1>1. CASE Post
  <2>1. newest' \in MessageIds /\ newest <= newest'
    BY <1>0, <1>1 DEF Post, MessageIds
  <2> QED
    BY <1>1, <2>1, OthersKeep DEF Post, backfill
<1>2. CASE Press
  BY <1>0, <1>2, OthersKeep DEF Press
<1>3. CASE Locks
  BY <1>3, LocksKeeps
<1>4. CASE Fails
  BY <1>4, EndsKeep DEF Fails, Ends
<1>5. CASE Reads
  BY <1>5, ReadsKeeps
<1>6. CASE Fetches
  BY <1>6, FetchesKeeps
<1>7. CASE Stores
  BY <1>7, StoresKeeps
<1>8. CASE Restart
  BY <1>8, EndsKeep DEF Restart
<1>9. ASSUME NEW p \in Presses, Sim(p) PROVE HistoryInv'
  <2>1. status' = status /\ run' = run /\ reached' = reached /\ newest' = newest
    BY <1>9 DEF Sim, SimStarts, SimFails, SimFetches, SimWrites, backfill
  <2> QED
    BY <1>0, <2>1, OthersKeep
<1>10. CASE UNCHANGED vars
  BY <1>0, <1>10, OthersKeep DEF vars, backfill
<1> QED
  BY <1>1, <1>2, <1>3, <1>4, <1>5, <1>6, <1>7, <1>8, <1>9, <1>10 DEF Next

\* The stored part of a channel's history never has a hole, and "the start of the channel is
\* reached" is never answered while something older is missing.  So MIN(telegram_message_id) is
\* all that the next request has to know.
THEOREM HistoryStaysWhole == Spec => []HistoryIsWhole
<1>1. HistoryInv => HistoryIsWhole
  BY DEF HistoryInv
<1> QED
  BY HistoryInit, HistoryStep, <1>1, PTL DEF Spec
-----------------------------------------------------------------------------
(* Induction over the natural numbers, for sets of them.                   *)

LEMMA LeastOf == ASSUME NEW T \in SUBSET Nat, T # {} PROVE \E x \in T : \A y \in T : x <= y
<1>1. IsWellFoundedOn(OpToRel(<, Nat), Nat)
  BY NatLessThanWellFounded
<1>2. PICK x \in T : \A y \in T : ~ (<<y, x>> \in OpToRel(<, Nat))
  BY <1>1, WFMin
<1>3. \A y \in T : ~(y < x)
  BY <1>2 DEF OpToRel
<1> QED
  BY <1>3

LEMMA Inductive ==
  ASSUME NEW S, 0 \in S, \A n \in Nat : n \in S => n + 1 \in S PROVE Nat \subseteq S
<1> DEFINE T == Nat \ S
<1> SUFFICES ASSUME T # {} PROVE FALSE
  OBVIOUS
<1>1. PICK x \in T : \A y \in T : x <= y
  BY LeastOf
<1>2. x # 0 /\ x - 1 \in Nat /\ x - 1 \notin T
  BY <1>1
<1> QED
  BY <1>1, <1>2

\* The oldest of some messages is one of them.
LEMMA OldestOf == ASSUME NEW T \in SUBSET Nat, T # {} PROVE Min(T) \in T
BY LeastOf DEF Min
-----------------------------------------------------------------------------
(* The shares of the targets.                                              *)

GoodPlan(s) ==
  /\ {s.entry, s.sl} \subseteq Int
  /\ s.tp \in Int \cup {NoPrice} /\ s.targets \in Seq(Int)
  /\ s.side \in {"long", "short"} /\ s.breakeven \in BOOLEAN
  /\ s.weights \in Seq(Nat)
  /\ s.weights # <<>> => SoldInOrder(s.weights)[Len(s.weights)] = Whole

LEMMA LevelsTyped == ASSUME NEW s, GoodPlan(s) PROVE TpLevels(s) \in Seq(Int)
<1>1. CASE s.targets # <<>> \/ s.tp = NoPrice
  BY <1>1 DEF GoodPlan, TpLevels
<1>2. CASE s.targets = <<>> /\ s.tp # NoPrice
  <2>1. s.tp \in Int /\ s.entry \in Int
    BY <1>2 DEF GoodPlan
  <2>2. s.entry + (s.tp - s.entry) \div 3 \in Int /\ s.entry + ((s.tp - s.entry) * 2) \div 3 \in Int
    BY <2>1
  <2> QED
    BY <1>2, <2>1, <2>2 DEF TpLevels
<1> QED
  BY <1>1, <1>2

LEMMA SoldUnfolds ==
  ASSUME NEW s \in Seq(Nat)
  PROVE  \A n \in 0..Len(s) :
           SoldInOrder(s)[n] = IF n = 0 THEN 0 ELSE SoldInOrder(s)[n - 1] + s[n]
<1> DEFINE Body(h, m) == [n \in 0..m |-> IF n = 0 THEN 0 ELSE h[n - 1] + s[n]]
<1>1. Len(s) \in Nat
  OBVIOUS
<1>2. \E h : h = Body(h, Len(s))
  <2> DEFINE S == {m \in Nat : \E h : h = Body(h, m)}
  <2>1. 0 \in S
    <3> DEFINE h == [n \in 0..0 |-> 0]
    <3>1. h = Body(h, 0)
      OBVIOUS
    <3> QED
      BY <3>1
  <2>2. ASSUME NEW m \in Nat, m \in S PROVE m + 1 \in S
    <3>1. PICK h : h = Body(h, m)
      BY <2>2
    <3> DEFINE v == h[m] + s[m + 1]
               g == [n \in 0..(m + 1) |-> IF n = m + 1 THEN v ELSE h[n]]
    <3>2. (\A n \in 0..m : g[n] = h[n]) /\ g[m + 1] = v
      OBVIOUS
    <3>3. ASSUME NEW n \in 0..(m + 1) PROVE g[n] = IF n = 0 THEN 0 ELSE g[n - 1] + s[n]
      <4>1. CASE n = m + 1
        <5>1. g[n - 1] = h[m] /\ n # 0
          BY <3>2, <4>1
        <5> HIDE DEF g
        <5> QED
          BY <3>2, <4>1, <5>1
      <4>2. CASE n \in 0..m
        <5>1. g[n] = h[n] /\ (n # 0 => g[n - 1] = h[n - 1])
          BY <3>2, <4>2
        <5>2. h[n] = IF n = 0 THEN 0 ELSE h[n - 1] + s[n]
          BY <3>1, <4>2
        <5> HIDE DEF g
        <5> QED
          BY <5>1, <5>2
      <4> QED
        BY <4>1, <4>2
    <3>4. g = Body(g, m + 1)
      BY <3>3
    <3> HIDE DEF g, Body
    <3> QED
      BY <3>4
  <2> HIDE DEF S
  <2>3. Len(s) \in S
    BY <1>1, <2>1, <2>2, Inductive
  <2> QED
    BY <2>3 DEF S
<1>3. SoldInOrder(s) = CHOOSE h : h = Body(h, Len(s))
  BY DEF SoldInOrder
<1>4. SoldInOrder(s) = Body(SoldInOrder(s), Len(s))
  BY <1>2, <1>3
<1> DEFINE sold == SoldInOrder(s)
<1> HIDE DEF sold
<1>5. sold = Body(sold, Len(s))
  BY <1>4 DEF sold
<1>6. \A n \in 0..Len(s) : sold[n] = IF n = 0 THEN 0 ELSE sold[n - 1] + s[n]
  BY <1>5
<1> QED
  BY <1>6 DEF sold

\* The first targets sell no more than all of them.
LEMMA SoldGrows ==
  ASSUME NEW s \in Seq(Nat), NEW n \in 0..Len(s)
  PROVE  /\ SoldInOrder(s)[n] \in Nat
         /\ SoldInOrder(s)[n] <= SoldInOrder(s)[Len(s)]
<1> DEFINE sold == SoldInOrder(s)
           S == {m \in Nat : m <= Len(s) =>
                   /\ sold[m] \in Nat
                   /\ \A l \in 0..m : sold[l] \in Nat /\ sold[l] <= sold[m]}
<1> HIDE DEF sold
<1>1. sold[0] = 0 /\ \A m \in 0..Len(s) : m # 0 => sold[m] = sold[m - 1] + s[m]
  BY SoldUnfolds DEF sold
<1>2. 0 \in S
  BY <1>1
<1>3. ASSUME NEW m \in Nat, m \in S PROVE m + 1 \in S
  <2> SUFFICES ASSUME m + 1 <= Len(s)
               PROVE  /\ sold[m + 1] \in Nat
                      /\ \A l \in 0..m + 1 : sold[l] \in Nat /\ sold[l] <= sold[m + 1]
    OBVIOUS
  <2>1. m + 1 \in 0..Len(s) /\ m + 1 \in 1..Len(s) /\ (m + 1) - 1 = m
    OBVIOUS
  <2>2. sold[m + 1] = sold[m] + s[m + 1] /\ s[m + 1] \in Nat
    BY <1>1, <2>1
  <2>3. sold[m] \in Nat /\ \A l \in 0..m : sold[l] \in Nat /\ sold[l] <= sold[m]
    BY <1>3
  <2> QED
    BY <2>2, <2>3
<1> HIDE DEF S
<1>4. Len(s) \in S
  <2>1. Len(s) \in Nat
    OBVIOUS
  <2> QED
    BY <1>2, <1>3, <2>1, Inductive
<1> QED
  BY <1>4 DEF S, sold

\* What so many targets sell at most, where no target sells more than one before it.
Weighted(s) == s.weights # <<>> /\ Len(s.weights) = Len(TpLevels(s))
Most(s, hits) == IF Weighted(s) THEN SoldInOrder(s.weights)[hits]
                 ELSE hits * (Whole \div Len(TpLevels(s)))

LEMMA ShareTyped ==
  ASSUME NEW s, GoodPlan(s), NEW l \in 1..Len(TpLevels(s)) PROVE Share(s, l) \in Nat
<1>1. Len(TpLevels(s)) \in Nat \ {0}
  BY LevelsTyped
<1>2. Whole \div Len(TpLevels(s)) \in Nat
  BY <1>1 DEF Whole
<1> QED
  BY <1>2 DEF GoodPlan, Share

LEMMA MostGrows ==
  ASSUME NEW s, GoodPlan(s), NEW hits \in Nat, hits < Len(TpLevels(s))
  PROVE  /\ Most(s, 0) = 0 /\ Most(s, hits) \in Nat /\ Most(s, hits) <= Whole
         /\ Most(s, hits + 1) = Most(s, hits) + Share(s, hits + 1)
<1> DEFINE n == Len(TpLevels(s))
<1>1. n \in Nat \ {0} /\ hits < n
  BY LevelsTyped
<1>2. CASE Weighted(s)
  <2> DEFINE w == s.weights
  <2>1. w \in Seq(Nat) /\ Len(w) = n /\ SoldInOrder(w)[Len(w)] = Whole
    BY <1>2 DEF GoodPlan, Weighted
  <2>2. Share(s, hits + 1) = w[hits + 1] /\ Most(s, hits) = SoldInOrder(w)[hits]
        /\ Most(s, 0) = SoldInOrder(w)[0] /\ Most(s, hits + 1) = SoldInOrder(w)[hits + 1]
    BY <1>2 DEF Weighted, Share, Most
  <2> HIDE DEF w, n
  <2>3. hits \in 0..Len(w) /\ hits + 1 \in 0..Len(w) /\ 0 \in 0..Len(w) /\ (hits + 1) - 1 = hits
    BY <1>1, <2>1
  <2>4. SoldInOrder(w)[0] = 0 /\ SoldInOrder(w)[hits + 1] = SoldInOrder(w)[hits] + w[hits + 1]
    <3>1. w \in Seq(Nat) /\ hits + 1 # 0
      BY <2>1
    <3>2. \A l \in 0..Len(w) : SoldInOrder(w)[l] = IF l = 0 THEN 0 ELSE SoldInOrder(w)[l - 1] + w[l]
      BY <3>1, SoldUnfolds
    <3> QED
      BY <2>3, <3>1, <3>2
  <2>5. SoldInOrder(w)[hits] \in Nat /\ SoldInOrder(w)[hits] <= Whole
    BY <2>1, <2>3, SoldGrows
  <2> QED
    BY <2>2, <2>4, <2>5
<1>3. CASE ~Weighted(s)
  <2> DEFINE q == Whole \div n
  <2>1. Share(s, hits + 1) = q /\ Most(s, hits) = hits * q /\ Most(s, 0) = 0 * q
        /\ Most(s, hits + 1) = (hits + 1) * q
    BY <1>3 DEF Weighted, Share, Most
  <2>2. q \in Nat /\ n * q <= Whole
    <3> HIDE DEF n
    <3> QED
      BY <1>1 DEF Whole
  <2> HIDE DEF n, q
  <2>3. hits * q \in Nat /\ hits * q <= n * q /\ (hits + 1) * q = hits * q + q /\ 0 * q = 0
    BY <1>1, <2>2
  <2>4. n * q \in Nat /\ Whole \in Nat
    BY <1>1, <2>2 DEF Whole
  <2> QED
    BY <2>1, <2>2, <2>3, <2>4
<1> QED
  BY <1>2, <1>3
-----------------------------------------------------------------------------
(* The replay.                                                             *)

\* What holds of the position after every close.
Positioned == [stop : Int, hits : Nat, sold : Int, gain : Int,
               exit : {"none", "stop_loss", "take_profit"}]
WalkInv(s, p) ==
  /\ p \in Positioned
  /\ p.exit = "none" => p.hits < Len(TpLevels(s))
  /\ SharesDecline(s) => p.sold <= Whole /\ (p.exit = "none" => p.sold <= Most(s, p.hits))
  /\ Sensible(s) /\ p.exit = "none" => p.gain >= 0

LEMMA WalkStarts ==
  ASSUME NEW s, GoodPlan(s), TpLevels(s) # <<>>
  PROVE  WalkInv(s, [stop |-> s.sl, hits |-> 0, sold |-> 0, gain |-> 0, exit |-> "none"])
<1> DEFINE p == [stop |-> s.sl, hits |-> 0, sold |-> 0, gain |-> 0, exit |-> "none"]
<1>1. p.stop = s.sl /\ p.hits = 0 /\ p.sold = 0 /\ p.gain = 0 /\ p.exit = "none"
  OBVIOUS
<1>2. s.sl \in Int /\ 0 < Len(TpLevels(s)) /\ Whole \in Nat
  BY LevelsTyped DEF GoodPlan, Whole
<1>3. Most(s, 0) = 0
  BY <1>2, MostGrows
<1>5. p \in Positioned
  BY <1>2 DEF Positioned
<1> HIDE DEF p
<1>4. WalkInv(s, p)
  BY <1>1, <1>2, <1>3, <1>5 DEF WalkInv, Whole
<1> QED
  BY <1>4 DEF p

\* The furthest of some levels is one of them.
LEMMA FurthestOf ==
  ASSUME NEW n \in Nat, NEW T \in SUBSET (1..n), T # {} PROVE Max(T) \in T
<1> DEFINE U == {u \in 0..n : n - u \in T}
<1>1. U \in SUBSET Nat
  OBVIOUS
<1>2. \A x \in T : n - x \in U
  <2> TAKE x \in T
  <2>1. x \in 1..n /\ n - x \in 0..n /\ n - (n - x) = x
    OBVIOUS
  <2> QED
    BY <2>1
<1>3. PICK u \in U : \A y \in U : u <= y
  BY <1>1, <1>2, LeastOf
<1>4. n - u \in T /\ u \in Nat
  OBVIOUS
<1> HIDE DEF U
<1>5. \A y \in T : n - u >= y
  <2> TAKE y \in T
  <2>1. u <= n - y /\ y \in 1..n
    BY <1>2, <1>3
  <2> QED
    BY <1>4, <2>1
<1> QED
  BY <1>4, <1>5 DEF Max

LEMMA GainTyped ==
  ASSUME NEW gain \in Int, NEW part \in Int, NEW way \in Int
  PROVE  /\ gain + part * way \in Int
         /\ gain >= 0 /\ part >= 0 /\ way >= 0 => gain + part * way >= 0
<1>1. part * way \in Int /\ (part >= 0 /\ way >= 0 => part * way >= 0)
  OBVIOUS
<1> QED
  BY <1>1

LEMMA BarKeeps ==
  ASSUME NEW s, GoodPlan(s), NEW p, WalkInv(s, p), NEW close \in Int
  PROVE  WalkInv(s, Bar(s, p, close))
<1> DEFINE levels == TpLevels(s)
           n == Len(levels)
           hit == {l \in p.hits + 1 .. n : Ahead(s, close, levels[l]) >= 0}
           level == Max(hit)
           way == Ahead(s, close, s.entry)
<1>1. /\ p \in Positioned /\ p.stop \in Int /\ p.sold \in Int /\ p.gain \in Int /\ p.hits \in Nat
      /\ s.side \in {"long", "short"} /\ s.entry \in Int /\ s.sl \in Int
      /\ levels \in Seq(Int) /\ n \in Nat /\ Whole \in Int
  BY SMTT(20), LevelsTyped DEF GoodPlan, WalkInv, Whole, Positioned
<1>0. way \in Int
  BY <1>1 DEF Ahead
<1>7. Ahead(s, close, p.stop) \in Int
  BY <1>1 DEF Ahead
<1>10. Ahead(s, close, p.stop) > 0 => ~(Ahead(s, close, p.stop) <= 0)
  BY <1>7
<1>2. CASE p.exit # "none"
  BY <1>2 DEF Bar
<1>3. CASE p.exit = "none" /\ Ahead(s, close, p.stop) <= 0
  <2> DEFINE x == p.gain + (Whole - p.sold) * way
             q == [p EXCEPT !.gain = x, !.exit = "stop_loss"]
  <2>1. Bar(s, p, close) = q
    BY <1>3, <1>7 DEF Bar
  <2>2. x \in Int
    <3> HIDE DEF way
    <3> QED
      BY <1>0, <1>1, GainTyped
  <2> HIDE DEF x
  <2>3. /\ q.stop = p.stop /\ q.hits = p.hits /\ q.sold = p.sold
        /\ q.gain = x /\ q.exit = "stop_loss"
        /\ q \in Positioned
    BY <1>1, <2>2 DEF Positioned
  <2> HIDE DEF q
  <2> QED
    BY <1>1, <2>1, <2>2, <2>3 DEF WalkInv
<1>4. CASE p.exit = "none" /\ Ahead(s, close, p.stop) > 0 /\ hit = {}
  BY <1>4, <1>7, <1>10 DEF Bar
<1>5. CASE p.exit = "none" /\ Ahead(s, close, p.stop) > 0 /\ hit # {} /\ level = n
  <2> DEFINE x == p.gain + (Whole - p.sold) * way
             q == [p EXCEPT !.gain = x, !.hits = p.hits + 1, !.exit = "take_profit"]
  <2>1. Bar(s, p, close) = q
    BY <1>5, <1>7, <1>10 DEF Bar
  <2>2. x \in Int
    <3> HIDE DEF way
    <3> QED
      BY <1>0, <1>1, GainTyped
  <2> HIDE DEF x
  <2>3. /\ q.stop = p.stop /\ q.hits = p.hits + 1 /\ q.sold = p.sold
        /\ q.gain = x /\ q.exit = "take_profit"
        /\ q \in Positioned
    <3> DEFINE h == p.hits + 1
    <3>1. h \in Nat /\ p \in Positioned
      BY <1>1
    <3> HIDE DEF h, hit, level, way, n, levels
    <3>2. q = [p EXCEPT !.gain = x, !.hits = h, !.exit = "take_profit"]
      BY DEF h
    <3> HIDE DEF q
    <3>3. /\ q.stop = p.stop /\ q.hits = h /\ q.sold = p.sold /\ q.gain = x
          /\ q.exit = "take_profit" /\ q \in Positioned
      BY <2>2, <3>1, <3>2 DEF Positioned
    <3> QED
      BY <3>3 DEF h
  <2> HIDE DEF q
  <2> QED
    BY <1>1, <2>1, <2>2, <2>3 DEF WalkInv
<1>6. CASE p.exit = "none" /\ Ahead(s, close, p.stop) > 0 /\ hit # {} /\ level # n
  <2> DEFINE x == p.gain + Share(s, level) * way
             q == [p EXCEPT !.gain = x, !.sold = p.sold + Share(s, level),
                            !.hits = p.hits + 1, !.stop = StopAfter(s, level, p.stop)]
  <2>1. Bar(s, p, close) = q
    BY <1>6, <1>7, <1>10 DEF Bar
  <2>2. level \in p.hits + 1 .. n /\ level < n /\ Ahead(s, close, levels[level]) >= 0
    <3>1. hit \in SUBSET (1..n)
      BY <1>1
    <3>2. level \in hit
      BY <1>1, <1>6, <3>1, FurthestOf
    <3> QED
      BY <1>1, <1>6, <3>2
  <2> HIDE DEF hit, level
  <2>3. level \in 1..n /\ p.hits + 1 \in 1..n /\ p.hits + 1 <= level /\ levels[level] \in Int
        /\ p.hits + 1 < n /\ DOMAIN levels = 1..n
    <3>1. level \in 1..n /\ p.hits + 1 \in 1..n /\ p.hits + 1 <= level /\ p.hits + 1 < n
      <4> HIDE DEF levels, n
      <4> QED
        BY SMTT(20), <1>1, <2>2
    <3>2. DOMAIN levels = 1..n
      BY <1>1
    <3>3. levels[level] \in Int
      BY <1>1, <3>1
    <3> QED
      BY <3>1, <3>2, <3>3
  <2>4. Share(s, level) \in Nat /\ Share(s, p.hits + 1) \in Nat
    BY <2>3, ShareTyped
  <2>5. StopAfter(s, level, p.stop) \in Int
    <3>1. level > 1 => levels[level - 1] \in Int
      BY <1>1, <2>3
    <3>2. p.stop + (s.entry - p.stop) \div 2 \in Int
      BY <1>1
    <3> QED
      BY <1>1, <2>3, <3>1, <3>2 DEF StopAfter
  <2>6. x \in Int
    <3> HIDE DEF way
    <3> QED
      BY <1>0, <1>1, <2>4, GainTyped
  <2>7. Sensible(s) => x >= 0
    <3> SUFFICES ASSUME Sensible(s) PROVE x >= 0
      OBVIOUS
    <3>1. Ahead(s, levels[level], s.entry) >= 0
      BY <2>3 DEF Sensible
    <3>2. /\ way = Ahead(s, close, levels[level]) + Ahead(s, levels[level], s.entry)
          /\ Ahead(s, close, levels[level]) \in Int /\ Ahead(s, levels[level], s.entry) \in Int
      <4> DEFINE y == levels[level]
      <4>1. y \in Int
        BY <2>3
      <4> HIDE DEF y, levels
      <4>2. /\ way = Ahead(s, close, y) + Ahead(s, y, s.entry)
            /\ Ahead(s, close, y) \in Int /\ Ahead(s, y, s.entry) \in Int
        BY <1>1, <4>1 DEF Ahead
      <4> QED
        BY <4>2 DEF y
    <3>3. p.gain >= 0
      BY <1>6 DEF WalkInv
    <3> HIDE DEF way
    <3>4. way >= 0
      BY <2>2, <3>1, <3>2
    <3>5. p.gain \in Int /\ Share(s, level) \in Int /\ Share(s, level) >= 0
      BY <1>1, <2>4
    <3> QED
      BY <1>0, <3>3, <3>4, <3>5, GainTyped
  <2>8. SharesDecline(s) => /\ p.sold + Share(s, level) <= Most(s, p.hits + 1)
                            /\ Most(s, p.hits + 1) <= Whole
    <3> SUFFICES ASSUME SharesDecline(s)
                 PROVE  /\ p.sold + Share(s, level) <= Most(s, p.hits + 1)
                        /\ Most(s, p.hits + 1) <= Whole
      OBVIOUS
    <3>1. Share(s, level) <= Share(s, p.hits + 1)
      BY <2>3 DEF SharesDecline
    <3>2. p.sold <= Most(s, p.hits)
      BY <1>6 DEF WalkInv
    <3>3. p.hits < n
      BY <1>1, <2>3
    <3>4. Most(s, p.hits + 1) = Most(s, p.hits) + Share(s, p.hits + 1) /\ Most(s, p.hits) \in Nat
      BY <1>1, <3>3, MostGrows
    <3>5. Most(s, p.hits + 1) <= Whole
      BY <1>1, <2>3, MostGrows
    <3> QED
      BY <1>1, <2>4, <3>1, <3>2, <3>4, <3>5
  <2> DEFINE sold == p.sold + Share(s, level)
  <2>9. sold \in Int
    BY <1>1, <2>4
  <2> HIDE DEF x
  <2>10. /\ q.stop = StopAfter(s, level, p.stop) /\ q.hits = p.hits + 1 /\ q.sold = sold
         /\ q.gain = x /\ q.exit = "none"
         /\ q \in Positioned
    <3> DEFINE h == p.hits + 1
               stop == StopAfter(s, level, p.stop)
    <3>1. h \in Nat /\ stop \in Int /\ p \in Positioned /\ p.exit = "none"
      BY <1>1, <1>6, <2>5
    <3>2. q = [p EXCEPT !.gain = x, !.sold = sold, !.hits = h, !.stop = stop]
      BY DEF sold
    <3> HIDE DEF h, stop, way, n, levels, sold, q
    <3>3. /\ q.stop = stop /\ q.hits = h /\ q.sold = sold /\ q.gain = x /\ q.exit = p.exit
          /\ q \in Positioned
      BY <2>6, <2>9, <3>1, <3>2 DEF Positioned
    <3> QED
      BY <3>1, <3>3 DEF h, stop
  <2> HIDE DEF q
  <2>11. SharesDecline(s) => sold <= Whole
    <3>1. Most(s, p.hits + 1) \in Nat
      <4>1. p.hits + 1 \in Nat /\ p.hits + 1 < Len(TpLevels(s))
        BY <1>1, <2>3
      <4> QED
        BY <4>1, MostGrows
    <3> QED
      BY <2>8, <2>9, <3>1 DEF Whole
  <2>12. SharesDecline(s) => sold <= Most(s, p.hits + 1)
    BY <2>8
  <2> HIDE DEF sold
  <2>13. WalkInv(s, q)
    BY <1>1, <2>3, <2>5, <2>6, <2>7, <2>9, <2>10, <2>11, <2>12 DEF WalkInv
  <2> QED
    BY <2>1, <2>13
<1>8. Ahead(s, close, p.stop) <= 0 \/ Ahead(s, close, p.stop) > 0
  BY <1>7
<1>9. p.exit = "none" \/ p.exit # "none"
  OBVIOUS
<1> HIDE DEF hit, level, way, n
<1> QED
  BY <1>2, <1>3, <1>4, <1>5, <1>6, <1>8, <1>9

\* The position after every close, as Walk works it out, keeps the invariant.
LEMMA WalkHolds ==
  ASSUME NEW s, GoodPlan(s), TpLevels(s) # <<>>, NEW c \in Seq(Int)
  PROVE  WalkInv(s, Walk(s, c)[Len(c)])
<1> DEFINE first == [stop |-> s.sl, hits |-> 0, sold |-> 0, gain |-> 0, exit |-> "none"]
           Body(h, m) == [n \in 0..m |-> IF n = 0 THEN first ELSE Bar(s, h[n - 1], c[n])]
<1>1. Len(c) \in Nat
  OBVIOUS
<1>2. \E h : h = Body(h, Len(c))
  <2> DEFINE S == {m \in Nat : \E h : h = Body(h, m)}
  <2> HIDE DEF first
  <2>1. 0 \in S
    <3> DEFINE h == [n \in 0..0 |-> first]
    <3>1. h = Body(h, 0)
      OBVIOUS
    <3> QED
      BY <3>1
  <2>2. ASSUME NEW m \in Nat, m \in S PROVE m + 1 \in S
    <3>1. PICK h : h = Body(h, m)
      BY <2>2
    <3> DEFINE v == Bar(s, h[m], c[m + 1])
               g == [n \in 0..(m + 1) |-> IF n = m + 1 THEN v ELSE h[n]]
    <3>2. (\A n \in 0..m : g[n] = h[n]) /\ g[m + 1] = v
      OBVIOUS
    <3>3. ASSUME NEW n \in 0..(m + 1)
          PROVE  g[n] = IF n = 0 THEN first ELSE Bar(s, g[n - 1], c[n])
      <4>1. CASE n = m + 1
        <5>1. g[n - 1] = h[m] /\ n # 0
          BY <3>2, <4>1
        <5> HIDE DEF g
        <5> QED
          BY <3>2, <4>1, <5>1
      <4>2. CASE n \in 0..m
        <5>1. g[n] = h[n] /\ (n # 0 => g[n - 1] = h[n - 1])
          BY <3>2, <4>2
        <5>2. h[n] = IF n = 0 THEN first ELSE Bar(s, h[n - 1], c[n])
          BY <3>1, <4>2
        <5> HIDE DEF g
        <5> QED
          BY <5>1, <5>2
      <4> QED
        BY <4>1, <4>2
    <3>4. g = Body(g, m + 1)
      BY <3>3
    <3> HIDE DEF g, Body
    <3> QED
      BY <3>4
  <2> HIDE DEF S
  <2>3. Len(c) \in S
    BY <1>1, <2>1, <2>2, Inductive
  <2> QED
    BY <2>3 DEF S
<1>3. Walk(s, c) = CHOOSE h : h = Body(h, Len(c))
  BY DEF Walk
<1>4. Walk(s, c) = Body(Walk(s, c), Len(c))
  BY <1>2, <1>3
<1> DEFINE walk == Walk(s, c)
<1> HIDE DEF walk, first
<1>5. walk = Body(walk, Len(c))
  BY <1>4 DEF walk
<1>10. \A n \in 0..Len(c) : walk[n] = IF n = 0 THEN first ELSE Bar(s, walk[n - 1], c[n])
  BY <1>5
<1>6. walk[0] = first /\ \A n \in 0..Len(c) : n # 0 => walk[n] = Bar(s, walk[n - 1], c[n])
  BY <1>1, <1>10
<1> DEFINE T == {m \in Nat : m <= Len(c) => WalkInv(s, walk[m])}
<1>7. 0 \in T
  BY <1>6, WalkStarts DEF first
<1>8. ASSUME NEW m \in Nat, m \in T PROVE m + 1 \in T
  <2> SUFFICES ASSUME m + 1 <= Len(c) PROVE WalkInv(s, walk[m + 1])
    OBVIOUS
  <2>1. m + 1 \in 0..Len(c) /\ m + 1 # 0 /\ (m + 1) - 1 = m /\ c[m + 1] \in Int
    BY <1>1
  <2>2. walk[m + 1] = Bar(s, walk[m], c[m + 1])
    BY <1>6, <2>1
  <2>3. WalkInv(s, walk[m])
    BY <1>1, <1>8
  <2> QED
    BY <2>1, <2>2, <2>3, BarKeeps
<1> HIDE DEF T
<1>9. Len(c) \in T
  BY <1>1, <1>7, <1>8, Inductive
<1> QED
  BY <1>9 DEF T, walk

\* A label that says something says the truth.
SoundLabel(s, l) ==
  l.outcome \in Resolved /\ HasFeatures(s) =>
    /\ SharesDecline(s) => l.sold <= Whole
    /\ Sensible(s) => (TargetOf(l) = 1 <=> l.gain < 0)

LEMMA SimulateIsSound ==
  ASSUME NEW s, GoodPlan(s), NEW c \in Seq(Int)
  PROVE  SoundLabel(s, Simulate(s, c))
<1> DEFINE p == Walk(s, c)[Len(c)]
           label1(outcome) == [outcome |-> outcome, gain |-> p.gain, hits |-> p.hits, sold |-> p.sold]
<1>1. CASE TpLevels(s) = <<>>
  BY <1>1 DEF SoundLabel, HasFeatures
<1>2. CASE TpLevels(s) # <<>> /\ c = <<>>
  BY <1>2 DEF SoundLabel, Simulate, Unresolved, Resolved
<1>3. CASE TpLevels(s) # <<>> /\ c # <<>>
  <2>1. WalkInv(s, p)
    BY <1>3, WalkHolds
  <2>2. \E outcome : /\ Simulate(s, c) = label1(outcome)
                     /\ p.exit # "none" => outcome = OutcomeOf(p.gain)
                     /\ p.exit = "none" => outcome \in {"win", "unresolved"}
    <3>1. CASE p.exit # "none"
      BY <1>3, <3>1 DEF Simulate
    <3>2. CASE p.exit = "none"
      BY <1>3, <3>2 DEF Simulate
    <3> QED
      BY <3>1, <3>2
  <2> HIDE DEF p
  <2>3. PICK outcome : /\ Simulate(s, c) = label1(outcome)
                       /\ p.exit # "none" => outcome = OutcomeOf(p.gain)
                       /\ p.exit = "none" => outcome \in {"win", "unresolved"}
    BY <2>2
  <2> DEFINE l == Simulate(s, c)
  <2>4. l.outcome = outcome /\ l.gain = p.gain /\ l.sold = p.sold
    BY <2>3
  <2> HIDE DEF l
  <2>5. p.gain \in Int /\ (SharesDecline(s) => p.sold <= Whole)
        /\ (Sensible(s) /\ p.exit = "none" => p.gain >= 0)
    BY <2>1 DEF WalkInv, Positioned
  <2>6. TargetOf(l) = 1 <=> outcome = "loss"
    BY <2>4 DEF TargetOf
  <2>7. Sensible(s) => (outcome = "loss" <=> p.gain < 0)
    <3>1. CASE p.exit # "none"
      BY <2>3, <2>5, <3>1 DEF OutcomeOf
    <3>2. CASE p.exit = "none"
      BY <2>3, <2>5, <3>2
    <3> QED
      BY <3>1, <3>2
  <2>8. SoundLabel(s, l)
    BY <2>4, <2>5, <2>6, <2>7 DEF SoundLabel
  <2> QED
    BY <2>8 DEF l
<1> QED
  BY <1>1, <1>2, <1>3
-----------------------------------------------------------------------------
(* The labels of the rows.                                                 *)

Priced == {i \in MessageIds : Kind[i] = "signal" /\ Plan[i].entry # NoPrice /\ Plan[i].sl # NoPrice}

LabelInv ==
  /\ \A i \in Replayed : \E closes \in Seq(Int) : replay[i] = Simulate(Plan[i], closes)
  /\ \A i \in MessageIds : status[i] = "parsed" => Kind[i] = "signal"
  /\ label = [i \in MessageIds |-> label[i]]
  /\ \A i \in MessageIds : label[i] # NoLabel => i \in Replayed /\ label[i] = replay[i]
  /\ sims \in [Presses -> [todo : SUBSET Priced, fetched : BOOLEAN]]
  /\ \A p \in Presses : sims[p].fetched => sims[p].todo # {} /\ Current(p) \notin NoCandles

LEMMA LabelInit == Init => LabelInv
<1> SUFFICES ASSUME Init PROVE LabelInv
  OBVIOUS
<1>1. \A i \in Replayed : \E closes \in Seq(Int) : replay[i] = Simulate(Plan[i], closes)
  BY HistoryAssumption DEF Init
<1>2. sims \in [Presses -> [todo : SUBSET Priced, fetched : BOOLEAN]]
      /\ \A p \in Presses : ~sims[p].fetched
  BY DEF Init, NoRequest
<1> QED
  BY <1>1, <1>2 DEF Init, LabelInv

\* The rows, their labels and the replays are as they were, and so is every request.
LEMMA LabelKept ==
  ASSUME LabelInv, \A i \in MessageIds : status'[i] = "parsed" => Kind[i] = "signal",
         UNCHANGED <<label, replay>>,
         \/ sims' = sims
         \/ \E p \in Presses : sims' = [sims EXCEPT ![p] = NoRequest]
         \/ sims' = [p \in Presses |-> NoRequest]
  PROVE  LabelInv'
<1>1. CASE sims' = sims
  BY <1>1 DEF LabelInv, Current
<1>2. ASSUME NEW p \in Presses, sims' = [sims EXCEPT ![p] = NoRequest] PROVE LabelInv'
  <2>1. NoRequest \in [todo : SUBSET Priced, fetched : BOOLEAN] /\ NoRequest.fetched = FALSE
    BY DEF NoRequest
  <2> QED
    BY <1>2, <2>1 DEF LabelInv, Current
<1>3. CASE sims' = [p \in Presses |-> NoRequest]
  <2>1. NoRequest \in [todo : SUBSET Priced, fetched : BOOLEAN] /\ NoRequest.fetched = FALSE
    BY DEF NoRequest
  <2> QED
    BY <1>3, <2>1 DEF LabelInv, Current
<1> QED
  BY <1>1, <1>2, <1>3

\* A request goes on to its next signal.
LEMMA GoesOnKeeps ==
  ASSUME LabelInv, NEW p \in Presses, GoesOn(p), UNCHANGED <<status, replay>>,
         label' = [i \in MessageIds |-> label'[i]],
         \A i \in MessageIds : label'[i] # NoLabel => i \in Replayed /\ label'[i] = replay[i]
  PROVE  LabelInv'
<1> DEFINE t == [todo |-> sims[p].todo \ {Current(p)}, fetched |-> FALSE]
<1>1. sims' = [sims EXCEPT ![p] = t] /\ t \in [todo : SUBSET Priced, fetched : BOOLEAN]
      /\ t.fetched = FALSE
  BY DEF GoesOn, LabelInv
<1> HIDE DEF t
<1>2. /\ sims' \in [Presses -> [todo : SUBSET Priced, fetched : BOOLEAN]]
      /\ \A q \in Presses : sims'[q].fetched => q # p /\ sims'[q] = sims[q]
  BY <1>1 DEF LabelInv
<1> QED
  BY <1>2 DEF LabelInv, Current

LEMMA CurrentTyped ==
  ASSUME LabelInv, NEW p \in Presses, sims[p].todo # {}
  PROVE  Current(p) \in sims[p].todo /\ Current(p) \in Priced
<1>1. sims[p].todo \in SUBSET Nat
  BY DEF LabelInv, Priced, MessageIds
<1> QED
  BY <1>1, OldestOf DEF Current, LabelInv

LEMMA SimKeeps == ASSUME LabelInv, NEW p \in Presses, Sim(p) PROVE LabelInv'
<1>1. CASE SimStarts(p)
  <2>1. SimTodo \in SUBSET Priced
    BY DEF SimTodo, Eligible, Priced, LabelInv
  <2> DEFINE t == [todo |-> SimTodo, fetched |-> FALSE]
  <2>2. t \in [todo : SUBSET Priced, fetched : BOOLEAN] /\ t.fetched = FALSE
        /\ sims' = [sims EXCEPT ![p] = t] /\ UNCHANGED <<status, label, replay>>
    BY <1>1, <2>1 DEF SimStarts
  <2> HIDE DEF t
  <2>3. /\ sims' \in [Presses -> [todo : SUBSET Priced, fetched : BOOLEAN]]
        /\ \A q \in Presses : sims'[q].fetched => q # p /\ sims'[q] = sims[q]
    BY <2>2 DEF LabelInv
  <2> QED
    BY <2>2, <2>3 DEF LabelInv, Current
<1>2. CASE SimFails(p)
  BY <1>2, LabelKept DEF SimFails, LabelInv
<1>3. CASE SimFetches(p)
  <2>1. CASE GoesOn(p)
    BY <1>3, <2>1, GoesOnKeeps DEF SimFetches, LabelInv
  <2>2. CASE sims' = [sims EXCEPT ![p].fetched = TRUE] /\ Current(p) \notin NoCandles
    <3>1. sims[p].todo # {}
      BY <1>3 DEF SimFetches, LabelInv, NoRequest
    <3>2. /\ sims' \in [Presses -> [todo : SUBSET Priced, fetched : BOOLEAN]]
          /\ \A q \in Presses : sims'[q].todo = sims[q].todo /\ (q # p => sims'[q] = sims[q])
      BY <2>2 DEF LabelInv
    <3>3. \A q \in Presses : sims'[q].fetched => sims'[q].todo # {} /\ Current(q)' \notin NoCandles
      BY <2>2, <3>1, <3>2 DEF LabelInv, Current
    <3> QED
      BY <1>3, <3>2, <3>3 DEF LabelInv, SimFetches
  <2> QED
    BY <1>3, <2>1, <2>2 DEF SimFetches
<1>4. CASE SimWrites(p)
  <2> DEFINE i == Current(p)
  <2>1. i \in Replayed /\ i \in MessageIds
    <3>1. sims[p].todo # {} /\ i \notin NoCandles
      BY <1>4 DEF SimWrites, LabelInv
    <3> QED
      BY <3>1, CurrentTyped DEF Priced, Replayed
  <2>2. label' = [label EXCEPT ![i] = replay[i]] /\ GoesOn(p) /\ UNCHANGED <<status, replay>>
    BY <1>4 DEF SimWrites
  <2> HIDE DEF i
  <2>3. /\ label' = [j \in MessageIds |-> label'[j]]
        /\ \A j \in MessageIds : label'[j] # NoLabel => j \in Replayed /\ label'[j] = replay[j]
    BY <2>1, <2>2 DEF LabelInv
  <2> QED
    BY <2>2, <2>3, GoesOnKeeps
<1> QED
  BY <1>1, <1>2, <1>3, <1>4 DEF Sim

LEMMA LabelStep == ASSUME LabelInv, HistoryInv, [Next]_vars PROVE LabelInv'
<1>1. ASSUME NEW p \in Presses, Sim(p) PROVE LabelInv'
  BY <1>1, SimKeeps
<1>2. CASE Stores
  <2>1. run.next \in MessageIds
    BY <1>2 DEF Stores, HistoryInv, Types, Idle
  <2>2. \A i \in MessageIds : status'[i] = "parsed" => Kind[i] = "signal"
    BY <1>2, <2>1 DEF Stores, HistoryInv, Types, LabelInv, ParseStatus
  <2> QED
    BY <1>2, <2>2, LabelKept DEF Stores
<1>3. CASE Post \/ Press \/ Locks \/ Fails \/ Reads \/ Fetches \/ Restart \/ UNCHANGED vars
  <2>1. UNCHANGED <<status, label, replay>>
        /\ (sims' = sims \/ sims' = [p \in Presses |-> NoRequest])
    BY <1>3 DEF Post, Press, Locks, Fails, Reads, Fetches, Restart, vars
  <2> QED
    BY <2>1, LabelKept DEF LabelInv
<1> QED
  BY <1>1, <1>2, <1>3 DEF Next

\* Whatever a channel posts, in whatever order its signals are replayed and whatever fails, what the
\* classifier learns is sound: no replay sells more than the position as long as the shares do not
\* grow from target to target, and "lost" is said exactly of what has lost as long as the targets
\* lie where the trade wins.
THEOREM LabelsAreSound == Spec => []LearnsSoundLabels
<1>1. Init => HistoryInv /\ LabelInv
  BY HistoryInit, LabelInit
<1>2. HistoryInv /\ LabelInv /\ [Next]_vars => HistoryInv' /\ LabelInv'
  BY HistoryStep, LabelStep
<1>3. LabelInv => LearnsSoundLabels
  <2> SUFFICES ASSUME LabelInv, NEW i \in TrainingSet
               PROVE  /\ SharesDecline(Plan[i]) => label[i].sold <= Whole
                      /\ Sensible(Plan[i]) => (TargetOf(label[i]) = 1 <=> label[i].gain < 0)
    BY DEF LearnsSoundLabels
  <2>1. /\ i \in Replayed /\ i \in MessageIds /\ label[i].outcome \in Resolved
        /\ HasFeatures(Plan[i]) /\ label[i] = replay[i]
    BY DEF TrainingSet, LabelInv, Stored
  <2>2. PICK closes \in Seq(Int) : label[i] = Simulate(Plan[i], closes)
    BY <2>1 DEF LabelInv
  <2>3. GoodPlan(Plan[i])
    BY <2>1, PlanAssumption DEF Replayed, GoodPlan
  <2>4. SoundLabel(Plan[i], label[i])
    BY <2>2, <2>3, SimulateIsSound
  <2> QED
    BY <2>1, <2>4 DEF SoundLabel
<1> QED
  BY <1>1, <1>2, <1>3, PTL DEF Spec
-----------------------------------------------------------------------------
(***************************************************************************)
(* ChannelIntake                                                           *)
(***************************************************************************)

\* What the look-ups and requests under way rely on.  A channel no requests have met at keeps its row
\* while it is looked up, has lost it while it is being taken off, and is known by the id of the row
\* when it is heard.  HeardAsListed says this of the channels nothing is busy with.
Kept(c) ==
  /\ \A n \in 1..MaxRows : <<c, n>> \in adding => rows[c] = n
  /\ c \in todo => rows[c] # 0 /\ ids[c] = rows[c]
  /\ \A n \in 1..MaxRows : <<c, n>> \in deleting => rows[c] = 0
  /\ c \in live => \/ \E n \in 1..MaxRows : <<c, n>> \in deleting
                   \/ rows[c] # 0 /\ ids[c] = rows[c]

Placed ==
  /\ \A c \in Channels : rows[c] <= made
  /\ \A x \in Chats : heard[x] # NoChannel => Chat[heard[x]] = x
  /\ \A c \in Channels : heard[Chat[c]] = c <=> c \in live

ListInv == Placed /\ \A c \in Channels : c \in crossed \/ Kept(c)

\* A message on its way from a channel whose row is still the one it had when the message came: its
\* id is known, unless requests met at the channel.  Rows are never numbered twice.
Known(c, row) ==
  /\ c \in Channels /\ row \in 0..made
  /\ row # 0 /\ rows[c] = row => c \in crossed \/ ids[c] = row

Over(m) == flight[m].step \in {"unposted", "end"}

FlightInv ==
  /\ flight = [m \in Messages |-> flight[m]]
  /\ \A m \in Messages : Over(m) \/ Known(flight[m].of, flight[m].row)

IntakeInv == TypeOK /\ ListInv /\ FlightInv

-----------------------------------------------------------------------------
(* The list of channels.                                                   *)

LEMMA InitHolds == IntakeInit => IntakeInv
<1> SUFFICES ASSUME IntakeInit PROVE IntakeInv
  OBVIOUS
<1> USE IntakeAssumption DEF IntakeInit
<1>1. TypeOK
  <2>1. rows \in [Channels -> 0..MaxRows] /\ ids \in [Channels -> 0..MaxRows]
    OBVIOUS
  <2>2. heard \in [Chats -> Channels \cup {NoChannel}]
    OBVIOUS
  <2>3. made \in 0..MaxRows /\ restarts \in 0..MaxRestarts
    OBVIOUS
  <2>4. /\ adding \subseteq Channels \X (1..MaxRows) /\ deleting \subseteq Channels \X (1..MaxRows)
        /\ live \subseteq Channels /\ todo \subseteq Channels /\ crossed \subseteq Channels
    OBVIOUS
  <2> QED
    BY <2>1, <2>2, <2>3, <2>4 DEF TypeOK
<1>2. ListInv
  BY DEF ListInv, Placed, Kept
<1>3. FlightInv
  BY DEF FlightInv, Over, Unposted
<1> QED
  BY <1>1, <1>2, <1>3 DEF IntakeInv

\* A message on its way changes nothing of the list.
LEMMA PassesOnly ==
  ASSUME NEW m \in Messages, Passes(m)
  PROVE  UNCHANGED <<listed, memory>>
BY DEF Passes, Arrives, Downloads, Asks, Judges

LEMMA TypesKept ==
  ASSUME TypeOK, FlightInv, [IntakeNext]_intakeVars
  PROVE  TypeOK'
<1> USE IntakeAssumption DEF TypeOK
<1>1. CASE Connects
  BY <1>1 DEF Connects, listed
<1>2. CASE ReadsList
  BY <1>2 DEF ReadsList, listed
<1>3. ASSUME NEW c \in Channels, LooksUp(c) PROVE TypeOK'
  BY <1>3 DEF LooksUp, FoundAt, listed
<1>4. ASSUME NEW c \in Channels, Creates(c) PROVE TypeOK'
  <2>1. made + 1 \in 1..MaxRows
    BY <1>4 DEF Creates
  <2> QED
    BY <1>4, <2>1 DEF Creates, Crosses
<1>5. ASSUME NEW c \in Channels, NEW n \in 1..MaxRows, Adds(c, n) PROVE TypeOK'
  BY <1>5 DEF Adds, FoundAt, listed
<1>6. ASSUME NEW c \in Channels, Deletes(c) PROVE TypeOK'
  BY <1>6 DEF Deletes, Crosses
<1>7. ASSUME NEW c \in Channels, NEW n \in 1..MaxRows, TakesOff(c, n) PROVE TypeOK'
  BY <1>7 DEF TakesOff, Uncrosses, listed
<1>8. ASSUME NEW m \in Messages, Passes(m) PROVE TypeOK'
  BY <1>8, PassesOnly DEF listed, memory
<1>9. CASE IntakeRestart
  <2>1. rows' = rows /\ made' = made /\ restarts' \in 0..MaxRestarts
    BY <1>9 DEF IntakeRestart
  <2>2. ids' \in [Channels -> 0..MaxRows] /\ heard' \in [Chats -> Channels \cup {NoChannel}]
    BY <1>9 DEF IntakeRestart
  <2>3. /\ client' = FALSE /\ stage' = "init"
        /\ todo' = {} /\ adding' = {} /\ deleting' = {} /\ live' = {} /\ crossed' = {}
    BY <1>9 DEF IntakeRestart
  <2> QED
    BY <2>1, <2>2, <2>3
<1>10. CASE UNCHANGED intakeVars
  BY <1>10 DEF intakeVars, listed, memory
<1> QED
  BY <1>1, <1>2, <1>3, <1>4, <1>5, <1>6, <1>7, <1>8, <1>9, <1>10 DEF IntakeNext

\* A step that leaves a channel alone.
Apart(c) ==
  /\ rows'[c] = rows[c] /\ ids'[c] = ids[c] /\ (c \in todo' <=> c \in todo)
  /\ (c \in live' <=> c \in live) /\ (c \in crossed' <=> c \in crossed)
  /\ \A n \in 1..MaxRows : /\ <<c, n>> \in adding' <=> <<c, n>> \in adding
                           /\ <<c, n>> \in deleting' <=> <<c, n>> \in deleting

LEMMA KeptApart ==
  ASSUME NEW c \in Channels, c \in crossed \/ Kept(c), Apart(c)
  PROVE  (c \in crossed \/ Kept(c))'
BY DEF Kept, Apart

LEMMA ListKept ==
  ASSUME TypeOK, ListInv, [IntakeNext]_intakeVars
  PROVE  ListInv'
<1> USE IntakeAssumption DEF TypeOK
<1>1. Placed'
  <2>1. CASE Connects
    BY <2>1 DEF Connects, listed, ListInv, Placed
  <2>2. CASE ReadsList
    BY <2>2 DEF ReadsList, listed, ListInv, Placed
  <2>3. ASSUME NEW c \in Channels, LooksUp(c) PROVE Placed'
    BY <2>3 DEF LooksUp, FoundAt, listed, ListInv, Placed
  <2>4. ASSUME NEW c \in Channels, Creates(c) PROVE Placed'
    BY <2>4 DEF Creates, ListInv, Placed
  <2>5. ASSUME NEW c \in Channels, NEW n \in 1..MaxRows, Adds(c, n) PROVE Placed'
    BY <2>5 DEF Adds, FoundAt, listed, ListInv, Placed
  <2>6. ASSUME NEW c \in Channels, Deletes(c) PROVE Placed'
    BY <2>6 DEF Deletes, ListInv, Placed
  <2>7. ASSUME NEW c \in Channels, NEW n \in 1..MaxRows, TakesOff(c, n) PROVE Placed'
    BY <2>7 DEF TakesOff, listed, ListInv, Placed
  <2>8. ASSUME NEW m \in Messages, Passes(m) PROVE Placed'
    BY <2>8, PassesOnly DEF ListInv, Placed, listed, memory
  <2>9. CASE IntakeRestart
    BY <2>9 DEF IntakeRestart, ListInv, Placed
  <2>10. CASE UNCHANGED intakeVars
    BY <2>10 DEF intakeVars, listed, memory, ListInv, Placed
  <2> QED
    BY <2>1, <2>2, <2>3, <2>4, <2>5, <2>6, <2>7, <2>8, <2>9, <2>10 DEF IntakeNext
<1>2. ASSUME NEW d \in Channels PROVE (d \in crossed \/ Kept(d))'
  <2>0. d \in crossed \/ Kept(d)
    BY DEF ListInv
  <2>1. CASE Connects
    BY <2>0, <2>1, KeptApart DEF Connects, listed, Apart
  <2>2. CASE ReadsList
    BY <2>0, <2>2 DEF ReadsList, listed, Kept
  <2>3. ASSUME NEW c \in Channels, LooksUp(c) PROVE (d \in crossed \/ Kept(d))'
    <3>1. CASE c = d
      BY <2>0, <2>3, <3>1 DEF LooksUp, FoundAt, listed, Kept
    <3>2. CASE c # d
      BY <2>0, <2>3, <3>2, KeptApart DEF LooksUp, FoundAt, listed, Apart
    <3> QED
      BY <3>1, <3>2
  <2>4. ASSUME NEW c \in Channels, Creates(c) PROVE (d \in crossed \/ Kept(d))'
    <3>1. CASE c = d /\ ~Busy(c)
      <4>1. c \notin todo /\ \A n \in 1..MaxRows : <<c, n>> \notin adding /\ <<c, n>> \notin deleting
        BY <3>1 DEF Busy
      <4> QED
        BY <2>0, <2>4, <3>1, <4>1 DEF Creates, Crosses, ListInv, Kept
    <3>2. CASE c = d /\ Busy(c)
      BY <2>4, <3>2 DEF Creates, Crosses
    <3>3. CASE c # d
      BY <2>0, <2>4, <3>3, KeptApart DEF Creates, Crosses, Apart
    <3> QED
      BY <3>1, <3>2, <3>3
  <2>5. ASSUME NEW c \in Channels, NEW n \in 1..MaxRows, Adds(c, n) PROVE (d \in crossed \/ Kept(d))'
    <3>1. CASE c = d
      BY <2>0, <2>5, <3>1 DEF Adds, FoundAt, listed, Kept
    <3>2. CASE c # d
      BY <2>0, <2>5, <3>2, KeptApart DEF Adds, FoundAt, listed, Apart
    <3> QED
      BY <3>1, <3>2
  <2>6. ASSUME NEW c \in Channels, Deletes(c) PROVE (d \in crossed \/ Kept(d))'
    <3>1. CASE c = d /\ ~Busy(c)
      <4>1. c \notin todo /\ \A n \in 1..MaxRows : <<c, n>> \notin adding
        BY <3>1 DEF Busy
      <4>2. rows[c] \in 1..MaxRows /\ <<c, rows[c]>> \in deleting' /\ rows'[c] = 0
        BY <2>6 DEF Deletes
      <4>3. UNCHANGED <<todo, adding, live>>
        BY <2>6 DEF Deletes
      <4> QED
        BY <3>1, <4>1, <4>2, <4>3 DEF Kept
    <3>2. CASE c = d /\ Busy(c)
      BY <2>6, <3>2 DEF Deletes, Crosses
    <3>3. CASE c # d
      BY <2>0, <2>6, <3>3, KeptApart DEF Deletes, Crosses, Apart
    <3> QED
      BY <3>1, <3>2, <3>3
  <2>7. ASSUME NEW c \in Channels, NEW n \in 1..MaxRows, TakesOff(c, n) PROVE (d \in crossed \/ Kept(d))'
    <3>1. CASE c = d /\ c \in crossed'
      BY <3>1
    <3>2. CASE c = d /\ c \notin crossed'
      <4>1. c \notin live' /\ UNCHANGED <<rows, todo, adding>>
        BY <2>7 DEF TakesOff, listed
      <4>2. CASE c \in crossed
        <5>1. rows[c] = 0 /\ c \notin todo /\ \A k \in 1..MaxRows : <<c, k>> \notin adding \cup deleting'
          BY <2>7, <3>2, <4>2 DEF TakesOff, Uncrosses
        <5> QED
          BY <3>2, <4>1, <5>1 DEF Kept
      <4>3. CASE c \notin crossed
        <5>1. rows[c] = 0 /\ c \notin todo /\ \A k \in 1..MaxRows : <<c, k>> \notin adding
          BY <2>0, <2>7, <3>2, <4>3 DEF TakesOff, Kept
        <5> QED
          BY <3>2, <4>1, <5>1 DEF Kept
      <4> QED
        BY <4>2, <4>3
    <3>3. CASE c # d
      BY <2>0, <2>7, <3>3, KeptApart DEF TakesOff, Uncrosses, listed, Apart
    <3> QED
      BY <3>1, <3>2, <3>3
  <2>8. ASSUME NEW m \in Messages, Passes(m) PROVE (d \in crossed \/ Kept(d))'
    BY <2>0, <2>8, PassesOnly, KeptApart DEF listed, memory, Apart
  <2>9. CASE IntakeRestart
    BY <2>9 DEF IntakeRestart, Kept
  <2>10. CASE UNCHANGED intakeVars
    BY <2>0, <2>10, KeptApart DEF intakeVars, listed, memory, Apart
  <2> QED
    BY <2>1, <2>2, <2>3, <2>4, <2>5, <2>6, <2>7, <2>8, <2>9, <2>10 DEF IntakeNext
<1> QED
  BY <1>1, <1>2 DEF ListInv

-----------------------------------------------------------------------------
(* The messages.                                                           *)

\* Of the steps of the list only a restart touches the messages, and those on their way are over.
LEMMA ListOnly ==
  ASSUME [IntakeNext]_intakeVars, \A m \in Messages : ~Passes(m)
  PROVE  flight' = flight \/ IntakeRestart
<1>1. ASSUME NEW c \in Channels, LooksUp(c) \/ Creates(c) \/ Deletes(c) PROVE flight' = flight
  BY <1>1 DEF LooksUp, Creates, Deletes
<1>2. ASSUME NEW c \in Channels, NEW n \in 1..MaxRows, Adds(c, n) \/ TakesOff(c, n) PROVE flight' = flight
  BY <1>2 DEF Adds, TakesOff
<1>3. Connects \/ ReadsList \/ UNCHANGED intakeVars => flight' = flight
  BY DEF Connects, ReadsList, intakeVars
<1> QED
  BY <1>1, <1>2, <1>3 DEF IntakeNext

\* A message that has been heard stays with the channel it was heard from.
LEMMA HandledStays ==
  ASSUME NEW x, NEW c, NEW row, NEW image
  PROVE  LET h == Handled(x, c, row, image)
         IN  h.step = "end" \/ (h.of = c /\ h.row = row)
<1>1. ASSUME NEW models
      PROVE  LET h == Asking(x, c, row, models)
             IN  h.step = "end" \/ (h.of = c /\ h.row = row)
  BY DEF Asking, End
<1> QED
  BY <1>1 DEF Handled, Read, End

LEMMA KnownKept ==
  ASSUME TypeOK, ListInv, [IntakeNext]_intakeVars, ~IntakeRestart,
         NEW c, NEW row, Known(c, row)
  PROVE  Known(c, row)'
<1> USE IntakeAssumption DEF TypeOK, Known
<1>1. CASE Connects
  BY <1>1 DEF Connects, listed
<1>2. CASE ReadsList
  BY <1>2 DEF ReadsList, listed
<1>3. ASSUME NEW d \in Channels, LooksUp(d) PROVE Known(c, row)'
  BY <1>3 DEF LooksUp, listed
<1>4. ASSUME NEW d \in Channels, Creates(d) PROVE Known(c, row)'
  BY <1>4 DEF Creates, Crosses
<1>5. ASSUME NEW d \in Channels, NEW n \in 1..MaxRows, Adds(d, n) PROVE Known(c, row)'
  BY <1>5 DEF Adds, listed, ListInv, Kept
<1>6. ASSUME NEW d \in Channels, Deletes(d) PROVE Known(c, row)'
  BY <1>6 DEF Deletes, Crosses
<1>7. ASSUME NEW d \in Channels, NEW n \in 1..MaxRows, TakesOff(d, n) PROVE Known(c, row)'
  BY <1>7 DEF TakesOff, Uncrosses, listed, ListInv, Kept
<1>8. ASSUME NEW m \in Messages, Passes(m) PROVE Known(c, row)'
  BY <1>8, PassesOnly DEF listed, memory
<1>9. CASE UNCHANGED intakeVars
  BY <1>9 DEF intakeVars, listed, memory
<1> QED
  BY <1>1, <1>2, <1>3, <1>4, <1>5, <1>6, <1>7, <1>8, <1>9 DEF IntakeNext

\* Whoever is heard when a message comes is known by the id of its row, or its row is gone.
LEMMA HeardIsKnown ==
  ASSUME TypeOK, ListInv, NEW x \in Chats, heard[x] # NoChannel
  PROVE  Known(heard[x], rows[heard[x]])
<1>1. heard[x] \in Channels /\ Chat[heard[x]] = x
  BY IntakeAssumption DEF TypeOK, ListInv, Placed
<1> DEFINE c == heard[x]
<1>2. c \in live /\ rows[c] \in 0..made
  BY <1>1 DEF TypeOK, ListInv, Placed
<1>3. c \in crossed \/ rows[c] = 0 \/ ids[c] = rows[c]
  BY <1>1, <1>2 DEF TypeOK, ListInv, Kept
<1> QED
  BY <1>1, <1>2, <1>3 DEF Known

\* One step of a message.
LEMMA PassStays ==
  ASSUME TypeOK, ListInv, FlightInv, NEW m \in Messages, Passes(m)
  PROVE  /\ flight' = [flight EXCEPT ![m] = flight'[m]]
         /\ flight'[m].step = "end" \/ Known(flight'[m].of, flight'[m].row)
<1> DEFINE f == flight[m]
<1>1. flight = [k \in Messages |-> flight[k]]
  BY DEF FlightInv
<1>0. ASSUME NEW v, flight' = [flight EXCEPT ![m] = v]
      PROVE  flight'[m] = v /\ flight' = [flight EXCEPT ![m] = flight'[m]]
  BY <1>0, <1>1
<1>2. CASE Arrives(m)
  <2>1. PICK x \in Contents : LET c == heard[x.chat] IN flight' = [flight EXCEPT ![m] =
             IF c = NoChannel THEN End(x, "unheard")
             ELSE IF x.photo /\ Fallback
             THEN [step |-> "downloads", said |-> x, of |-> c, row |-> rows[c]]
             ELSE Handled(x, c, rows[c], FALSE)]
    BY <1>2 DEF Arrives
  <2>2. CASE heard[x.chat] = NoChannel
    <3>1. flight' = [flight EXCEPT ![m] = End(x, "unheard")]
      BY <2>1, <2>2
    <3> QED
      BY <1>0, <3>1 DEF End
  <2>3. CASE heard[x.chat] # NoChannel /\ x.photo /\ Fallback
    <3>1. Known(heard[x.chat], rows[heard[x.chat]])
      BY <2>3, HeardIsKnown, IntakeAssumption
    <3>2. flight' = [flight EXCEPT ![m] = [step |-> "downloads", said |-> x,
                       of |-> heard[x.chat], row |-> rows[heard[x.chat]]]]
      BY <2>1, <2>3
    <3>3. flight'[m] = [step |-> "downloads", said |-> x,
                        of |-> heard[x.chat], row |-> rows[heard[x.chat]]]
      BY <1>1, <3>2
    <3>4. flight'[m].of = heard[x.chat] /\ flight'[m].row = rows[heard[x.chat]]
      BY <3>3
    <3> QED
      BY <1>0, <3>1, <3>2, <3>4
  <2>4. CASE heard[x.chat] # NoChannel /\ ~(x.photo /\ Fallback)
    <3>1. Known(heard[x.chat], rows[heard[x.chat]])
      BY <2>4, HeardIsKnown, IntakeAssumption
    <3>2. flight' = [flight EXCEPT ![m] = Handled(x, heard[x.chat], rows[heard[x.chat]], FALSE)]
      BY <2>1, <2>4
    <3>3. LET h == Handled(x, heard[x.chat], rows[heard[x.chat]], FALSE)
          IN  h.step = "end" \/ (h.of = heard[x.chat] /\ h.row = rows[heard[x.chat]])
      BY HandledStays
    <3> QED
      BY <1>0, <3>1, <3>2, <3>3
  <2> QED
    BY <2>2, <2>3, <2>4
<1>3. CASE Downloads(m)
  <2>1. Known(f.of, f.row)
    BY <1>3 DEF Downloads, FlightInv, Over
  <2>2. \/ \E image : flight' = [flight EXCEPT ![m] = Handled(f.said, f.of, f.row, image)]
        \/ flight' = [flight EXCEPT ![m] = End(f.said, "warned")]
    BY <1>3 DEF Downloads
  <2>3. CASE flight' = [flight EXCEPT ![m] = End(f.said, "warned")]
    BY <1>0, <2>3 DEF End
  <2>4. ASSUME NEW image, flight' = [flight EXCEPT ![m] = Handled(f.said, f.of, f.row, image)]
        PROVE  /\ flight' = [flight EXCEPT ![m] = flight'[m]]
               /\ flight'[m].step = "end" \/ Known(flight'[m].of, flight'[m].row)
    <3>1. LET h == Handled(f.said, f.of, f.row, image)
          IN  h.step = "end" \/ (h.of = f.of /\ h.row = f.row)
      BY HandledStays
    <3> QED
      BY <1>0, <2>1, <2>4, <3>1
  <2> QED
    BY <2>2, <2>3, <2>4
<1>4. CASE Asks(m)
  <2>1. Known(f.of, f.row)
    BY <1>4 DEF Asks, FlightInv, Over
  <2>2. \/ flight' = [flight EXCEPT ![m] =
                [step |-> "judged", said |-> f.said, of |-> f.of, row |-> f.row]]
        \/ \E as : flight' = [flight EXCEPT ![m] = End(f.said, as)]
        \/ flight' = [flight EXCEPT ![m] = [f EXCEPT !.left = Tail(@)]]
    BY <1>4 DEF Asks
  <2>3. CASE flight' = [flight EXCEPT ![m] =
                [step |-> "judged", said |-> f.said, of |-> f.of, row |-> f.row]]
    <3>1. flight'[m].of = f.of /\ flight'[m].row = f.row
      BY <1>0, <2>3
    <3> QED
      BY <1>0, <2>1, <2>3, <3>1
  <2>4. ASSUME NEW as, flight' = [flight EXCEPT ![m] = End(f.said, as)]
        PROVE  /\ flight' = [flight EXCEPT ![m] = flight'[m]]
               /\ flight'[m].step = "end"
    BY <1>0, <2>4 DEF End
  <2>5. CASE flight' = [flight EXCEPT ![m] = [f EXCEPT !.left = Tail(@)]]
    <3>1. flight'[m].of = f.of /\ flight'[m].row = f.row
      BY <1>0, <2>5
    <3> QED
      BY <1>0, <2>1, <2>5, <3>1
  <2> QED
    BY <2>2, <2>3, <2>4, <2>5
<1>5. CASE Judges(m)
  BY <1>1, <1>5 DEF Judges, End
<1> QED
  BY <1>2, <1>3, <1>4, <1>5 DEF Passes

LEMMA FlightKept ==
  ASSUME TypeOK, ListInv, FlightInv, [IntakeNext]_intakeVars
  PROVE  FlightInv'
<1>1. CASE IntakeRestart
  BY <1>1 DEF IntakeRestart, FlightInv, Over, End
<1>2. ASSUME ~IntakeRestart, NEW m \in Messages, Passes(m) PROVE FlightInv'
  <2>1. flight' = [k \in Messages |-> flight'[k]]
    BY <1>2, PassStays DEF FlightInv
  <2>2. ASSUME NEW k \in Messages PROVE Over(k)' \/ Known(flight[k].of, flight[k].row)'
    <3>1. CASE k = m
      <4>1. flight'[m].step = "end" \/ Known(flight'[m].of, flight'[m].row)
        BY <1>2, PassStays
      <4>2. UNCHANGED <<rows, made, ids, crossed>>
        BY <1>2, PassesOnly DEF listed, memory
      <4> QED
        BY <3>1, <4>1, <4>2 DEF Over, Known
    <3>2. CASE k # m
      <4>1. flight'[k] = flight[k]
        BY <1>2, <3>2, PassStays DEF FlightInv
      <4>2. UNCHANGED <<rows, made, ids, crossed>>
        BY <1>2, PassesOnly DEF listed, memory
      <4> QED
        BY <4>1, <4>2 DEF FlightInv, Over, Known
    <3> QED
      BY <3>1, <3>2
  <2> QED
    BY <2>1, <2>2 DEF FlightInv
<1>3. CASE ~IntakeRestart /\ \A m \in Messages : ~Passes(m)
  <2>1. flight' = flight
    BY <1>3, ListOnly
  <2>2. ASSUME NEW m \in Messages PROVE Over(m)' \/ Known(flight[m].of, flight[m].row)'
    <3>1. CASE Over(m)
      BY <2>1, <3>1 DEF Over
    <3>2. CASE Known(flight[m].of, flight[m].row)
      <4> DEFINE c == flight[m].of  r == flight[m].row
      <4>1. \A d, n : Known(d, n) => Known(d, n)'
        BY <1>3, KnownKept
      <4> QED
        BY <2>1, <3>2, <4>1 DEF Known
    <3> QED
      BY <3>1, <3>2 DEF FlightInv
  <2> QED
    BY <2>1, <2>2 DEF FlightInv
<1> QED
  BY <1>1, <1>2, <1>3

-----------------------------------------------------------------------------
(* The theorems.                                                           *)

LEMMA IntakeInvariant == IntakeSpec => []IntakeInv
<1>1. IntakeInv /\ [IntakeNext]_intakeVars => IntakeInv'
  BY TypesKept, ListKept, FlightKept DEF IntakeInv
<1> QED
  BY InitHolds, <1>1, PTL DEF IntakeSpec

\* The dashboard's list tells what the bot listens to, however requests and look-ups overlap: a
\* channel at which none of them met another is heard exactly when it is listed and was looked up.
THEOREM ListIsHeard == IntakeSpec => []HeardAsListed
<1>1. IntakeInv => HeardAsListed
  BY IntakeAssumption DEF IntakeInv, TypeOK, ListInv, Placed, Kept, HeardAsListed, Busy
<1> QED
  BY <1>1, IntakeInvariant, PTL

\* However long it takes to read a message, its signal is judged by the settings of its channel as
\* long as the channel keeps its row, the row can be read, and no requests met at the channel.
THEOREM SignalKeepsItsChannel == IntakeSpec => JudgedByItsChannel
<1> DEFINE Own(m) == flight[m].step = "judged" /\ flight[m].of \notin crossed
                         /\ flight'[m].step = "end" /\ flight'[m].as = "global" =>
                       rows[flight[m].of] \notin {flight[m].row} \ {0}
<1>1. ASSUME IntakeInv, [IntakeNext]_intakeVars, NEW m \in Messages PROVE Own(m)
  <2> DEFINE f == flight[m]
  <2> SUFFICES ASSUME f.step = "judged", f.of \notin crossed, flight'[m].step = "end", flight'[m].as = "global"
               PROVE  rows[f.of] \notin {f.row} \ {0}
    OBVIOUS
  <2>1. Known(f.of, f.row)
    BY <1>1 DEF IntakeInv, FlightInv, Over
  <2>2. flight = [k \in Messages |-> flight[k]]
    BY <1>1 DEF IntakeInv, FlightInv
  <2>3. flight' # flight
    OBVIOUS
  <2>4. CASE IntakeRestart
    BY <2>4 DEF IntakeRestart, End
  <2>5. ASSUME NEW k \in Messages, Passes(k), k # m PROVE FALSE
    BY <1>1, <2>2, <2>5, PassStays DEF IntakeInv
  <2>6. CASE Passes(m)
    <3>1. Unposted.step = "unposted"
      BY DEF Unposted
    <3>2. ~Arrives(m)
      BY <3>1 DEF Arrives
    <3>3. ~Downloads(m) /\ ~Asks(m)
      BY DEF Downloads, Asks
    <3>4. Judges(m)
      BY <2>6, <3>2, <3>3 DEF Passes
    <3> QED
      BY <2>1, <2>2, <3>4 DEF Judges, End, Known
  <2> QED
    BY <1>1, <2>3, <2>4, <2>5, <2>6, ListOnly
<1>2. IntakeInv /\ [IntakeNext]_intakeVars => [\A m \in Messages : Own(m)]_intakeVars
  BY <1>1
<1> QED
  BY <1>2, IntakeInvariant, PTL DEF JudgedByItsChannel, IntakeSpec

-----------------------------------------------------------------------------
(* What becomes of a message, whatever the requests about channels do.     *)

Report(x) == is_known_non_signal(x.text) \/ extract_stop_hit_pair(x.text) # NoPair
Pictured(x) == x.photo /\ Fallback

\* What has been found out about a message so far: a report is never read any further, and a text
\* that comes without a picture is asked about only when the expressions cannot read it.
Sound(f) ==
  /\ f.step = "downloads" => Pictured(f.said)
  /\ f.step \in {"asks", "judged"} => ~Report(f.said)
  /\ f.step = "asks" => parse_with_regex(f.said.text) = NotRead \/ Pictured(f.said)
  /\ f.step = "end" =>
       /\ f.as = "silent" => Report(f.said) \/ (~Speaks(f.said.text) /\ ~Pictured(f.said))
       /\ f.as \in {"channel", "global", "unread"} => ~Report(f.said)
       /\ parse_with_regex(f.said.text) # NotRead /\ ~Report(f.said) /\ ~Pictured(f.said) =>
            f.as \notin {"silent", "warned", "raised"}

SoundInv ==
  /\ flight = [m \in Messages |-> flight[m]]
  /\ \A m \in Messages : Sound(flight[m])

LEMMA EndsSound ==
  ASSUME NEW x, NEW as,
         as = "silent" => Report(x) \/ (~Speaks(x.text) /\ ~Pictured(x)),
         as \in {"channel", "global", "unread"} => ~Report(x),
         as \in {"silent", "warned", "raised"} =>
           parse_with_regex(x.text) = NotRead \/ Report(x) \/ Pictured(x)
  PROVE  Sound(End(x, as))
BY DEF Sound, End

LEMMA JudgedSound ==
  ASSUME NEW x, NEW c, NEW row, ~Report(x)
  PROVE  Sound([step |-> "judged", said |-> x, of |-> c, row |-> row])
BY DEF Sound

LEMMA AskingSound ==
  ASSUME NEW x, NEW c, NEW row, NEW models, ~Report(x),
         parse_with_regex(x.text) = NotRead \/ Pictured(x)
  PROVE  Sound(Asking(x, c, row, models))
<1>1. CASE Asked(models) = <<>>
  BY <1>1, EndsSound DEF Asking
<1>2. CASE Asked(models) # <<>>
  BY <1>2 DEF Asking, Sound
<1> QED
  BY <1>1, <1>2

\* A picture is looked at only when there is one, and without it only a message that has a text or
\* never had a picture is handled.
LEMMA HandledSound ==
  ASSUME NEW x, NEW c, NEW row, NEW image \in BOOLEAN,
         image => Pictured(x), Pictured(x) => image \/ Speaks(x.text)
  PROVE  Sound(Handled(x, c, row, image))
<1>1. CASE extract_stop_hit_pair(x.text) # NoPair
  BY <1>1, EndsSound DEF Handled, Report
<1>2. CASE /\ extract_stop_hit_pair(x.text) = NoPair
           /\ is_known_non_signal(x.text) \/ (~Speaks(x.text) /\ ~image)
  <2>1. Handled(x, c, row, image) = End(x, "silent")
    BY <1>2 DEF Handled
  <2>2. Report(x) \/ (~Speaks(x.text) /\ ~Pictured(x))
    BY <1>2 DEF Report
  <2>3. ~Speaks(x.text) => parse_with_regex(x.text) = NotRead
    BY DEF Speaks, parse_with_regex
  <2> QED
    BY <1>2, <2>1, <2>2, <2>3, EndsSound DEF Report
<1>3. CASE ~Report(x) /\ (Speaks(x.text) \/ image)
  <2>1. Handled(x, c, row, image) = Read(x, c, row, image)
    BY <1>3 DEF Handled, Report
  <2> QED
    BY <1>3, <2>1, JudgedSound, AskingSound DEF Read
<1> QED
  BY <1>1, <1>2, <1>3 DEF Report

LEMMA PassSound ==
  ASSUME SoundInv, NEW m \in Messages, Passes(m)
  PROVE  \E v : flight' = [flight EXCEPT ![m] = v] /\ Sound(v)
<1> USE IntakeAssumption
<1> DEFINE f == flight[m]
<1>0. Sound(f)
  BY DEF SoundInv
<1>1. CASE Arrives(m)
  <2>1. PICK x \in Contents : LET c == heard[x.chat] IN flight' = [flight EXCEPT ![m] =
             IF c = NoChannel THEN End(x, "unheard")
             ELSE IF x.photo /\ Fallback
             THEN [step |-> "downloads", said |-> x, of |-> c, row |-> rows[c]]
             ELSE Handled(x, c, rows[c], FALSE)]
    BY <1>1 DEF Arrives
  <2> DEFINE c == heard[x.chat]
  <2>2. Sound(End(x, "unheard"))
    BY EndsSound
  <2>3. Pictured(x) => Sound([step |-> "downloads", said |-> x, of |-> c, row |-> rows[c]])
    BY DEF Sound
  <2>4. ~Pictured(x) => Sound(Handled(x, c, rows[c], FALSE))
    BY HandledSound
  <2> QED
    BY <2>1, <2>2, <2>3, <2>4 DEF Pictured
<1>2. CASE Downloads(m)
  <2>1. Pictured(f.said)
    BY <1>0, <1>2 DEF Downloads, Sound
  <2>2. Sound(Handled(f.said, f.of, f.row, TRUE))
    BY <2>1, HandledSound
  <2>3. Speaks(f.said.text) => Sound(Handled(f.said, f.of, f.row, FALSE))
    BY <2>1, HandledSound
  <2>4. Sound(End(f.said, "warned"))
    BY <2>1, EndsSound
  <2> QED
    BY <1>2, <2>2, <2>3, <2>4 DEF Downloads
<1>3. CASE Asks(m)
  <2>1. ~Report(f.said) /\ (parse_with_regex(f.said.text) = NotRead \/ Pictured(f.said))
    BY <1>0, <1>3 DEF Asks, Sound
  <2>2. Sound([step |-> "judged", said |-> f.said, of |-> f.of, row |-> f.row])
    BY <2>1, JudgedSound
  <2>3. Sound(End(f.said, "raised")) /\ Sound(End(f.said, "warned"))
    BY <2>1, EndsSound
  <2>4. Sound([f EXCEPT !.left = Tail(@)])
    BY <1>0 DEF Sound
  <2> QED
    BY <1>3, <2>2, <2>3, <2>4 DEF Asks
<1>4. CASE Judges(m)
  <2>1. ~Report(f.said)
    BY <1>0, <1>4 DEF Judges, Sound
  <2>2. \A as \in {"channel", "global", "unread"} : Sound(End(f.said, as))
    BY <2>1, EndsSound
  <2> QED
    BY <1>4, <2>2 DEF Judges
<1> QED
  BY <1>1, <1>2, <1>3, <1>4 DEF Passes

LEMMA SoundKept == SoundInv /\ [IntakeNext]_intakeVars => SoundInv'
<1> SUFFICES ASSUME SoundInv, [IntakeNext]_intakeVars PROVE SoundInv'
  OBVIOUS
<1>1. CASE IntakeRestart
  <2>1. ASSUME NEW m \in Messages PROVE Sound(flight'[m])
    <3>1. flight'[m] = IF flight[m].step \in {"unposted", "end"} THEN flight[m]
                       ELSE End(flight[m].said, "lost")
      BY <1>1 DEF IntakeRestart
    <3>2. Sound(End(flight[m].said, "lost"))
      BY EndsSound
    <3> QED
      BY <3>1, <3>2 DEF SoundInv
  <2> QED
    BY <1>1, <2>1 DEF IntakeRestart, SoundInv
<1>2. ASSUME NEW m \in Messages, Passes(m) PROVE SoundInv'
  <2>1. PICK v : flight' = [flight EXCEPT ![m] = v] /\ Sound(v)
    BY <1>2, PassSound
  <2> QED
    BY <2>1 DEF SoundInv
<1>3. CASE flight' = flight
  BY <1>3 DEF SoundInv
<1> QED
  BY <1>1, <1>2, <1>3, ListOnly

\* A message heard never ends without a trace unless it is a known report or has nothing to be read;
\* no report becomes a signal, whatever the models answer.
THEOREM NothingUnseen == IntakeSpec => []NoSignalUnseen
<1>1. IntakeInit => SoundInv
  BY DEF IntakeInit, SoundInv, Sound, Unposted
<1>2. SoundInv => NoSignalUnseen
  BY DEF SoundInv, Sound, Report, Pictured, NoSignalUnseen
<1> QED
  BY <1>1, <1>2, SoundKept, PTL DEF IntakeSpec
=============================================================================
