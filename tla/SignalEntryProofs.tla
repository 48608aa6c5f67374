--------------------------- MODULE SignalEntryProofs --------------------------
(***************************************************************************)
(* Theorems about SignalEntry, for any pairs, signals, requests, clients   *)
(* and limits, however many tasks open, close and drop one pair at once: a *)
(* position with a written order that nobody is opening any more is in the *)
(* loop's copy, in the risk manager's count and in the row of its signal,  *)
(* unless a close of an older position ended upon it; and a signal that    *)
(* was executed is never decided again, unless two requests had it at once.*)
(*                                                                         *)
(* The books are written one after another, so the invariant says which of *)
(* them a task in flight still has to write.                               *)
(***************************************************************************)
EXTENDS SignalEntry, SequenceTheorems, TLAPS

\* The order has a row; the task leaves its traces.
Traces == {"booked", "notify", "settle"}
Opens == {"ordering", "filled"} \cup Traces
Closes == {"closing", "dropping"}
Telegram == Signals \cup Requests

OrderRows == [by : {"telegram_signal", "manual", "strategy"},
              signal : Signals \cup {"no signal"}, written : BOOLEAN]

Shape == /\ task = [a \in Actors |-> task[a]]
         /\ rows = [s \in Signals |-> rows[s]]
         /\ held = [p \in Pairs |-> held[p]]
         /\ tracked = [p \in Pairs |-> tracked[p]]
         /\ orders \in Seq(OrderRows)
         /\ \A p \in Pairs : held[p] \subseteq 1..Len(orders)

\* Whose notification may have lost its copy: only a task whose order has been
\* closed, or left on a pair that a close ran over.
CopyStays(p, id) == tracked[p] # 0 \/ id \notin held[p] \/ p \in overrun

\* What a task knows.
Knows(a) ==
  LET t == task[a]
  IN /\ t.pc \in Opens \cup Closes => t.pair \in Pairs
     /\ t.pc \in Opens => t.signal \in IF a \in Telegram THEN Signals ELSE {"no signal"}
     /\ t.pc \in {"notify", "settle"} => a \in Telegram
     /\ t.pc \in {"filled", "booked", "notify"} =>
          t.order \in 1..Len(orders) /\ orders[t.order].signal = t.signal
     /\ t.pc = "settle" /\ t.order # 0 =>
          t.order \in 1..Len(orders) /\ orders[t.order].signal = t.signal
     /\ t.pc \in {"ordering"} => t.order = 0
     /\ t.pc = "filled" => \A q \in Pairs : t.order \in held[q] => q = t.pair
     /\ t.pc = "notify" => CopyStays(t.pair, t.order)

\* A task is on its way to write a book of the pair.
Writes(p, pcs) == \E a \in Actors : task[a].pc \in pcs /\ task[a].pair = p
Leads(p, s, id) == \E a \in Actors : /\ task[a].pc \in Traces /\ task[a].pair = p
                                     /\ task[a].order = id /\ task[a].signal = s

\* A position is in each book, or a task is about to write it there.
Tracks(p) == tracked[p] # 0 \/ Writes(p, {"booked"})
Counts(p) == p \in counted \/ Writes(p, {"booked", "notify"})
Links(p, id) ==
  LET s == orders[id].signal
  IN s \notin contested \cup {"no signal"} =>
       rows[s].decision = "unsaved" \/ rows[s] = Row("executed", id) \/ Leads(p, s, id)
Known(p) == p \notin overrun /\ WrittenOf(p) # {} =>
              Tracks(p) /\ Counts(p) /\ \A id \in WrittenOf(p) : Links(p, id)
Booked == \A p \in Pairs : Known(p)

\* Whoever decides a signal has it to himself: its own handler before there is
\* a row, then one request while the row is pending.
Deciding(r, s) == task[r].pc \in Opens /\ task[r].signal = s
RowInv ==
  /\ \A s \in Signals : task[s].pc # "done" => rows[s].decision = "new"
  /\ \A s \in Signals : task[s].pc \in Opens => task[s].signal = s
  /\ \A r \in Requests : task[r].pc \in Opens => task[task[r].signal].pc = "done"
  /\ \A s \in Signals \ contested : \A r \in Requests : Deciding(r, s) =>
       rows[s].decision = "pending" /\ \A other \in Requests : Deciding(other, s) => other = r

EntryInv == Shape /\ Booked /\ RowInv /\ \A a \in Actors : Knows(a)

LEMMA Names ==
  /\ Signals \subseteq Actors /\ Requests \subseteq Actors /\ Clients \subseteq Actors
  /\ "loop" \in Actors /\ "loop" \notin Telegram
  /\ "manual" \notin Telegram /\ "dashboard" \notin Telegram
  /\ Signals \cap Requests = {} /\ "no signal" \notin Signals
BY EntryAssumption DEF Actors, AllClients, Telegram

LEMMA AtTheStart == Init => EntryInv
<1> SUFFICES ASSUME Init PROVE EntryInv
  OBVIOUS
<1>1. task = [a \in Actors |-> Idle] /\ Idle.pc = "idle"
  BY DEF Init, Idle
<1>2. \A a \in Actors : task[a].pc = "idle"
  BY <1>1
<1>3. Shape
  <2>1. rows = [s \in Signals |-> rows[s]]
    BY DEF Init
  <2>2. orders \in Seq(OrderRows)
    BY DEF Init
  <2> QED
    BY <1>1, <2>1, <2>2 DEF Init, Shape
<1>4. \A a \in Actors : Knows(a)
  BY <1>2 DEF Knows, Opens, Traces, Closes
<1>5. Booked
  BY DEF Init, Booked, Known, WrittenOf
<1>6. RowInv
  <2>1. \A s \in Signals : rows[s] = [decision |-> "new", order |-> 0]
    BY DEF Init
  <2>2. \A s \in Signals : rows[s].decision = "new"
    BY <2>1
  <2>3. \A s \in Signals \cup Requests : task[s].pc \notin Opens
    BY <1>2, Names DEF Opens, Traces
  <2> QED
    BY <2>2, <2>3 DEF RowInv, Deciding
<1> QED
  BY <1>3, <1>4, <1>5, <1>6 DEF EntryInv

\* A task takes a new record; what the others are doing stays.
LEMMA Becomes ==
  ASSUME Shape, NEW a \in Actors, NEW t, task' = [task EXCEPT ![a] = t]
  PROVE  /\ task' = [b \in Actors |-> task'[b]]
         /\ task'[a] = t /\ \A b \in Actors : b # a => task'[b] = task[b]
BY DEF Shape

\* The table of orders is only added to, and positions only gain new orders.
Grows ==
  /\ orders' \in Seq(OrderRows) /\ Len(orders) <= Len(orders')
  /\ \A i \in 1..Len(orders) : orders'[i].signal = orders[i].signal
  /\ \A q \in Pairs : /\ held'[q] \subseteq 1..Len(orders')
                      /\ held'[q] \cap 1..Len(orders) \subseteq held[q]

\* Whoever takes a copy away takes the position with it, or is recorded.
Recorded(q) ==
  /\ (tracked[q] # 0 => tracked'[q] # 0) \/ held'[q] = {} \/ q \in overrun'
  /\ q \in overrun => held'[q] = {} \/ q \in overrun'

LEMMA StillKnows ==
  ASSUME Shape, NEW b \in Actors, Knows(b), task'[b] = task[b], Grows,
         \A q \in Pairs : Recorded(q)
  PROVE  Knows(b)'
<1> DEFINE t == task[b]
<1>1. Len(orders) \in Nat /\ Len(orders') \in Nat
  BY DEF Shape, Grows
<1>2. \A i \in 1..Len(orders) : i \in 1..Len(orders') /\ orders'[i].signal = orders[i].signal
  BY <1>1 DEF Grows
<1>3. ASSUME t.pc = "notify" PROVE CopyStays(t.pair, t.order)'
  <2>1. t.pair \in Pairs /\ t.order \in 1..Len(orders) /\ CopyStays(t.pair, t.order)
    BY <1>3 DEF Knows, Opens, Traces
  <2> QED
    BY <2>1 DEF CopyStays, Recorded, Grows
<1>4. ASSUME t.pc = "filled", NEW q \in Pairs, t.order \in held'[q] PROVE q = t.pair
  <2>1. t.order \in 1..Len(orders)
    BY <1>4 DEF Knows
  <2> QED
    BY <1>4, <2>1 DEF Knows, Grows
<1> QED
  BY <1>2, <1>3, <1>4 DEF Knows

\* What is decided, and not contested, stays decided.
Decided == \A s \in Signals \ contested :
             rows[s].decision \in {"unsaved", "executed"} => rows'[s] = rows[s]

\* A pair whose books are left alone, and from which nobody departs who still
\* has one of them to write, stays known.
LEMMA StaysKnown ==
  ASSUME Shape, Grows, Decided, contested \subseteq contested', NEW q \in Pairs, Known(q),
         \A b \in Actors : task[b].pc \in Traces /\ task[b].pair = q => task'[b] = task[b],
         tracked[q] # 0 => tracked'[q] # 0, q \in counted => q \in counted',
         Recorded(q), WrittenOf(q)' \subseteq WrittenOf(q)
  PROVE  Known(q)'
<1> SUFFICES ASSUME q \notin overrun', WrittenOf(q)' # {}
             PROVE  Tracks(q)' /\ Counts(q)' /\ \A id \in WrittenOf(q)' : Links(q, id)'
  BY DEF Known
<1>1. q \notin overrun /\ WrittenOf(q) # {}
  <2>1. held'[q] # {}
    BY DEF WrittenOf
  <2> QED
    BY <2>1 DEF Recorded
<1>2. Tracks(q) /\ Counts(q) /\ \A id \in WrittenOf(q) : Links(q, id)
  BY <1>1 DEF Known
<1>3. Tracks(q)' /\ Counts(q)'
  BY <1>2 DEF Tracks, Counts, Writes, Traces
<1>4. ASSUME NEW id \in WrittenOf(q)' PROVE Links(q, id)'
  <2>0. PICK s : s = orders[id].signal
    OBVIOUS
  <2>1. id \in WrittenOf(q) /\ id \in 1..Len(orders)
    BY DEF WrittenOf, Shape
  <2>2. s \in Signals \cup {"no signal"} /\ orders'[id].signal = s
    <3>1. orders[id] \in OrderRows
      BY <2>1 DEF Shape
    <3> QED
      BY <2>0, <2>1, <3>1 DEF OrderRows, Grows
  <2>3. \/ s \in contested \cup {"no signal"} \/ rows[s].decision = "unsaved"
        \/ rows[s] = Row("executed", id) \/ Leads(q, s, id)
    BY <1>2, <2>0, <2>1 DEF Links
  <2>4. SUFFICES ASSUME s \notin contested' \cup {"no signal"}
        PROVE \/ rows'[s].decision = "unsaved" \/ rows'[s] = Row("executed", id)
              \/ Leads(q, s, id)'
    BY <2>2 DEF Links, Row
  <2>5. CASE Leads(q, s, id)
    BY <2>5 DEF Leads
  <2>6. CASE rows[s].decision = "unsaved" \/ rows[s] = Row("executed", id)
    <3>1. Row("executed", id).decision = "executed"
      BY DEF Row
    <3>2. rows'[s] = rows[s]
      BY <2>2, <2>4, <2>6, <3>1 DEF Decided
    <3> QED
      BY <2>6, <3>2
  <2> QED
    BY <2>3, <2>4, <2>5, <2>6
<1> QED
  BY <1>3, <1>4

\* The rows stay; the mover decides what it decided before, or nothing.
LEMMA RowsKept ==
  ASSUME EntryInv, rows' = rows, contested \subseteq contested', NEW a \in Actors, NEW t, task'[a] = t,
         \A b \in Actors : b # a => task'[b] = task[b],
         t.pc \in Opens => task[a].pc \in Opens /\ t.signal = task[a].signal,
         a \in Signals /\ task[a].pc = "done" => t.pc = "done"
  PROVE  RowInv' /\ Decided
<1>1. Decided
  BY DEF Decided
<1>2. \A b \in Actors : task'[b].pc \in Opens =>
        task[b].pc \in Opens /\ task'[b].signal = task[b].signal
  OBVIOUS
<1>3. \A b \in Signals : task[b].pc = "done" => task'[b].pc = "done"
  BY Names
<1>4. \A s \in Signals : task'[s].pc # "done" => rows'[s].decision = "new"
  BY <1>3 DEF EntryInv, RowInv
<1>5. \A s \in Signals : task'[s].pc \in Opens => task'[s].signal = s
  BY <1>2, Names DEF EntryInv, RowInv
<1>6. ASSUME NEW r \in Requests, task'[r].pc \in Opens PROVE task'[task'[r].signal].pc = "done"
  <2>1. task[r].pc \in Opens /\ task'[r].signal = task[r].signal /\ r \in Actors /\ r \in Telegram
    BY <1>2, <1>6, Names DEF Telegram
  <2>2. task[r].signal \in Signals
    BY <2>1 DEF EntryInv, Knows
  <2> QED
    BY <1>3, <2>1, <2>2 DEF EntryInv, RowInv
<1>7. \A r \in Requests : \A s : Deciding(r, s)' => Deciding(r, s)
  BY <1>2, Names DEF Deciding
<1>8. RowInv'
  BY <1>4, <1>5, <1>6, <1>7 DEF EntryInv, RowInv
<1> QED
  BY <1>1, <1>8

\* The owner goes on with the same order.
LEMMA GoesOn ==
  ASSUME NEW a \in Actors, NEW pc, Move(a, pc), Shape
  PROVE  \E t : /\ task' = [task EXCEPT ![a] = t] /\ task'[a] = t
                /\ t.pc = pc /\ t.pair = task[a].pair /\ t.signal = task[a].signal
                /\ t.order = task[a].order
<1> DEFINE u == [task[a] EXCEPT !.pc = pc]
<1>1. /\ u.pc = pc /\ u.pair = task[a].pair /\ u.signal = task[a].signal
      /\ u.order = task[a].order
  OBVIOUS
<1>2. task' = [task EXCEPT ![a] = u]
  BY DEF Move
<1> HIDE DEF u
<1>3. task'[a] = u
  BY <1>2 DEF Shape
<1> QED
  BY <1>1, <1>2, <1>3

\* A task at rest: a handler is done for good.
AtRest(a) == IF a \in Signals THEN Done ELSE Idle

LEMMA Rests ==
  ASSUME NEW a \in Actors, Rest(a)
  PROVE  /\ task' = [task EXCEPT ![a] = AtRest(a)]
         /\ AtRest(a).pc \in {"idle", "done"}
         /\ a \in Signals => AtRest(a).pc = "done"
BY DEF Rest, AtRest, Idle, Done

LEMMA KnowsAtRest ==
  ASSUME NEW a \in Actors, task'[a] = AtRest(a) PROVE Knows(a)'
BY DEF AtRest, Idle, Done, Knows, Opens, Traces, Closes

LEMMA SourceIs ==
  ASSUME NEW a PROVE (Source(a) = "telegram_signal") <=> a \in Telegram
BY DEF Source, Telegram
-----------------------------------------------------------------------------
(* Steps that leave the books alone, of tasks that have no book to write.  *)

LEMMA Aside ==
  ASSUME EntryInv, NEW a \in Actors, NEW t, task' = [task EXCEPT ![a] = t],
         task[a].pc \in Traces => t = task[a],
         UNCHANGED <<orders, held, tracked, counted, overrun>>, contested \subseteq contested',
         rows' = [s \in Signals |-> rows'[s]], Decided, RowInv', Knows(a)'
  PROVE  EntryInv'
<1>1. /\ task' = [b \in Actors |-> task'[b]]
      /\ task'[a] = t /\ \A b \in Actors : b # a => task'[b] = task[b]
  BY Becomes DEF EntryInv
<1>2. Shape'
  BY <1>1 DEF EntryInv, Shape
<1>3. Grows /\ \A q \in Pairs : Recorded(q)
  BY DEF EntryInv, Shape, Grows, Recorded
<1>4. ASSUME NEW q \in Pairs PROVE Known(q)'
  <2>1. Shape /\ Known(q) /\ WrittenOf(q)' = WrittenOf(q)
    BY DEF EntryInv, Booked, WrittenOf
  <2>2. \A b \in Actors : task[b].pc \in Traces => task'[b] = task[b]
    BY <1>1
  <2> QED
    BY <1>3, <2>1, <2>2, StaysKnown
<1>5. ASSUME NEW b \in Actors PROVE Knows(b)'
  BY <1>1, <1>3, StillKnows DEF EntryInv
<1> QED
  BY <1>2, <1>4, <1>5 DEF EntryInv, Booked

LEMMA AsideUnheard ==
  ASSUME EntryInv, NEW a \in Actors, NEW t, task' = [task EXCEPT ![a] = t],
         task[a].pc \in Traces => t = task[a],
         UNCHANGED <<rows, orders, held, tracked, counted, history>>, Knows(a)',
         t.pc \in Opens => task[a].pc \in Opens /\ t.signal = task[a].signal,
         a \in Signals /\ task[a].pc = "done" => t.pc = "done"
  PROVE  EntryInv' /\ Decided
<1>1. /\ task'[a] = t /\ \A b \in Actors : b # a => task'[b] = task[b]
  BY Becomes DEF EntryInv
<1>2. RowInv' /\ Decided
  BY <1>1, RowsKept DEF history
<1>3. rows' = [s \in Signals |-> rows'[s]]
  BY DEF EntryInv, Shape
<1> QED
  BY <1>2, <1>3, Aside DEF history

\* A handler that decides without an order.
LEMMA JudgedKeeps ==
  ASSUME EntryInv, NEW s \in Signals, HandlerRejects(s) \/ HandlerKeeps(s)
  PROVE  EntryInv' /\ Decided
<1>1. /\ task[s].pc = "idle" /\ task' = [task EXCEPT ![s] = Done]
      /\ UNCHANGED <<orders, held, tracked, counted, overrun, contested>> /\ s \in Actors
      /\ Done.pc = "done"
  BY Names DEF HandlerRejects, HandlerKeeps, books, bot, history, Done
<1>2. PICK row : rows' = [rows EXCEPT ![s] = row]
  BY DEF HandlerRejects, HandlerKeeps, Save
<1>3. /\ rows' = [r \in Signals |-> rows'[r]] /\ \A r \in Signals : r # s => rows'[r] = rows[r]
  BY <1>2 DEF EntryInv, Shape
<1>4. rows[s].decision = "new" /\ \A r \in Requests : ~Deciding(r, s)
  BY <1>1 DEF EntryInv, RowInv, Deciding
<1>5. Decided
  BY <1>3, <1>4 DEF Decided
<1>6. /\ task'[s] = Done /\ \A b \in Actors : b # s => task'[b] = task[b]
  BY <1>1, Becomes DEF EntryInv
<1>7. \A r \in Requests : task'[r] = task[r]
  BY <1>6, Names
<1>8. RowInv'
  <2>1. \A r \in Signals : task'[r].pc # "done" => rows'[r].decision = "new"
    BY <1>1, <1>3, <1>6, Names DEF EntryInv, RowInv
  <2>2. \A r \in Signals : task'[r].pc \in Opens => task'[r].signal = r
    BY <1>1, <1>6, Names DEF EntryInv, RowInv, Opens, Traces
  <2>3. ASSUME NEW r \in Requests, task'[r].pc \in Opens PROVE task'[task'[r].signal].pc = "done"
    <3>1. task'[r] = task[r] /\ task[r].pc \in Opens
      BY <1>7, <2>3
    <3>2. task[r].signal \in Actors /\ task[task[r].signal].pc = "done"
      BY <3>1, Names DEF EntryInv, Knows, RowInv, Telegram
    <3> QED
      BY <1>1, <1>6, <3>1, <3>2
  <2>4. \A q \in Signals \ contested' : \A r \in Requests : Deciding(r, q)' =>
          /\ rows'[q].decision = "pending"
          /\ \A other \in Requests : Deciding(other, q)' => other = r
    BY <1>1, <1>3, <1>4, <1>7 DEF EntryInv, RowInv, Deciding
  <2> QED
    BY <2>1, <2>2, <2>3, <2>4 DEF RowInv
<1>9. Knows(s)'
  BY <1>1, <1>6 DEF Knows, Opens, Traces, Closes
<1> QED
  BY <1>1, <1>3, <1>5, <1>8, <1>9, Aside DEF Traces

\* A request that rejects a signal.
LEMMA RequestRejectsKeeps ==
  ASSUME EntryInv, NEW r \in Requests, NEW s \in Signals, RequestRejects(r, s)
  PROVE  EntryInv' /\ Decided
<1>1. /\ task[r].pc = "idle" /\ rows[s].decision = "pending"
      /\ rows' = [rows EXCEPT ![s] = Row("rejected", 0)] /\ Contest(s)
      /\ UNCHANGED <<task, orders, held, tracked, counted, overrun>>
  BY DEF RequestRejects, books, bot
<1>2. /\ rows' = [q \in Signals |-> rows'[q]] /\ \A q \in Signals : q # s => rows'[q] = rows[q]
  BY <1>1 DEF EntryInv, Shape
<1>3. Decided
  BY <1>1, <1>2 DEF Decided
<1>4. contested \subseteq contested' /\ (s \notin contested' => DecidingOn(s) = {})
  BY <1>1 DEF Contest
<1>5. ASSUME s \notin contested', NEW o \in Requests PROVE ~Deciding(o, s)
  BY <1>4, <1>5 DEF DecidingOn, Deciding, Opens, Traces
<1>6. RowInv'
  <2>1. \A q \in Signals : task'[q].pc # "done" => rows'[q].decision = "new"
    BY <1>1, <1>2 DEF EntryInv, RowInv
  <2>2. \A q \in Signals \ contested' : \A o \in Requests : Deciding(o, q)' =>
          /\ rows'[q].decision = "pending"
          /\ \A other \in Requests : Deciding(other, q)' => other = o
    BY <1>1, <1>2, <1>4, <1>5 DEF EntryInv, RowInv, Deciding
  <2> QED
    BY <1>1, <2>1, <2>2 DEF EntryInv, RowInv
<1>7. Knows(r)'
  BY <1>1, Names DEF EntryInv, Knows, CopyStays
<1>8. task' = [task EXCEPT ![r] = task[r]] /\ r \in Actors
  BY <1>1, Names DEF EntryInv, Shape
<1> QED
  BY <1>1, <1>2, <1>3, <1>4, <1>6, <1>7, <1>8, Aside

\* An order is asked for.  A request that meets another on its signal is recorded.
LEMMA Begins ==
  ASSUME EntryInv, NEW a \in Actors, NEW p \in Pairs, NEW s, Ordering(a, p, s),
         task[a].pc = "idle",
         s \in IF a \in Telegram THEN Signals ELSE {"no signal"},
         a \in Signals => s = a,
         a \in Requests => rows[s].decision = "pending" /\ Contest(s),
         a \notin Requests => UNCHANGED contested
  PROVE  EntryInv' /\ Decided
<1> DEFINE t == [pc |-> "ordering", pair |-> p, signal |-> s, order |-> 0]
<1>1. t.pc = "ordering" /\ t.pair = p /\ t.signal = s /\ t.order = 0
  OBVIOUS
<1>2. task' = [task EXCEPT ![a] = t] /\ UNCHANGED <<rows, orders, held, tracked, counted, overrun>>
  BY DEF Ordering, books, bot
<1> HIDE DEF t
<1>3. task'[a] = t /\ \A b \in Actors : b # a => task'[b] = task[b]
  BY <1>2, Becomes DEF EntryInv
<1>4. Knows(a)'
  BY <1>1, <1>3 DEF Knows, Opens, Traces, Closes
<1>5. Decided /\ rows' = [q \in Signals |-> rows'[q]]
  BY <1>2 DEF Decided, EntryInv, Shape
<1>6. contested \subseteq contested'
        /\ (a \in Requests /\ s \notin contested' => \A o \in Requests : ~Deciding(o, s))
  BY DEF Contest, DecidingOn, Deciding, Opens, Traces
<1>7. RowInv'
  <2>1. \A q \in Signals : task'[q].pc # "done" => rows'[q].decision = "new"
    BY <1>2, <1>3, Names DEF EntryInv, RowInv
  <2>2. \A q \in Signals : task'[q].pc \in Opens => task'[q].signal = q
    BY <1>1, <1>3, Names DEF EntryInv, RowInv
  <2>3. ASSUME NEW o \in Requests, task'[o].pc \in Opens PROVE task'[task'[o].signal].pc = "done"
    <3>1. CASE o = a
      <4>1. s \in Signals /\ rows[s].decision # "new" /\ s # a
        BY <3>1, Names DEF Telegram
      <4> QED
        BY <1>1, <1>3, <3>1, <4>1, Names DEF EntryInv, RowInv
    <3>2. CASE o # a
      <4>1. task'[o] = task[o] /\ task[o].signal \in Signals /\ task[task[o].signal].pc = "done"
        BY <1>3, <2>3, <3>2, Names DEF EntryInv, RowInv, Knows, Telegram
      <4>2. task[o].signal # a /\ task[o].signal \in Actors
        BY <4>1, Names
      <4> QED
        BY <1>3, <4>1, <4>2
    <3> QED
      BY <3>1, <3>2
  <2>4. ASSUME NEW q \in Signals \ contested', NEW o \in Requests, Deciding(o, q)'
        PROVE  /\ rows'[q].decision = "pending"
               /\ \A other \in Requests : Deciding(other, q)' => other = o
    <3>1. \A c \in Requests : c # a => (Deciding(c, q)' <=> Deciding(c, q))
      BY <1>3, Names DEF Deciding
    <3>2. Deciding(a, q)' => q = s
      BY <1>1, <1>3 DEF Deciding
    <3>3. CASE a \in Requests /\ q = s
      BY <1>2, <1>6, <2>4, <3>1, <3>3
    <3>4. CASE ~(a \in Requests /\ q = s)
      <4>1. \A c \in Requests : Deciding(c, q)' => Deciding(c, q)
        BY <3>1, <3>2, <3>4
      <4> QED
        BY <1>2, <1>6, <2>4, <4>1 DEF EntryInv, RowInv
    <3> QED
      BY <3>3, <3>4
  <2> QED
    BY <2>1, <2>2, <2>3, <2>4 DEF RowInv
<1> QED
  BY <1>2, <1>4, <1>5, <1>6, <1>7, Aside DEF Traces

LEMMA HandlerBegins ==
  ASSUME EntryInv, NEW s \in Signals, HandlerExecutes(s) PROVE EntryInv' /\ Decided
<1>1. PairOf[s] \in Pairs /\ s \in Actors /\ s \in Telegram /\ s \notin Requests
  BY EntryAssumption, Names DEF Telegram
<1> QED
  BY <1>1, Begins DEF HandlerExecutes

LEMMA RequestBegins ==
  ASSUME EntryInv, NEW r \in Requests, NEW s \in Signals, RequestTakes(r, s)
  PROVE  EntryInv' /\ Decided
<1>1. PairOf[s] \in Pairs /\ r \in Actors /\ r \in Telegram /\ r \notin Signals
  BY EntryAssumption, Names DEF Telegram
<1> QED
  BY <1>1, Begins DEF RequestTakes

LEMMA ManualBegins ==
  ASSUME EntryInv, NEW p \in Pairs, ManualTakes(p) PROVE EntryInv' /\ Decided
<1>1. "manual" \in Actors /\ "manual" \notin Telegram /\ "manual" \notin Signals \cup Requests
  BY Names DEF ManualTakes, Telegram
<1> QED
  BY <1>1, Begins DEF ManualTakes

LEMMA LoopBegins ==
  ASSUME EntryInv, NEW p \in Pairs, LoopEnters(p) PROVE EntryInv' /\ Decided
<1>1. "loop" \in Actors /\ "loop" \notin Telegram /\ "loop" \notin Signals \cup Requests
  BY Names DEF Telegram
<1> QED
  BY <1>1, Begins DEF LoopEnters

\* A task that comes to rest without having written a book.
LEMMA RestKeeps ==
  ASSUME EntryInv, NEW a \in Actors, Rest(a), task[a].pc \notin Traces,
         UNCHANGED <<rows, orders, held, tracked, counted, history>>
  PROVE  EntryInv' /\ Decided
<1>1. /\ task' = [task EXCEPT ![a] = AtRest(a)] /\ AtRest(a).pc \notin Opens
      /\ a \in Signals => AtRest(a).pc = "done"
  BY Rests DEF Opens, Traces
<1>2. task'[a] = AtRest(a)
  BY <1>1, Becomes DEF EntryInv
<1> QED
  BY <1>1, <1>2, KnowsAtRest, AsideUnheard

LEMMA RefusedKeeps ==
  ASSUME EntryInv, NEW a \in Actors, Refused(a) PROVE EntryInv' /\ Decided
<1>1. /\ task[a].pc = "ordering" /\ task[a].pc \in Opens /\ task[a].pc \notin Traces
      /\ UNCHANGED <<rows, orders, held, tracked, counted, history>>
  BY DEF Refused, books, bot, Opens, Traces
<1>2. CASE a \in Telegram
  <2>1. PICK t : /\ task' = [task EXCEPT ![a] = t] /\ task'[a] = t
                 /\ t.pc = "settle" /\ t.pair = task[a].pair /\ t.signal = task[a].signal
                 /\ t.order = task[a].order
    BY <1>2, GoesOn, SourceIs DEF Refused, EntryInv
  <2>2. /\ task[a].pair \in Pairs /\ task[a].signal \in Signals /\ task[a].order = 0
    BY <1>1, <1>2 DEF EntryInv, Knows
  <2>3. Knows(a)'
    BY <1>2, <2>1, <2>2 DEF Knows
  <2> QED
    BY <1>1, <2>1, <2>3, AsideUnheard
<1>3. CASE a \notin Telegram
  BY <1>1, <1>3, SourceIs, RestKeeps DEF Refused
<1> QED
  BY <1>2, <1>3

LEMMA CommitFailsKeeps ==
  ASSUME EntryInv, NEW a \in Actors, CommitFails(a) PROVE EntryInv' /\ Decided
BY RestKeeps DEF CommitFails, books, bot, Traces

LEMMA CloseFailsKeeps ==
  ASSUME EntryInv, NEW a \in Actors, CloseFails(a) PROVE EntryInv' /\ Decided
BY RestKeeps DEF CloseFails, books, bot, Traces

\* A closer takes up a pair.
LEMMA TakesUp ==
  ASSUME EntryInv, NEW a \in Actors, a \notin Signals, NEW p \in Pairs, NEW t,
         task' = [task EXCEPT ![a] = t], t.pc \in Closes, t.pair = p, task[a].pc = "idle",
         UNCHANGED <<rows, books, bot, history>>
  PROVE  EntryInv' /\ Decided
<1>1. task'[a] = t
  BY Becomes DEF EntryInv
<1>2. Knows(a)' /\ t.pc \notin Opens /\ task[a].pc \notin Traces
  BY <1>1 DEF Knows, Opens, Traces, Closes
<1> QED
  BY <1>2, AsideUnheard DEF books, bot

LEMMA CloseBegins ==
  ASSUME EntryInv, NEW p \in Pairs, LoopCloses(p) \/ LoopMisses(p) \/ DashboardCloses(p)
  PROVE  EntryInv' /\ Decided
<1>1. PICK a \in {"loop", "dashboard"} :
        /\ a \in Actors /\ a \notin Signals /\ task[a].pc = "idle"
        /\ UNCHANGED <<rows, books, bot, history>>
        /\ \/ task' = [task EXCEPT ![a] = [pc |-> "closing", pair |-> p, orders |-> held[p]]]
           \/ task' = [task EXCEPT ![a] = [pc |-> "dropping", pair |-> p]]
  BY Names DEF LoopCloses, LoopMisses, DashboardCloses, Closing, Telegram
<1>2. CASE task' = [task EXCEPT ![a] = [pc |-> "closing", pair |-> p, orders |-> held[p]]]
  <2> DEFINE t == [pc |-> "closing", pair |-> p, orders |-> held[p]]
  <2>1. t.pc \in Closes /\ t.pair = p
    BY DEF Closes
  <2> HIDE DEF t
  <2> QED
    BY <1>1, <1>2, <2>1, TakesUp DEF t
<1>3. CASE task' = [task EXCEPT ![a] = [pc |-> "dropping", pair |-> p]]
  <2> DEFINE t == [pc |-> "dropping", pair |-> p]
  <2>1. t.pc \in Closes /\ t.pair = p
    BY DEF Closes
  <2> HIDE DEF t
  <2> QED
    BY <1>1, <1>3, <2>1, TakesUp DEF t
<1> QED
  BY <1>1, <1>2, <1>3

\* Refreshing the list of pairs, and stuttering.
LEMMA RefreshKeeps ==
  ASSUME EntryInv, UNCHANGED <<rows, books, tracked, counted, task, history>>
  PROVE  EntryInv' /\ Decided
<1>1. "loop" \in Actors /\ task' = [task EXCEPT !["loop"] = task["loop"]]
  BY Names DEF EntryInv, Shape
<1>2. Knows("loop")'
  BY <1>1 DEF EntryInv, Knows, CopyStays, books, history
<1> QED
  BY <1>1, <1>2, AsideUnheard DEF books
-----------------------------------------------------------------------------
(* The way of an order. *)

\* What remains to be shown of a step of the task a on its pair p: the pair
\* itself, the rows and what a knows then.
LEMMA Onward ==
  ASSUME EntryInv, NEW a \in Actors, NEW p \in Pairs, task[a].pair = p,
         NEW t, task' = [task EXCEPT ![a] = t], Grows,
         held' = [q \in Pairs |-> held'[q]], tracked' = [q \in Pairs |-> tracked'[q]],
         rows' = [s \in Signals |-> rows'[s]], contested \subseteq contested',
         \A q \in Pairs : Recorded(q),
         \A q \in Pairs : q # p => /\ tracked'[q] = tracked[q] /\ (q \in counted => q \in counted')
                                   /\ WrittenOf(q)' \subseteq WrittenOf(q),
         Decided, RowInv', Known(p)', Knows(a)'
  PROVE  EntryInv'
<1>1. /\ task' = [b \in Actors |-> task'[b]]
      /\ task'[a] = t /\ \A b \in Actors : b # a => task'[b] = task[b]
  BY Becomes DEF EntryInv
<1>2. Shape'
  BY <1>1 DEF Shape, Grows
<1>3. ASSUME NEW q \in Pairs, q # p PROVE Known(q)'
  <2>1. Shape /\ Known(q)
    BY DEF EntryInv, Booked
  <2>2. \A b \in Actors : task[b].pc \in Traces /\ task[b].pair = q => task'[b] = task[b]
    BY <1>1, <1>3
  <2> QED
    BY <1>3, <2>1, <2>2, StaysKnown
<1>4. ASSUME NEW b \in Actors PROVE Knows(b)'
  BY <1>1, StillKnows DEF EntryInv
<1> QED
  BY <1>2, <1>3, <1>4 DEF EntryInv, Booked

\* The memory changes: a position may appear, grow, shrink or go, but none of
\* its orders that have a row is new.
LEMMA FilledKeeps ==
  ASSUME EntryInv, NEW a \in Actors, Filled(a) PROVE EntryInv' /\ Decided
<1>0. PICK id, p : id = Len(orders) + 1 /\ p = task[a].pair
  OBVIOUS
<1> DEFINE r == [by |-> Source(a), signal |-> task[a].signal, written |-> FALSE]
           t == [task[a] EXCEPT !.pc = "filled", !.order = id]
<1>1. task[a].pc = "ordering" /\ UNCHANGED <<rows, tracked, counted, overrun, contested>>
  BY DEF Filled, bot, history
<1>2. task[a].pc \in Opens /\ task[a].pc \notin Traces /\ p \in Pairs
  BY <1>0, <1>1 DEF Opens, Traces, EntryInv, Knows
<1>3. /\ t.pc = "filled" /\ t.pair = task[a].pair /\ t.signal = task[a].signal /\ t.order = id
  OBVIOUS
<1>4. PICK position \in {held[p] \cup {id}, held[p], {}} :
        held' = [held EXCEPT ![p] = position]
  BY <1>0 DEF Filled
<1>5. orders' = Append(orders, r) /\ task' = [task EXCEPT ![a] = t]
  BY <1>0 DEF Filled
<1>6. orders \in Seq(OrderRows) /\ Len(orders) \in Nat /\ id \notin 1..Len(orders)
  <2>1. orders \in Seq(OrderRows)
    BY DEF EntryInv, Shape
  <2> QED
    BY <1>0, <2>1
<1>7. r \in OrderRows /\ r.signal = task[a].signal /\ r.written = FALSE
  <2>1. task[a].signal \in Signals \cup {"no signal"}
    BY <1>2 DEF EntryInv, Knows
  <2>2. Source(a) \in {"telegram_signal", "manual", "strategy"}
    BY DEF Source
  <2> QED
    BY <2>1, <2>2 DEF OrderRows
<1> HIDE DEF t, r
<1>8. /\ orders' \in Seq(OrderRows) /\ Len(orders') = id /\ orders'[id] = r
      /\ \A i \in 1..Len(orders) : orders'[i] = orders[i]
  BY <1>0, <1>5, <1>6, <1>7
<1>9. task'[a] = t /\ \A b \in Actors : b # a => task'[b] = task[b]
  BY <1>5, Becomes DEF EntryInv
<1>10. /\ held' = [q \in Pairs |-> held'[q]] /\ held'[p] = position
       /\ \A q \in Pairs : q # p => held'[q] = held[q]
  BY <1>2, <1>4 DEF EntryInv, Shape
<1>11. Grows
  <2>1. 1..Len(orders) \subseteq 1..Len(orders') /\ id \in 1..Len(orders')
    BY <1>0, <1>6, <1>8
  <2>2. \A q \in Pairs : held[q] \subseteq 1..Len(orders)
    BY DEF EntryInv, Shape
  <2>3. ASSUME NEW q \in Pairs
        PROVE  held'[q] \subseteq 1..Len(orders') /\ held'[q] \cap 1..Len(orders) \subseteq held[q]
    BY <1>4, <1>6, <1>10, <2>1, <2>2
  <2> QED
    BY <1>0, <1>6, <1>8, <2>3 DEF Grows
<1>12. \A q \in Pairs : Recorded(q)
  BY <1>1 DEF Recorded
<1>13. ASSUME NEW q \in Pairs PROVE WrittenOf(q)' \subseteq WrittenOf(q)
  <2> SUFFICES ASSUME NEW i \in WrittenOf(q)' PROVE i \in WrittenOf(q)
    OBVIOUS
  <2>1. i \in held'[q] /\ orders'[i].written
    BY DEF WrittenOf
  <2>2. i # id
    BY <1>7, <1>8, <2>1
  <2>3. i \in 1..Len(orders) /\ i \in held[q]
    BY <1>4, <1>10, <2>1, <2>2 DEF EntryInv, Shape
  <2> QED
    BY <1>8, <2>1, <2>3 DEF WrittenOf
<1>14. RowInv' /\ Decided
  BY <1>1, <1>2, <1>3, <1>9, RowsKept
<1>15. Known(p)'
  <2>1. Shape /\ Known(p)
    BY <1>2 DEF EntryInv, Booked
  <2>2. \A b \in Actors : task[b].pc \in Traces => task'[b] = task[b]
    BY <1>2, <1>9
  <2> QED
    BY <1>1, <1>2, <1>11, <1>12, <1>13, <1>14, <2>1, <2>2, StaysKnown
<1>16. Knows(a)'
  <2>1. \A q \in Pairs : id \in held'[q] => q = p
    BY <1>6, <1>10 DEF EntryInv, Shape
  <2>2. id \in 1..Len(orders') /\ orders'[id].signal = task[a].signal
    BY <1>0, <1>6, <1>7, <1>8
  <2>3. task[a].signal \in IF a \in Telegram THEN Signals ELSE {"no signal"}
    BY <1>2 DEF EntryInv, Knows
  <2> QED
    BY <1>0, <1>2, <1>3, <1>9, <2>1, <2>2, <2>3 DEF Knows, Closes
<1>17. tracked' = [q \in Pairs |-> tracked'[q]] /\ rows' = [s \in Signals |-> rows'[s]]
  BY <1>1 DEF EntryInv, Shape
<1> QED
  BY <1>0, <1>1, <1>2, <1>5, <1>10, <1>11, <1>12, <1>13, <1>14, <1>15, <1>16, <1>17, Onward

\* The row is there: from now on the position counts, and its owner has every
\* book still to write.
LEMMA WrittenKeeps ==
  ASSUME EntryInv, NEW a \in Actors, Written(a) PROVE EntryInv' /\ Decided
<1>0. PICK id, p, sg : id = task[a].order /\ p = task[a].pair /\ sg = task[a].signal
  OBVIOUS
<1>1. /\ task[a].pc = "filled" /\ orders' = [orders EXCEPT ![id].written = TRUE]
      /\ UNCHANGED <<rows, held, tracked, counted, overrun, contested>>
  BY <1>0 DEF Written, bot, history
<1>2. task[a].pc \in Opens /\ task[a].pc \notin Traces /\ p \in Pairs
  BY <1>0, <1>1 DEF Opens, Traces, EntryInv, Knows
<1>3. PICK t : /\ task' = [task EXCEPT ![a] = t] /\ task'[a] = t
               /\ t.pc = "booked" /\ t.pair = p /\ t.signal = task[a].signal /\ t.order = id
  BY <1>0, GoesOn DEF Written, EntryInv
<1>4. \A b \in Actors : b # a => task'[b] = task[b]
  BY <1>3, Becomes DEF EntryInv
<1>5. orders \in Seq(OrderRows) /\ id \in 1..Len(orders) /\ orders[id].signal = task[a].signal
      /\ \A q \in Pairs : id \in held[q] => q = p
  BY <1>0, <1>1, <1>2 DEF EntryInv, Shape, Knows
<1>6. /\ orders' \in Seq(OrderRows) /\ Len(orders') = Len(orders)
      /\ \A i \in 1..Len(orders) : orders'[i].signal = orders[i].signal
      /\ \A i \in 1..Len(orders) : i # id => orders'[i] = orders[i]
  <2> DEFINE r == [orders[id] EXCEPT !.written = TRUE]
  <2>1. orders[id] \in OrderRows
    BY <1>5
  <2>2. r \in OrderRows /\ r.signal = orders[id].signal
    BY <2>1 DEF OrderRows
  <2>3. orders' = [orders EXCEPT ![id] = r]
    BY <1>1
  <2> HIDE DEF r
  <2> QED
    BY <1>5, <2>2, <2>3, ExceptSeq
<1>7. Grows
  <2>1. Len(orders) \in Nat
    BY <1>5
  <2> QED
    BY <1>1, <1>6, <2>1 DEF EntryInv, Shape, Grows
<1>8. \A q \in Pairs : Recorded(q)
  BY <1>1 DEF Recorded
<1>9. \A q \in Pairs : WrittenOf(q)' \subseteq WrittenOf(q) \cup {id}
  BY <1>1, <1>6 DEF EntryInv, Shape, WrittenOf
<1>10. ASSUME NEW q \in Pairs, q # p PROVE WrittenOf(q)' \subseteq WrittenOf(q)
  <2>1. id \notin WrittenOf(q)'
    BY <1>1, <1>5, <1>10 DEF WrittenOf
  <2> QED
    BY <1>9, <2>1
<1>11. RowInv' /\ Decided
  BY <1>1, <1>2, <1>3, <1>4, RowsKept
<1>12. Known(p)'
  <2> SUFFICES ASSUME p \notin overrun', WrittenOf(p)' # {}
               PROVE  Tracks(p)' /\ Counts(p)' /\ \A i \in WrittenOf(p)' : Links(p, i)'
    BY DEF Known
  <2>1. Tracks(p)' /\ Counts(p)'
    BY <1>3 DEF Tracks, Counts, Writes
  <2>2. Links(p, id)'
    <3>1. Leads(p, sg, id)'
      BY <1>0, <1>3 DEF Leads, Traces
    <3>2. orders'[id].signal = sg
      BY <1>0, <1>5, <1>6
    <3> QED
      BY <3>1, <3>2 DEF Links
  <2>3. ASSUME NEW i \in WrittenOf(p), i # id PROVE Links(p, i)'
    <3>1. Links(p, i)
      BY <1>1, <1>2 DEF EntryInv, Booked, Known
    <3>2. i \in 1..Len(orders) /\ orders'[i] = orders[i]
      BY <1>2, <1>6, <2>3 DEF WrittenOf, EntryInv, Shape
    <3>3. \A b \in Actors : task[b].pc \in Traces => task'[b] = task[b]
      BY <1>2, <1>4
    <3>4. PICK s : s = orders[i].signal
      OBVIOUS
    <3>5. Leads(p, s, i) => Leads(p, s, i)'
      BY <3>3 DEF Leads
    <3> QED
      BY <1>1, <3>1, <3>2, <3>4, <3>5 DEF Links, Row
  <2> QED
    BY <1>2, <1>9, <2>1, <2>2, <2>3
<1>13. Knows(a)'
  <2>1. task[a].signal \in IF a \in Telegram THEN Signals ELSE {"no signal"}
    BY <1>2 DEF EntryInv, Knows
  <2> QED
    BY <1>2, <1>3, <1>5, <1>6, <2>1 DEF Knows
<1>14. /\ tracked' = [q \in Pairs |-> tracked'[q]] /\ rows' = [s \in Signals |-> rows'[s]]
       /\ held' = [q \in Pairs |-> held'[q]]
  BY <1>1 DEF EntryInv, Shape
<1> QED
  BY <1>0, <1>1, <1>2, <1>3, <1>7, <1>8, <1>10, <1>11, <1>12, <1>13, <1>14, Onward

\* An order stays linked as long as whoever is to write its row is still there.
LEMMA LinksKept ==
  ASSUME NEW p, NEW i, Links(p, i), UNCHANGED <<orders, contested>>,
         \A s : s = orders[i].signal /\ s \notin contested =>
                  rows'[s] = rows[s] /\ (s # "no signal" /\ Leads(p, s, i) => Leads(p, s, i)')
  PROVE  Links(p, i)'
<1>1. PICK s : s = orders[i].signal
  OBVIOUS
<1> QED
  BY <1>1 DEF Links, Row

LEMMA Positive == ASSUME NEW n \in Nat, NEW i \in 1..n PROVE i # 0
OBVIOUS

LEMMA SameOrders ==
  ASSUME Shape, UNCHANGED <<orders, held>>
  PROVE  Grows /\ \A q \in Pairs : WrittenOf(q)' = WrittenOf(q)
<1>1. Len(orders) \in Nat
  BY DEF Shape
<1>2. Len(orders) <= Len(orders')
  BY <1>1
<1> QED
  BY <1>2 DEF Shape, Grows, WrittenOf

\* What a task with traces left to write may rely on.
LEMMA Owns ==
  ASSUME EntryInv, NEW a \in Actors, task[a].pc \in Traces
  PROVE  /\ task[a].pc \in Opens /\ task[a].pair \in Pairs
         /\ task[a].signal \in IF a \in Telegram THEN Signals ELSE {"no signal"}
         /\ task[a].pc # "settle" => task[a].order \in 1..Len(orders) /\ task[a].order # 0
         /\ Shape /\ Known(task[a].pair) /\ Len(orders) \in Nat
<1>1. Shape /\ Knows(a) /\ Booked
  BY DEF EntryInv
<1>2. Len(orders) \in Nat
  BY <1>1 DEF Shape
<1>3. task[a].pc \in Opens
  BY DEF Opens, Traces
<1>4. /\ task[a].pair \in Pairs
      /\ task[a].signal \in IF a \in Telegram THEN Signals ELSE {"no signal"}
      /\ task[a].pc \in {"booked", "notify"} => task[a].order \in 1..Len(orders)
  BY <1>1, <1>3 DEF Knows
<1>5. task[a].pc # "settle" => task[a].order \in 1..Len(orders) /\ task[a].order # 0
  BY <1>2, <1>4, Positive DEF Traces
<1> QED
  BY <1>1, <1>2, <1>3, <1>4, <1>5 DEF Booked

LEMMA ReturnedKeeps ==
  ASSUME EntryInv, NEW a \in Actors, Returned(a) PROVE EntryInv' /\ Decided
<1>0. PICK id, p : id = task[a].order /\ p = task[a].pair
  OBVIOUS
<1>1. /\ task[a].pc = "booked" /\ task[a].pc \in Traces
      /\ UNCHANGED <<rows, orders, held, overrun, contested>>
  BY DEF Returned, books, history, Traces
<1>2. /\ task[a].pc \in Opens /\ p \in Pairs /\ id \in 1..Len(orders) /\ id # 0
      /\ task[a].signal \in IF a \in Telegram THEN Signals ELSE {"no signal"}
      /\ Shape /\ Known(p) /\ Len(orders) \in Nat
  BY <1>0, <1>1, Owns
<1>3. /\ tracked' = [tracked EXCEPT ![p] = id]
      /\ a \notin Telegram => counted' = counted \cup {p} /\ Rest(a)
      /\ a \in Telegram => counted' = counted /\ Move(a, "notify")
  BY <1>0, <1>1, SourceIs DEF Returned, Track
<1>4. /\ tracked'[p] # 0 /\ tracked' = [q \in Pairs |-> tracked'[q]]
      /\ \A q \in Pairs : q # p => tracked'[q] = tracked[q]
  BY <1>2, <1>3 DEF Shape
<1>5. PICK t : /\ task' = [task EXCEPT ![a] = t] /\ task'[a] = t
               /\ a \in Telegram => /\ t.pc = "notify" /\ t.pair = p /\ t.order = id
                                    /\ t.signal = task[a].signal
               /\ a \notin Telegram => t = AtRest(a)
  <2>1. CASE a \in Telegram
    BY <1>0, <1>2, <1>3, <2>1, GoesOn
  <2>2. CASE a \notin Telegram
    BY <1>2, <1>3, <2>2, Rests, Becomes
  <2> QED
    BY <2>1, <2>2
<1>6. \A b \in Actors : b # a => task'[b] = task[b]
  BY <1>2, <1>5, Becomes
<1>7. Grows /\ \A q \in Pairs : Recorded(q) /\ WrittenOf(q)' = WrittenOf(q)
  <2>1. \A q \in Pairs : Recorded(q)
    BY <1>1, <1>4 DEF Recorded
  <2>2. Grows /\ \A q \in Pairs : WrittenOf(q)' = WrittenOf(q)
    BY <1>1, <1>2, SameOrders
  <2> QED
    BY <2>1, <2>2
<1>8. a \notin Telegram => t.pc \notin Opens
  BY <1>5 DEF AtRest, Idle, Done, Opens, Traces
<1>9. RowInv' /\ Decided
  BY <1>1, <1>2, <1>5, <1>6, <1>8, RowsKept DEF Telegram
<1>10. ASSUME NEW s, s # "no signal", NEW i, Leads(p, s, i) PROVE Leads(p, s, i)'
  BY <1>0, <1>2, <1>5, <1>6, <1>10 DEF Leads, Traces
<1>11. Known(p)'
  <2> SUFFICES ASSUME p \notin overrun', WrittenOf(p)' # {}
               PROVE  Tracks(p)' /\ Counts(p)' /\ \A i \in WrittenOf(p)' : Links(p, i)'
    BY DEF Known
  <2>1. Tracks(p)'
    BY <1>4 DEF Tracks
  <2>2. Counts(p)'
    <3>1. a \in Telegram => Writes(p, {"booked", "notify"})'
      BY <1>5 DEF Writes
    <3> QED
      BY <1>3, <3>1 DEF Counts
  <2>3. ASSUME NEW i \in WrittenOf(p) PROVE Links(p, i)'
    <3>1. Links(p, i)
      BY <1>1, <1>2, <1>7 DEF Known
    <3> QED
      BY <1>1, <1>10, <3>1, LinksKept
  <2> QED
    BY <1>2, <1>7, <2>1, <2>2, <2>3
<1>12. Knows(a)'
  <2>1. CASE a \in Telegram
    <3>1. orders[id].signal = task[a].signal
      BY <1>0, <1>1 DEF EntryInv, Knows
    <3> QED
      BY <1>1, <1>2, <1>4, <1>5, <2>1, <3>1 DEF Knows, CopyStays
  <2>2. CASE a \notin Telegram
    BY <1>5, <2>2, KnowsAtRest
  <2> QED
    BY <2>1, <2>2
<1>13. /\ held' = [q \in Pairs |-> held'[q]] /\ rows' = [s \in Signals |-> rows'[s]]
  BY <1>1, <1>2 DEF Shape
<1>14. counted \subseteq counted'
  BY <1>3
<1> QED
  BY <1>0, <1>1, <1>2, <1>4, <1>5, <1>7, <1>9, <1>11, <1>12, <1>13, <1>14, Onward

LEMMA NotifiedKeeps ==
  ASSUME EntryInv, NEW a \in Actors, Notified(a) PROVE EntryInv' /\ Decided
<1>0. PICK id, p : id = task[a].order /\ p = task[a].pair
  OBVIOUS
<1>1. /\ task[a].pc = "notify" /\ task[a].pc \in Traces /\ counted' = counted \cup {p}
      /\ UNCHANGED <<rows, orders, held, tracked, overrun, contested>>
  BY <1>0 DEF Notified, books, history, Traces
<1>2. /\ task[a].pc \in Opens /\ p \in Pairs /\ id \in 1..Len(orders) /\ id # 0
      /\ task[a].signal \in Signals /\ a \in Telegram
      /\ Shape /\ Known(p) /\ Len(orders) \in Nat
  <2>1. a \in Telegram
    BY <1>1 DEF EntryInv, Knows
  <2> QED
    BY <1>0, <1>1, <2>1, Owns
<1>3. PICK t : /\ task' = [task EXCEPT ![a] = t] /\ task'[a] = t
               /\ t.pc = "settle" /\ t.pair = p /\ t.order = id /\ t.signal = task[a].signal
  BY <1>0, <1>2, GoesOn DEF Notified
<1>4. \A b \in Actors : b # a => task'[b] = task[b]
  BY <1>2, <1>3, Becomes
<1>5. Grows /\ \A q \in Pairs : Recorded(q) /\ WrittenOf(q)' = WrittenOf(q)
  BY <1>1, <1>2 DEF Shape, Grows, Recorded, WrittenOf
<1>6. RowInv' /\ Decided
  BY <1>1, <1>2, <1>3, <1>4, RowsKept
<1>7. ASSUME NEW s, NEW i, Leads(p, s, i) PROVE Leads(p, s, i)'
  BY <1>0, <1>3, <1>4, <1>7 DEF Leads, Traces
<1>8. Known(p)'
  <2> SUFFICES ASSUME p \notin overrun', WrittenOf(p)' # {}
               PROVE  Tracks(p)' /\ Counts(p)' /\ \A i \in WrittenOf(p)' : Links(p, i)'
    BY DEF Known
  <2>1. Tracks(p) /\ \A i \in WrittenOf(p) : Links(p, i)
    BY <1>1, <1>2, <1>5 DEF Known
  <2>2. Tracks(p)' /\ Counts(p)'
    BY <1>1, <1>4, <2>1 DEF Tracks, Counts, Writes
  <2>3. ASSUME NEW i \in WrittenOf(p) PROVE Links(p, i)'
    BY <1>1, <1>7, <2>1, LinksKept
  <2> QED
    BY <1>2, <1>5, <2>2, <2>3
<1>9. Knows(a)'
  <2>1. orders[id].signal = task[a].signal
    BY <1>0, <1>1 DEF EntryInv, Knows
  <2> QED
    BY <1>1, <1>2, <1>3, <2>1 DEF Knows
<1>10. /\ held' = [q \in Pairs |-> held'[q]] /\ rows' = [s \in Signals |-> rows'[s]]
       /\ tracked' = [q \in Pairs |-> tracked'[q]]
  BY <1>1, <1>2 DEF Shape
<1> QED
  BY <1>0, <1>1, <1>2, <1>3, <1>5, <1>6, <1>8, <1>9, <1>10, Onward

\* The copy is gone: with the order, or on a pair that has been recorded.
LEMMA NotifyFailsKeeps ==
  ASSUME EntryInv, NEW a \in Actors, NotifyFails(a) PROVE EntryInv' /\ Decided
<1>0. PICK id, p : id = task[a].order /\ p = task[a].pair
  OBVIOUS
<1>1. /\ task[a].pc = "notify" /\ task[a].pc \in Traces /\ tracked[p] = 0 /\ Rest(a)
      /\ UNCHANGED <<rows, orders, held, tracked, counted, overrun, contested>>
  BY <1>0 DEF NotifyFails, books, bot, history, Traces
<1>2. p \in Pairs /\ Shape /\ Known(p)
  BY <1>0, <1>1, Owns
<1>3. id \notin held[p] \/ p \in overrun
  BY <1>0, <1>1 DEF EntryInv, Knows, CopyStays
<1>4. /\ task' = [task EXCEPT ![a] = AtRest(a)] /\ task'[a] = AtRest(a)
      /\ AtRest(a).pc \notin Opens /\ (a \in Signals => AtRest(a).pc = "done")
      /\ \A b \in Actors : b # a => task'[b] = task[b]
  BY <1>1, <1>2, Rests, Becomes DEF Opens, Traces
<1>5. Grows /\ \A q \in Pairs : Recorded(q) /\ WrittenOf(q)' = WrittenOf(q)
  BY <1>1, <1>2 DEF Shape, Grows, Recorded, WrittenOf
<1>6. RowInv' /\ Decided
  BY <1>1, <1>4, RowsKept
<1>7. Known(p)'
  <2> SUFFICES ASSUME p \notin overrun', WrittenOf(p)' # {}
               PROVE  Tracks(p)' /\ Counts(p)' /\ \A i \in WrittenOf(p)' : Links(p, i)'
    BY DEF Known
  <2>1. Tracks(p) /\ \A i \in WrittenOf(p) : Links(p, i)
    BY <1>1, <1>2, <1>5 DEF Known
  <2>2. PICK b \in Actors : task[b].pc = "booked" /\ task[b].pair = p
    BY <1>1, <2>1 DEF Tracks, Writes
  <2>3. task'[b] = task[b]
    BY <1>1, <1>4, <2>2
  <2>4. Tracks(p)' /\ Counts(p)'
    BY <2>2, <2>3 DEF Tracks, Counts, Writes
  <2>5. ASSUME NEW i \in WrittenOf(p) PROVE Links(p, i)'
    <3>1. i # id
      BY <1>1, <1>3 DEF WrittenOf
    <3>2. ASSUME NEW s, Leads(p, s, i) PROVE Leads(p, s, i)'
      BY <1>0, <1>4, <3>1, <3>2 DEF Leads
    <3> QED
      BY <1>1, <2>1, <3>2, LinksKept
  <2> QED
    BY <1>2, <1>5, <2>4, <2>5
<1>8. Knows(a)'
  BY <1>4, KnowsAtRest
<1>9. /\ held' = [q \in Pairs |-> held'[q]] /\ rows' = [s \in Signals |-> rows'[s]]
      /\ tracked' = [q \in Pairs |-> tracked'[q]]
  BY <1>1, <1>2 DEF Shape
<1> QED
  BY <1>0, <1>1, <1>2, <1>4, <1>5, <1>6, <1>7, <1>8, <1>9, Onward

\* The row of the signal is written last, by the one who has it to himself.
LEMMA SettledKeeps ==
  ASSUME EntryInv, NEW a \in Actors, Settled(a) PROVE EntryInv' /\ Decided
<1>0. PICK id, p, s : id = task[a].order /\ p = task[a].pair /\ s = task[a].signal
  OBVIOUS
<1>1. /\ task[a].pc = "settle" /\ task[a].pc \in Traces /\ Rest(a)
      /\ UNCHANGED <<orders, held, tracked, counted, overrun, contested>>
  BY DEF Settled, books, bot, history, Traces
<1>2. /\ task[a].pc \in Opens /\ a \in Telegram /\ p \in Pairs /\ s \in Signals
      /\ Shape /\ Known(p)
  <2>1. a \in Telegram
    BY <1>1 DEF EntryInv, Knows
  <2> QED
    BY <1>0, <1>1, <2>1, Owns
<1>3. PICK row : rows' = [rows EXCEPT ![s] = row]
           /\ (row = Outcome(a) \/ row = Row("unsaved", Outcome(a).order))
  <2>1. CASE a \in Signals
    <3>1. s = a
      BY <1>0, <1>2, <2>1 DEF EntryInv, RowInv
    <3> QED
      BY <2>1, <3>1 DEF Settled, Save
  <2>2. CASE a \notin Signals
    BY <1>0, <2>2 DEF Settled
  <2> QED
    BY <2>1, <2>2
<1>4. /\ rows' = [q \in Signals |-> rows'[q]] /\ rows'[s] = row
      /\ \A q \in Signals : q # s => rows'[q] = rows[q]
  BY <1>2, <1>3 DEF Shape
<1>5. s \notin contested =>
        /\ rows[s].decision \in {"new", "pending"}
        /\ \A b \in Telegram : task[b].pc \in Opens /\ task[b].signal = s => b = a
  <2> SUFFICES ASSUME s \notin contested
               PROVE  /\ rows[s].decision \in {"new", "pending"}
                      /\ \A b \in Telegram : task[b].pc \in Opens /\ task[b].signal = s => b = a
    OBVIOUS
  <2>1. CASE a \in Signals
    <3>1. s = a /\ task[a].pc # "done"
      BY <1>0, <1>1, <1>2, <2>1 DEF EntryInv, RowInv
    <3>2. rows[s].decision = "new"
      BY <1>2, <3>1 DEF EntryInv, RowInv
    <3>3. ASSUME NEW b \in Telegram, task[b].pc \in Opens, task[b].signal = s PROVE b = a
      BY <3>1, <3>3 DEF EntryInv, RowInv, Telegram
    <3> QED
      BY <3>2, <3>3
  <2>2. CASE a \in Requests
    <3>1. Deciding(a, s)
      BY <1>0, <1>2 DEF Deciding
    <3>2. rows[s].decision = "pending" /\ \A o \in Requests : Deciding(o, s) => o = a
      BY <1>2, <2>2, <3>1 DEF EntryInv, RowInv
    <3>3. task[s].pc = "done"
      BY <1>0, <1>2, <2>2 DEF EntryInv, RowInv
    <3>4. ASSUME NEW b \in Telegram, task[b].pc \in Opens, task[b].signal = s PROVE b = a
      <4>1. CASE b \in Signals
        BY <3>3, <3>4, <4>1 DEF EntryInv, RowInv, Opens, Traces
      <4>2. CASE b \in Requests
        BY <3>2, <3>4, <4>2 DEF Deciding
      <4> QED
        BY <4>1, <4>2 DEF Telegram
    <3> QED
      BY <3>2, <3>4
  <2> QED
    BY <1>2, <2>1, <2>2 DEF Telegram
<1>6. Decided
  BY <1>4, <1>5 DEF Decided
<1>7. /\ task' = [task EXCEPT ![a] = AtRest(a)] /\ task'[a] = AtRest(a)
      /\ AtRest(a).pc \notin Opens /\ (a \in Signals => AtRest(a).pc = "done")
      /\ \A b \in Actors : b # a => task'[b] = task[b]
  BY <1>1, <1>2, Rests, Becomes DEF Opens, Traces
<1>8. RowInv'
  <2>1. \A b \in Actors : task'[b].pc \in Opens => b # a /\ task'[b] = task[b]
    BY <1>7
  <2>2. \A b \in Signals : task[b].pc = "done" => task'[b].pc = "done"
    BY <1>7, Names
  <2>3. ASSUME NEW q \in Signals, task'[q].pc # "done" PROVE rows'[q].decision = "new"
    <3>1. task[q].pc # "done" /\ q # a
      BY <1>7, <2>2, <2>3
    <3>2. q # s
      <4>1. a \in Signals => s = a
        BY <1>0, <1>2 DEF EntryInv, RowInv
      <4>2. a \in Requests => task[s].pc = "done"
        BY <1>0, <1>2 DEF EntryInv, RowInv
      <4> QED
        BY <1>2, <3>1, <4>1, <4>2 DEF Telegram
    <3> QED
      BY <1>4, <3>1, <3>2 DEF EntryInv, RowInv
  <2>4. \A q \in Signals : task'[q].pc \in Opens => task'[q].signal = q
    BY <2>1, Names DEF EntryInv, RowInv
  <2>5. ASSUME NEW r \in Requests, task'[r].pc \in Opens PROVE task'[task'[r].signal].pc = "done"
    <3>1. task'[r] = task[r] /\ task[r].pc \in Opens /\ r \in Actors /\ r \in Telegram
      BY <2>1, <2>5, Names DEF Telegram
    <3>2. task[r].signal \in Signals /\ task[task[r].signal].pc = "done"
      BY <2>5, <3>1 DEF EntryInv, RowInv, Knows
    <3> QED
      BY <2>2, <3>1, <3>2
  <2>6. ASSUME NEW q \in Signals \ contested', NEW r \in Requests, Deciding(r, q)'
        PROVE  rows'[q].decision = "pending"
               /\ \A other \in Requests : Deciding(other, q)' => other = r
    <3>1. \A o \in Requests : Deciding(o, q)' => Deciding(o, q) /\ o # a
      BY <2>1, Names DEF Deciding
    <3>2. q # s
      BY <1>1, <1>5, <2>6, <3>1 DEF Deciding, Telegram
    <3> QED
      BY <1>1, <1>4, <2>6, <3>1, <3>2 DEF EntryInv, RowInv
  <2> QED
    BY <2>3, <2>4, <2>5, <2>6 DEF RowInv
<1>9. Grows /\ \A q \in Pairs : Recorded(q) /\ WrittenOf(q)' = WrittenOf(q)
  BY <1>1, <1>2 DEF Shape, Grows, Recorded, WrittenOf
<1>10. Known(p)'
  <2> SUFFICES ASSUME p \notin overrun', WrittenOf(p)' # {}
               PROVE  Tracks(p)' /\ Counts(p)' /\ \A i \in WrittenOf(p)' : Links(p, i)'
    BY DEF Known
  <2>1. Tracks(p) /\ Counts(p) /\ \A i \in WrittenOf(p) : Links(p, i)
    BY <1>1, <1>2, <1>9 DEF Known
  <2>2. Tracks(p)' /\ Counts(p)'
    BY <1>1, <1>7, <2>1 DEF Tracks, Counts, Writes
  <2>3. ASSUME NEW i \in WrittenOf(p) PROVE Links(p, i)'
    <3>1. PICK r : r = orders[i].signal
      OBVIOUS
    <3>2. i \in 1..Len(orders) /\ r \in Signals \cup {"no signal"}
      <4>1. i \in 1..Len(orders) /\ orders \in Seq(OrderRows)
        BY <1>2 DEF WrittenOf, Shape
      <4>2. orders[i] \in OrderRows
        BY <4>1
      <4> QED
        BY <3>1, <4>1, <4>2 DEF OrderRows
    <3>3. CASE r = s /\ s \notin contested
      <4>1. Row("executed", i).decision = "executed"
        BY DEF Row
      <4>2. rows[s].decision # "unsaved" /\ rows[s] # Row("executed", i)
        BY <1>5, <3>3, <4>1
      <4>3. Leads(p, s, i)
        BY <1>2, <2>1, <3>1, <3>3, <4>2, Names DEF Links
      <4>4. PICK b \in Actors : /\ task[b].pc \in Traces /\ task[b].pair = p
                                /\ task[b].order = i /\ task[b].signal = s
        BY <4>3 DEF Leads
      <4>5. b \in Telegram
        BY <1>2, <4>4, Owns, Names
      <4>6. b = a /\ i = id
        BY <1>0, <1>5, <3>3, <4>4, <4>5 DEF Opens
      <4>7. id # 0
        <5>1. Len(orders) \in Nat
          BY <1>2 DEF Shape
        <5> QED
          BY <3>2, <4>6, <5>1, Positive
      <4>8. row = Row("executed", i) \/ row.decision = "unsaved"
        BY <1>0, <1>3, <4>6, <4>7 DEF Outcome, Row
      <4> QED
        BY <1>1, <1>4, <3>1, <3>3, <4>8 DEF Links, Row
    <3>4. CASE r # s \/ s \in contested
      <4>1. \A q : q = r /\ q \notin contested /\ q # "no signal" => q \in Signals /\ q # s
        BY <3>2, <3>4
      <4>2. \A b \in Actors : task[b].pc \in Traces /\ task[b].signal # s => task'[b] = task[b]
        BY <1>0, <1>7
      <4>3. Links(p, i)
        BY <2>1
      <4> QED
        BY <1>1, <1>4, <3>1, <4>1, <4>2, <4>3 DEF Links, Leads, Row
    <3> QED
      BY <3>3, <3>4
  <2> QED
    BY <1>2, <1>9, <2>2, <2>3
<1>11. Knows(a)'
  BY <1>7, KnowsAtRest
<1>12. /\ held' = [q \in Pairs |-> held'[q]] /\ tracked' = [q \in Pairs |-> tracked'[q]]
  BY <1>1, <1>2 DEF Shape
<1> QED
  BY <1>0, <1>1, <1>2, <1>4, <1>6, <1>7, <1>8, <1>9, <1>10, <1>11, <1>12, Onward
-----------------------------------------------------------------------------
(* The closers let go of a pair. *)

\* Whoever lets go of a pair leaves nothing on it, or is recorded.
LEMMA LetsGo ==
  ASSUME EntryInv, NEW a \in Actors, task[a].pc \in Closes, Rest(a), NEW p \in Pairs,
         task[a].pair = p, NEW left, left \subseteq held[p], held' = [held EXCEPT ![p] = left],
         Forgets(p, left), tracked' \in {tracked, [tracked EXCEPT ![p] = 0]},
         counted \ {p} \subseteq counted', UNCHANGED <<rows, orders, contested>>
  PROVE  EntryInv' /\ Decided
<1>1. Shape /\ task[a].pc \notin Traces /\ task[a].pc \notin Opens
  BY DEF EntryInv, Closes, Opens, Traces
<1>2. /\ task' = [task EXCEPT ![a] = AtRest(a)] /\ task'[a] = AtRest(a)
      /\ AtRest(a).pc \notin Opens /\ (a \in Signals => AtRest(a).pc = "done")
      /\ \A b \in Actors : b # a => task'[b] = task[b]
  BY <1>1, Rests, Becomes DEF Opens, Traces
<1>3. /\ held'[p] = left /\ held' = [q \in Pairs |-> held'[q]]
      /\ tracked' = [q \in Pairs |-> tracked'[q]]
      /\ \A q \in Pairs : q # p => held'[q] = held[q] /\ tracked'[q] = tracked[q]
  BY <1>1 DEF Shape
<1>4. Grows
  BY <1>1, <1>3 DEF Shape, Grows
<1>5. /\ left = {} \/ p \in overrun'
      /\ \A q : q # p => (q \in overrun' <=> q \in overrun)
  BY DEF Forgets
<1>6. \A q \in Pairs : Recorded(q)
  BY <1>3, <1>5 DEF Recorded
<1>7. \A q \in Pairs : q # p => /\ tracked'[q] = tracked[q] /\ (q \in counted => q \in counted')
                               /\ WrittenOf(q)' \subseteq WrittenOf(q)
  BY <1>3 DEF WrittenOf
<1>0. contested \subseteq contested'
  OBVIOUS
<1>8. Known(p)'
  BY <1>3, <1>5 DEF Known, WrittenOf
<1>9. RowInv' /\ Decided
  BY <1>2, RowsKept
<1>10. Knows(a)' /\ rows' = [s \in Signals |-> rows'[s]]
  BY <1>1, <1>2, KnowsAtRest DEF Shape
<1> QED
  BY <1>0, <1>2, <1>3, <1>4, <1>6, <1>7, <1>8, <1>9, <1>10, Onward

LEMMA ClosedKeeps ==
  ASSUME EntryInv, LoopClosed \/ DashboardClosed PROVE EntryInv' /\ Decided
<1>1. PICK a \in {"loop", "dashboard"} :
        /\ a \in Actors /\ task[a].pc = "closing" /\ Rest(a)
        /\ \E left \in Left(a) : held' = [held EXCEPT ![task[a].pair] = left]
                                 /\ Forgets(task[a].pair, left)
        /\ tracked' \in {tracked, [tracked EXCEPT ![task[a].pair] = 0]}
        /\ counted' = counted \ {task[a].pair} /\ UNCHANGED <<rows, orders, contested>>
  BY Names DEF LoopClosed, DashboardClosed
<1>2. task[a].pc \in Closes /\ task[a].pair \in Pairs
  BY <1>1 DEF EntryInv, Knows, Closes
<1>3. \A left \in Left(a) : left \subseteq held[task[a].pair]
  BY DEF Left
<1> QED
  BY <1>1, <1>2, <1>3, LetsGo

LEMMA LoopDropsKeeps == ASSUME EntryInv, LoopDrops PROVE EntryInv' /\ Decided
<1>1. PICK p : p = task["loop"].pair
  OBVIOUS
<1>2. /\ "loop" \in Actors /\ task["loop"].pc = "dropping" /\ Rest("loop")
      /\ Forgets(p, held[p]) /\ tracked' = [tracked EXCEPT ![p] = 0]
      /\ UNCHANGED <<rows, orders, held, counted, contested>>
  BY <1>1, Names DEF LoopDrops, books
<1>3. task["loop"].pc \in Closes /\ p \in Pairs
  BY <1>1, <1>2 DEF EntryInv, Knows, Closes
<1>4. held' = [held EXCEPT ![p] = held[p]]
  BY <1>2, <1>3 DEF EntryInv, Shape
<1> QED
  BY <1>1, <1>2, <1>3, <1>4, LetsGo
-----------------------------------------------------------------------------
LEMMA Steps == ASSUME EntryInv, [Next]_vars PROVE EntryInv' /\ Decided
<1>1. ASSUME NEW s \in Signals, Handle(s) PROVE EntryInv' /\ Decided
  BY <1>1, JudgedKeeps, HandlerBegins DEF Handle
<1>2. ASSUME NEW s \in Signals, NEW r \in Requests, Decide(r, s) PROVE EntryInv' /\ Decided
  BY <1>2, RequestBegins, RequestRejectsKeeps DEF Decide
<1>3. ASSUME NEW p \in Pairs, ManualTakes(p) \/ DashboardCloses(p) \/ Visit(p)
      PROVE  EntryInv' /\ Decided
  BY <1>3, ManualBegins, CloseBegins, LoopBegins DEF Visit
<1>4. ASSUME NEW a \in Actors, Open(a) \/ CloseFails(a) PROVE EntryInv' /\ Decided
  BY <1>4, RefusedKeeps, FilledKeeps, WrittenKeeps, CommitFailsKeeps, ReturnedKeeps,
     NotifiedKeeps, NotifyFailsKeeps, SettledKeeps, CloseFailsKeeps DEF Open
<1>5. CASE LoopClosed \/ LoopDrops \/ DashboardClosed
  BY <1>5, ClosedKeeps, LoopDropsKeeps
<1>6. CASE Refresh
  BY <1>6, RefreshKeeps DEF Refresh, RefreshStarts, RefreshEnds, bot
<1>7. CASE UNCHANGED vars
  BY <1>7, RefreshKeeps DEF vars, bot
<1> QED
  BY <1>1, <1>2, <1>3, <1>4, <1>5, <1>6, <1>7 DEF Next

LEMMA EntryInvariant == Spec => []EntryInv
<1>1. EntryInv /\ [Next]_vars => EntryInv'
  BY Steps
<1> QED
  BY <1>1, AtTheStart, PTL DEF Spec

\* Nobody is on the way to a book of a pair that nobody is opening.
LEMMA NobodyWrites ==
  ASSUME NEW p, OpeningOn(p) = {}
  PROVE  /\ ~Writes(p, {"booked"}) /\ ~Writes(p, {"booked", "notify"})
         /\ \A s, id : ~Leads(p, s, id)
BY DEF OpeningOn, Writes, Leads, Traces

\* A position with a written order that nobody is opening is in the loop's copy, which watches
\* its stop and targets, unless a close of an older position ended upon it.
THEOREM Tracked == Spec => []OpenIsTracked
<1>1. EntryInv => OpenIsTracked
  BY NobodyWrites DEF EntryInv, Booked, Known, Tracks, OpenIsTracked, Settles
<1> QED
  BY <1>1, EntryInvariant, PTL

\* It is counted by the risk manager, whose limits would otherwise let too many in.
THEOREM IsCounted == Spec => []OpenIsCounted
<1>1. EntryInv => OpenIsCounted
  BY NobodyWrites DEF EntryInv, Booked, Known, Counts, OpenIsCounted, Settles
<1> QED
  BY <1>1, EntryInvariant, PTL

\* Its orders are named by the rows of their signals, except a row that could not be written and
\* a signal that two requests executed at a time.
THEOREM Linked == Spec => []OpenIsLinked
<1>1. EntryInv => OpenIsLinked
  BY NobodyWrites DEF EntryInv, Booked, Known, Links, OpenIsLinked, Settles
<1> QED
  BY <1>1, EntryInvariant, PTL

\* A signal that was executed is never decided again, unless two requests had it at a time.
THEOREM ExecutedOnce == Spec => DecidedStays
<1>1. ASSUME EntryInv, [Next]_vars
      PROVE  [\A s \in Signals \ contested :
                rows[s].decision = "executed" => rows'[s] = rows[s]]_vars
  BY <1>1, Steps DEF Decided
<1> QED
  BY <1>1, EntryInvariant, PTL DEF Spec, DecidedStays
=============================================================================
