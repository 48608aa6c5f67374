--------------------------- MODULE CloseAftermath ---------------------------
(***************************************************************************)
(* What follows the close of a position: the journal of closes and the     *)
(* locks that protections.py derives from it, the sizing by expectancy     *)
(* that reads the same journal, the record of a channel's good and bad     *)
(* signals, and the decision log of the order.                             *)
(*                                                                         *)
(* Four parties close positions (the loop, a channel's report of a stop,   *)
(* the dashboard, the exchange) and each does a different part of this,    *)
(* one commit after another; the entries read the results in between.  How *)
(* a close is booked is the matter of PaperAccount and RealPosition: here  *)
(* one party closes one position at a time.                                *)
(***************************************************************************)
EXTENDS Integers, Sequences, FiniteSetsExt, SequencesExt

CONSTANTS
  Positions,   \* positions, each opened at most once
  SourceOf,    \* the channel or the strategy that opens it
  Channels,    \* the sources that are channels; the others are strategies
  Exact,       \* the channels whose signals may be executed exactly
  Pnls,        \* results of a part of a position, as a percentage
  GuardCount,  \* protections_stoploss_guard_count
  StreakCount, \* protections_losing_streak_count
  MinTrades,   \* expectancy_sizing_min_trades
  MaxTrades,   \* expectancy_sizing_max_trades
  MaxOrders,   \* bound: positions opened
  MaxUpsets    \* bound: restarts, and times that the operator wipes the tables

Sources == {SourceOf[p] : p \in Positions}
Closers == {"loop", "report", "dashboard", "exchange"}
Tasks == Closers \cup {"handler"}

ASSUME AftermathAssumption ==
  /\ Channels \subseteq Sources /\ "global" \notin Sources
  /\ Exact \subseteq Channels
  /\ Pnls \subseteq Int
  /\ {GuardCount, StreakCount, MinTrades, MaxTrades, MaxOrders, MaxUpsets} \subseteq Nat
  /\ MinTrades > 0 /\ MaxTrades > 0

VARIABLES
  life,     \* "new", "open", "closed", or "wiped" when its order is deleted
  trades,   \* table trades: the results of a position's parts
  row,      \* table telegram_signals: "none" until the row names the order,
            \* then "saved", and "linked" once it names the last trade
  events,   \* table risk_close_events; "stop" for the reason stop_loss
  locks,    \* table risk_locks: the scopes with a lock that has not expired
  stats,    \* SignalQualityScorer.channel_stats
  pending,  \* DecisionLogger._pending_by_order: the orders with steps kept
  task,     \* where each task is; the loop also opens positions, the handler
            \* of signals does nothing else
  start,    \* the start-up: "reading" or "applying" the outcomes, or "ready"
  upsets,
  astray    \* history: the channels whose record in memory has parted from the
            \* tables since the last start-up, by one of the steps that name it

memory == <<stats, pending, task, start>>
tables == <<trades, row, events, locks>>
vars == <<life, tables, memory, upsets, astray>>

Idle == [pc |-> "idle"]
Nothing == [good |-> 0, bad |-> 0]
NoStats == [c \in Channels |-> Nothing]
-----------------------------------------------------------------------------
Init == /\ life = [p \in Positions |-> "new"]
        /\ trades = [p \in Positions |-> <<>>]
        /\ events = <<>>
        /\ row = [p \in Positions |-> "none"]
        /\ locks = {}
        /\ stats = NoStats
        /\ pending = {}
        /\ task = [a \in Tasks |-> Idle]
        /\ start = [pc |-> "reading"]
        /\ upsets = 0
        /\ astray = {}

(* order_outcomes: an order's result is the sum over all its parts.        *)

FullyClosed(p) == life[p] = "closed"
Total(results) == FoldLeft(LAMBDA sum, pnl : sum + pnl, 0, results)

Good(p) == Total(trades[p]) > 0

\* update_channel_stats
Tally(c, good) ==
  stats' = IF good THEN [stats EXCEPT ![c].good = @ + 1] ELSE [stats EXCEPT ![c].bad = @ + 1]

(* A closer that still has to tell the outcome of its position, and those  *)
(* positions.                                                              *)

Owes(a) == task[a].pc \in IF a = "dashboard" THEN {"flush", "tally"}
                          ELSE {"event", "cooldown", "guard", "streak", "link"}
Owed == {task[a].pos : a \in {b \in Closers : Owes(b)}}

(* restore_channel_stats_from_db: everything that the table knows to have  *)
(* been executed and closed.                                               *)

Counted(c) == {p \in Positions : SourceOf[p] = c /\ row[p] # "none" /\ FullyClosed(p)}
Recorded == [c \in Channels |->
  [good |-> Cardinality({p \in Counted(c) : Good(p)}),
   bad  |-> Cardinality({p \in Counted(c) : ~Good(p)})]]

\* What has been told already, and what is still going to be, is counted twice.
RestoreReads ==
  /\ start.pc = "reading"
  /\ start' = [pc |-> "applying", found |-> Recorded]
  /\ astray' = {c \in Channels : stats[c] # Nothing \/ Counted(c) \cap Owed # {}}
  /\ UNCHANGED <<life, tables, stats, pending, task, upsets>>

\* The query fails, and the record starts from nothing.
RestoreFails ==
  /\ start.pc = "reading"
  /\ start' = [pc |-> "ready"]
  /\ astray' = {c \in Channels : stats[c] # Nothing \/ Counted(c) # {}}
  /\ UNCHANGED <<life, tables, stats, pending, task, upsets>>

RestoreApplies ==
  /\ start.pc = "applying"
  /\ stats' = [c \in Channels |-> [good |-> stats[c].good + start.found[c].good,
                                   bad  |-> stats[c].bad + start.found[c].bad]]
  /\ start' = [pc |-> "ready"]
  /\ UNCHANGED <<life, tables, pending, task, upsets, astray>>

Ready == start.pc = "ready"
-----------------------------------------------------------------------------
(* Entries. *)

\* Mutant: the results of all sources are taken.
NewestOfAll(source, n) ==
  [i \in 1..Min({n, Len(events)}) |-> events[Len(events) - i + 1].pnl]

\* The results of a source among the first n entries of the journal.
Upto(journal, source) ==
  LET own[n \in 0..Len(journal)] ==
        IF n = 0 THEN <<>>
        ELSE IF journal[n].source = source THEN Append(own[n - 1], journal[n].pnl)
             ELSE own[n - 1]
  IN own

\* The newest n results of a source in the journal.
Newest(source, n) ==
  LET own == Upto(events, source)[Len(events)]
  IN [i \in 1..Min({n, Len(own)}) |-> own[Len(own) - i + 1]]

\* size_multiplier is 0: enough closes, and their mean is not positive.
Excluded(source) ==
  LET newest == Newest(source, MaxTrades)
  IN Len(newest) >= MinTrades /\ Total(newest) <= 0

\* locked_reason
Locked(scopes) == scopes \cap locks # {}

\* A bound.
Room == Cardinality({p \in Positions : life[p] # "new"}) < MaxOrders

\* _process_symbol asks for the locks, then for the multiplier, then orders;
\* the loop does nothing else until the order is back.
LoopAsks(p) ==
  /\ Ready /\ Room /\ task["loop"] = Idle /\ life[p] = "new" /\ SourceOf[p] \notin Channels
  /\ ~Locked({"global", SourceOf[p]})
  /\ task' = [task EXCEPT !["loop"] = [pc |-> "sizing", pos |-> p]]
  /\ UNCHANGED <<life, tables, stats, pending, start, upsets, astray>>

LoopSizes ==
  /\ task["loop"].pc = "sizing"
  /\ task' = [task EXCEPT !["loop"] =
                IF Excluded(SourceOf[@.pos]) THEN Idle ELSE [@ EXCEPT !.pc = "ordering"]]
  /\ UNCHANGED <<life, tables, stats, pending, start, upsets, astray>>

\* A channel's signal is held up by the multiplier, but by no lock; one that
\* is executed exactly does not ask for the multiplier.
HandlerSizes(p) ==
  /\ Ready /\ Room /\ task["handler"] = Idle /\ life[p] = "new" /\ SourceOf[p] \in Channels
  /\ SourceOf[p] \in Exact \/ ~Excluded(SourceOf[p])
  /\ task' = [task EXCEPT !["handler"] = [pc |-> "ordering", pos |-> p]]
  /\ UNCHANGED <<life, tables, stats, pending, start, upsets, astray>>

\* The order comes back; attach_to_order keeps the steps of a strategy's
\* decision for it.
Opens(a) ==
  /\ task[a].pc = "ordering" /\ Room
  /\ life' = [life EXCEPT ![task[a].pos] = "open"]
  /\ pending' = IF a = "loop" THEN pending \cup {task[a].pos} ELSE pending
  /\ task' = [task EXCEPT ![a] = Idle]
  /\ UNCHANGED <<tables, stats, start, upsets, astray>>

Refused(a) ==
  /\ task[a].pc = "ordering"
  /\ task' = [task EXCEPT ![a] = Idle]
  /\ UNCHANGED <<life, tables, stats, pending, start, upsets, astray>>

\* The row of a signal is saved after its position has been opened, at times
\* after its close has been told to nobody.
RowSaved(p) ==
  /\ life[p] \in {"open", "closed"} /\ SourceOf[p] \in Channels /\ row[p] = "none"
  /\ row' = [row EXCEPT ![p] = "saved"]
  /\ astray' = IF FullyClosed(p) /\ p \notin Owed THEN astray \cup {SourceOf[p]} ELSE astray
  /\ UNCHANGED <<life, trades, events, locks, memory, upsets>>
-----------------------------------------------------------------------------
(* Closes. *)

TasksOf(p) == {a \in Tasks : task[a] # Idle /\ task[a].pos = p}

\* Open, and nobody else is closing it.
Closable(p) == life[p] = "open" /\ TasksOf(p) = {}

\* The part is booked; what the closer does next is its pc.
Book(a, p, pnl, last, stop, pc) ==
  /\ task[a] = Idle /\ Closable(p)
  /\ trades' = [trades EXCEPT ![p] = Append(@, pnl)]
  /\ life' = [life EXCEPT ![p] = IF last THEN "closed" ELSE "open"]
  /\ task' = [task EXCEPT ![a] = [pc |-> pc, pos |-> p, stop |-> stop, pnl |-> pnl]]
  /\ UNCHANGED <<row, events, locks, stats, pending, start, upsets, astray>>

\* _check_position_exit: only a channel's position has a ladder, of targets in
\* its favour.
LoopTakesPart(p) ==
  /\ Ready /\ SourceOf[p] \in Channels /\ trades[p] = <<>>
  /\ \E pnl \in Pnls : pnl > 0 /\ Book("loop", p, pnl, FALSE, FALSE, "flush")
LoopCloses(p) ==
  /\ Ready
  /\ \E pnl \in Pnls, stop \in BOOLEAN : Book("loop", p, pnl, TRUE, stop, "event")

\* Mutant: a stop that the channel reports counts as a stop of the bot.
ReportAsStop(p) ==
  /\ Ready /\ SourceOf[p] \in Channels
  /\ \E pnl \in Pnls : Book("report", p, pnl, TRUE, TRUE, "event")

\* _handle_stop_loss_report: the reason is another than stop_loss.
ReportCloses(p) ==
  /\ Ready /\ SourceOf[p] \in Channels
  /\ \E pnl \in Pnls : Book("report", p, pnl, TRUE, FALSE, "event")

\* close_position_manually
DashboardCloses(p) == \E pnl \in Pnls : Book("dashboard", p, pnl, TRUE, FALSE, "flush")

\* _record_external_close tells the journal and the decision log nothing.
ExchangeCloses(p) == \E pnl \in Pnls : Book("exchange", p, pnl, TRUE, FALSE, "link")

Proceed(a, pc) == task' = [task EXCEPT ![a] = IF pc = "idle" THEN Idle ELSE [@ EXCEPT !.pc = pc]]
-----------------------------------------------------------------------------
(* ProtectionManager.on_close: four commits. *)

Source(a) == SourceOf[task[a].pos]
Result(a) == task[a].pnl

WritesEvent(a) ==
  /\ task[a].pc = "event"
  /\ events' = Append(events, [source |-> Source(a), stop |-> task[a].stop, pnl |-> Result(a)])
  /\ Proceed(a, "cooldown")
  /\ UNCHANGED <<life, trades, row, locks, stats, pending, start, upsets, astray>>

\* LockStore.add
Lock(scope) == locks' = locks \cup {scope}

\* After the guard, or without it.
AfterGuard(a) == IF Result(a) < 0 THEN "streak" ELSE "link"

Cooldown(a) ==
  /\ task[a].pc = "cooldown"
  /\ Lock(Source(a))
  /\ Proceed(a, IF task[a].stop THEN "guard" ELSE AfterGuard(a))
  /\ UNCHANGED <<life, trades, row, events, stats, pending, start, upsets, astray>>

\* The stops of a window of time, which may or may not reach further back
\* than the last close.
StopsSince(first) ==
  Cardinality({i \in first..Len(events) : events[i].stop})

Guard(a) ==
  /\ task[a].pc = "guard"
  /\ \E first \in DOMAIN events :
       IF StopsSince(first) >= GuardCount THEN Lock("global") ELSE UNCHANGED locks
  /\ Proceed(a, AfterGuard(a))
  /\ UNCHANGED <<life, trades, row, events, stats, pending, start, upsets, astray>>

LosingStreak(source) ==
  LET newest == Newest(source, StreakCount)
  IN Len(newest) = StreakCount /\ \A i \in DOMAIN newest : newest[i] < 0

Streak(a) ==
  /\ task[a].pc = "streak"
  /\ IF LosingStreak(Source(a)) THEN Lock(Source(a)) ELSE UNCHANGED locks
  /\ Proceed(a, "link")
  /\ UNCHANGED <<life, trades, row, events, stats, pending, start, upsets, astray>>

\* The outcome that a closer owes will not be told.
Untold(a) == astray' = astray \cup ({Source(a)} \cap Channels)

\* A commit fails: nothing catches the exception before the closer is left.
CommitFails(a) ==
  /\ task[a].pc \in {"event", "cooldown", "guard", "streak", "tally"}
  /\ Proceed(a, "idle") /\ Untold(a)
  /\ UNCHANGED <<life, tables, stats, pending, start, upsets>>

\* The locks of a scope have run out.  Only a strategy that may still enter
\* would notice, and the bound leaves the others as they are.
Expires ==
  /\ task["loop"] = Idle
  /\ \E p \in Positions : \E scope \in locks \cap {"global", SourceOf[p]} :
       /\ life[p] = "new" /\ SourceOf[p] \notin Channels
       /\ locks' = locks \ {scope}
  /\ UNCHANGED <<life, trades, row, events, memory, upsets, astray>>
-----------------------------------------------------------------------------
(* link_signal_to_closed_trade, flush_for_trade, and the dashboard's own   *)
(* way of linking.                                                         *)

\* The exchange's close ends here, the others still flush.
AfterLink(a) == IF a = "exchange" THEN "idle" ELSE "flush"

\* Mutant: the outcome of a signal is that of the last part.
LastPartWins(a) == Result(a) > 0

SignalWasGood(a) == Good(task[a].pos)

\* A row that is not written yet is not found, and its outcome not counted.
Link(a) ==
  /\ task[a].pc = "link"
  /\ LET p == task[a].pos
     IN IF row[p] = "none" THEN UNCHANGED <<row, stats>>
        ELSE /\ row' = [row EXCEPT ![p] = "linked"]
             /\ IF row[p] # "linked" THEN Tally(SourceOf[p], SignalWasGood(a)) ELSE UNCHANGED stats
  /\ Proceed(a, AfterLink(a))
  /\ UNCHANGED <<life, trades, events, locks, pending, start, upsets, astray>>

\* A failure is logged, and the closer goes on.
LinkFails(a) ==
  /\ task[a].pc = "link"
  /\ Proceed(a, AfterLink(a)) /\ Untold(a)
  /\ UNCHANGED <<life, tables, stats, pending, start, upsets>>

\* The steps leave the memory before they are written; a failed write loses
\* them.
Flush(a) ==
  /\ task[a].pc = "flush"
  /\ pending' = pending \ {task[a].pos}
  /\ Proceed(a, IF a = "dashboard" THEN "tally" ELSE "idle")
  /\ UNCHANGED <<life, tables, stats, start, upsets, astray>>

\* The outcome of the part that was closed last stands for that of them all.
DashboardTallies ==
  /\ task["dashboard"].pc = "tally"
  /\ LET p == task["dashboard"].pos
         good == Result("dashboard") > 0
     IN IF row[p] = "none" THEN UNCHANGED <<row, stats, astray>>
        ELSE /\ row' = [row EXCEPT ![p] = "linked"]
             /\ Tally(SourceOf[p], good)
             /\ IF good = Good(p) THEN UNCHANGED astray ELSE Untold("dashboard")
  /\ Proceed("dashboard", "idle")
  /\ UNCHANGED <<life, trades, events, locks, pending, start, upsets>>
-----------------------------------------------------------------------------
(* The operator deletes orders and trades and unlinks the signals, while   *)
(* the record of the channels stays in memory.                             *)

Wipes ==
  /\ upsets < MaxUpsets
  /\ upsets' = upsets + 1
  /\ life' = [p \in Positions |-> IF life[p] = "new" THEN "new" ELSE "wiped"]
  /\ trades' = [p \in Positions |-> <<>>]
  /\ row' = [p \in Positions |-> "none"]
  /\ astray' = astray \cup
       {c \in Channels : stats[c] # Nothing \/ (start.pc = "applying" /\ start.found[c] # Nothing)}
  /\ UNCHANGED memory

\* reset_paper_account: positions may be open.
Resets == Wipes /\ UNCHANGED <<events, locks>>

\* clear_test_and_demo_data: none is, and the journal and the locks go too.
Clears ==
  /\ \A p \in Positions : life[p] # "open"
  /\ Wipes
  /\ events' = <<>> /\ locks' = {}
-----------------------------------------------------------------------------
\* The process ends at any moment; the tables stay.
Restart ==
  /\ upsets < MaxUpsets
  /\ upsets' = upsets + 1
  /\ stats' = NoStats
  /\ pending' = {}
  /\ task' = [a \in Tasks |-> Idle]
  /\ start' = [pc |-> "reading"]
  /\ astray' = {}
  /\ UNCHANGED <<life, tables>>

OnClose(a) == WritesEvent(a) \/ Cooldown(a) \/ Guard(a) \/ Streak(a) \/ CommitFails(a)
Restore == RestoreReads \/ RestoreFails \/ RestoreApplies
Enter(p) == LoopAsks(p) \/ HandlerSizes(p) \/ RowSaved(p)
Close(p) == LoopTakesPart(p) \/ LoopCloses(p) \/ ReportCloses(p) \/ DashboardCloses(p)
            \/ ExchangeCloses(p)

Next == \/ Restore \/ Restart \/ Expires \/ Resets \/ Clears
        \/ \E p \in Positions : Enter(p) \/ Close(p)
        \/ LoopSizes \/ \E a \in Tasks : Opens(a) \/ Refused(a)
        \/ \E a \in Closers : OnClose(a) \/ Link(a) \/ LinkFails(a) \/ Flush(a)
        \/ DashboardTallies

Spec == Init /\ [][Next]_vars
-----------------------------------------------------------------------------
TypeOK ==
  /\ life \in [Positions -> {"new", "open", "closed", "wiped"}]
  /\ row \in [Positions -> {"none", "saved", "linked"}]
  /\ \A p \in Positions : row[p] = "linked" => FullyClosed(p)
  /\ \A i \in DOMAIN events : events[i].source \in Sources
  /\ locks \subseteq Sources \cup {"global"}
  /\ pending \subseteq {p \in Positions : SourceOf[p] \notin Channels}

(* A strategy never opens a position under a lock of its own or a global   *)
(* one, although the lock is read before the multiplier and the order are  *)
(* awaited, while closes by others write locks: none of them writes one    *)
(* that concerns a strategy.  (main.py:2367)                               *)
LockedEntersNot ==
  [][Opens("loop") => ~Locked({"global", SourceOf[task["loop"].pos]})]_vars

(* While nobody owes it an outcome, a channel's record is what a restart   *)
(* would restore, whoever closed the positions and in how many parts,      *)
(* unless a step has led it astray since the last start-up: an outcome     *)
(* told before the start-up reads it, or never, or by its last part only,  *)
(* or deleted after it was told.  A restart brings it back.                *)
(* (signal_outcomes.py:59, quality_scorer.py:56, api.py:696)               *)
StatsAgree ==
  Ready => \A c \in Channels \ astray : (\A p \in Owed : SourceOf[p] # c) => stats[c] = Recorded[c]

\* Excluded, with nothing open and nobody past the question of the size.
Shut(source) ==
  /\ Excluded(source)
  /\ \A p \in Positions : SourceOf[p] = source =>
       life[p] # "open" /\ \A a \in TasksOf(p) : task[a].pc = "sizing"

(* A source that the sizing has shut trades never again, across restarts   *)
(* and resets, unless its signals are executed exactly or the operator     *)
(* clears the journal: no later close can lift its mean.                   *)
(* (expectancy_sizing.py:57, main.py:1625, executor.py:1213)               *)
ExcludedForGood ==
  [][~Clears => \A s \in Sources \ Exact : Shut(s) => Shut(s)']_vars
=============================================================================
