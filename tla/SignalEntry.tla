----------------------------- MODULE SignalEntry -----------------------------
(***************************************************************************)
(* How positions come to be (src/main.py, src/web/api.py): the handlers of *)
(* channel signals, the operator who executes a pending signal, the manual *)
(* order, the entries of the strategies, and what takes positions away     *)
(* meanwhile: the exits of the loop, the dashboard's close button and the  *)
(* refresh of the universe of pairs.                                       *)
(*                                                                         *)
(* Four books must agree about a position: the engine's, the loop's copy,  *)
(* the risk manager's count and the list of pairs the loop visits; a fifth,*)
(* the table of signals, must know the order a signal led to.  They are    *)
(* written at different moments, with awaits between, by tasks that check  *)
(* them before other awaits; nothing keeps two of them off one pair or one *)
(* signal.  What such a meeting can spoil is recorded, pair by pair and    *)
(* signal by signal, in two variables that no action reads.                *)
(*                                                                         *)
(* The account is the paper one.  Volumes, prices and sides are left out:  *)
(* an order adds to the position of its pair (PaperAccount has the rest),  *)
(* and all that the terms of an order decide is whether it is refused.     *)
(***************************************************************************)
EXTENDS Integers, Sequences, FiniteSetsExt

CONSTANTS
  Pairs,     \* trading pairs
  Signals,   \* parsed messages of channels, each handled by a task of its own
  PairOf,    \* the pair of each signal
  Requests,  \* requests of the dashboard to execute a signal, each a task
  Clients,   \* its manual orders and its close button: a subset of AllClients
  Universes, \* what a refresh may find: the liquid ones of Pairs at that time
  MaxOpen,   \* profile.max_open_positions
  MaxAlgo,   \* settings.risk_max_algo_open_positions, 0 for no limit
  MaxOrders  \* bound: orders of the engine

AllClients == {"manual", "dashboard"}
Actors == Signals \cup Requests \cup Clients \cup {"loop"}

ASSUME EntryAssumption ==
  /\ PairOf \in [Signals -> Pairs]
  /\ Clients \subseteq AllClients
  /\ Signals \cap (AllClients \cup {"loop", "no signal"}) = {}
  /\ Requests \cap (Signals \cup AllClients \cup {"loop"}) = {}
  /\ Universes \subseteq SUBSET Pairs
  /\ MaxOpen \in Nat /\ MaxAlgo \in Nat /\ MaxOrders \in Nat

VARIABLES
  rows,     \* table telegram_signals: decision and executed_order_id; "new"
            \* stands for no row yet, "unsaved" for a row that was not written
  orders,   \* the orders that changed the engine's memory: "by" is the
            \* strategy_id, "written" says whether the row is in table orders,
            \* "signal" is kept for the properties only
  held,     \* engine: the orders that make the position of a pair
  tracked,  \* TradingBot.open_positions: the order_id, 0 for no entry
  counted,  \* the symbols in risk_manager.state.open_positions
  active,   \* TradingBot.active_symbols
  refresh,  \* _refresh_symbol_universe: the list it is about to set
  task,     \* what each task is doing
  overrun,  \* history: the pairs where a close or a drop of the loop's copy
            \* ended upon a position opened since it began
  contested \* history: the signals decided by two requests at a time

books == <<orders, held>>
bot == <<tracked, counted, active>>
history == <<overrun, contested>>
vars == <<rows, books, bot, refresh, task, history>>

Idle == [pc |-> "idle"]
Done == [pc |-> "done"]
OpeningOn(p) == {a \in Actors : task[a].pc \in {"ordering", "filled", "booked", "notify", "settle"}
                                /\ task[a].pair = p}
DecidingOn(s) == {a \in Requests : task[a].pc \in {"ordering", "filled", "booked", "notify", "settle"}
                                   /\ task[a].signal = s}

Move(a, pc) == task' = [task EXCEPT ![a].pc = pc]
\* A handler runs once; everyone else starts anew.
Rest(a) == task' = [task EXCEPT ![a] = IF a \in Signals THEN Done ELSE Idle]
-----------------------------------------------------------------------------
Init == /\ rows = [s \in Signals |-> [decision |-> "new", order |-> 0]]
        /\ orders = <<>>
        /\ held = [p \in Pairs |-> {}]
        /\ tracked = [p \in Pairs |-> 0]
        /\ counted = {}
        /\ active \in Universes
        /\ refresh = [busy |-> FALSE]
        /\ task = [a \in Actors |-> Idle]
        /\ overrun = {} /\ contested = {}

(* The table of signals. *)

Row(decision, order) == [decision |-> decision, order |-> order]

\* _save_telegram_signal: nothing is written for a channel without a row of
\* its own, and an exception is swallowed.
Save(s, row) == \E saved \in BOOLEAN :
  rows' = [rows EXCEPT ![s] = IF saved THEN row ELSE Row("unsaved", row.order)]

(* _on_telegram_signal: what it awaits before the decision only reads.     *)
(* Everything the decision looks at is read between two awaits.            *)

\* Blacklist, age, missing price or levels, mode, quality, and the limits.
HandlerRejects(s) ==
  /\ task[s].pc = "idle"
  /\ Save(s, Row("rejected", 0))
  /\ task' = [task EXCEPT ![s] = Done]
  /\ UNCHANGED <<books, bot, refresh, history>>

\* A channel without auto_execute leaves the decision to the operator.
HandlerKeeps(s) ==
  /\ task[s].pc = "idle"
  /\ Save(s, Row("pending", 0))
  /\ task' = [task EXCEPT ![s] = Done]
  /\ UNCHANGED <<books, bot, refresh, history>>

\* The engine is asked to buy; what follows up to the order only reads.
Ordering(a, p, s) ==
  /\ task' = [task EXCEPT ![a] = [pc |-> "ordering", pair |-> p, signal |-> s, order |-> 0]]
  /\ UNCHANGED <<rows, books, bot, refresh, overrun>>

\* check_max_positions of RiskState.
CheckMaxPositions == Cardinality(counted) >= MaxOpen

HandlerExecutes(s) ==
  /\ task[s].pc = "idle"
  /\ tracked[PairOf[s]] = 0
  /\ ~CheckMaxPositions
  /\ Ordering(s, PairOf[s], s)
  /\ UNCHANGED contested

(* decide_telegram_signal: the row must be pending, the pair untracked;    *)
(* the limits are not looked at again.                                     *)

Contest(s) == contested' = IF DecidingOn(s) = {} THEN contested ELSE contested \cup {s}

\* Mutant: a signal that has been executed can be decided again.
RequestTakesAny(r, s) ==
  /\ task[r].pc = "idle"
  /\ rows[s].decision \notin {"new", "unsaved"}
  /\ tracked[PairOf[s]] = 0
  /\ Ordering(r, PairOf[s], s)
  /\ Contest(s)

RequestTakes(r, s) ==
  /\ task[r].pc = "idle"
  /\ rows[s].decision = "pending"
  /\ tracked[PairOf[s]] = 0
  /\ Ordering(r, PairOf[s], s)
  /\ Contest(s)

RequestRejects(r, s) ==
  /\ task[r].pc = "idle"
  /\ rows[s].decision = "pending"
  /\ rows' = [rows EXCEPT ![s] = Row("rejected", 0)]
  /\ Contest(s)
  /\ UNCHANGED <<books, bot, refresh, task, overrun>>

(* create_manual_order asks the engine's book whether the pair is free.    *)

ManualTakes(p) ==
  /\ "manual" \in Clients /\ task["manual"].pc = "idle"
  /\ held[p] = {}
  /\ Ordering("manual", p, "no signal")
  /\ UNCHANGED contested

(* _process_symbol: an entry of a strategy.                                *)

StrategyOf(p) == orders[Max(held[p])].by

\* Positions of the strategies: _count_algo_open_positions.
AlgoOpen == {p \in Pairs : held[p] # {} /\ StrategyOf(p) = "strategy"}

AlgoLimit == MaxAlgo > 0 /\ Cardinality(AlgoOpen) >= MaxAlgo

\* check_signal and the limit of the strategies; the loop visits one pair at
\* a time and waits for the order.
LoopEnters(p) ==
  /\ task["loop"].pc = "idle" /\ p \in active
  /\ ~CheckMaxPositions /\ p \notin counted
  /\ ~AlgoLimit
  /\ Ordering("loop", p, "no signal")
  /\ UNCHANGED contested
-----------------------------------------------------------------------------
(* What happens to an order.                                               *)

Source(a) == IF a \in Signals \cup Requests THEN "telegram_signal"
             ELSE IF a = "manual" THEN "manual" ELSE "strategy"

\* No price, a stop the price has passed, a channel switched off by its
\* expectancy, protections, or a refusal of the engine.
Refused(a) ==
  /\ task[a].pc = "ordering"
  /\ IF Source(a) = "telegram_signal" THEN Move(a, "settle") ELSE Rest(a)
  /\ UNCHANGED <<rows, books, bot, refresh, history>>

\* The engine changes its memory: the order makes the position of its pair or
\* adds to it; against a position of the other side it takes from it.
Filled(a) ==
  /\ task[a].pc = "ordering"
  /\ Len(orders) < MaxOrders
  /\ LET id == Len(orders) + 1
         p == task[a].pair
     IN /\ orders' = Append(orders, [by |-> Source(a), signal |-> task[a].signal,
                                      written |-> FALSE])
        /\ \E position \in {held[p] \cup {id}} \cup (IF held[p] = {} THEN {} ELSE {held[p], {}}) :
             held' = [held EXCEPT ![p] = position]
        /\ task' = [task EXCEPT ![a] = [task[a] EXCEPT !.pc = "filled", !.order = id]]
  /\ UNCHANGED <<rows, bot, refresh, history>>

\* Then it writes the row.
Written(a) ==
  /\ task[a].pc = "filled"
  /\ orders' = [orders EXCEPT ![task[a].order].written = TRUE]
  /\ Move(a, "booked")
  /\ UNCHANGED <<rows, held, bot, refresh, history>>

\* Or the commit fails, and the exception ends the task: the memory keeps the
\* position, of which nobody else is told.
CommitFails(a) ==
  /\ task[a].pc = "filled"
  /\ Rest(a)
  /\ UNCHANGED <<rows, books, bot, refresh, history>>

\* Mutant: the position of a strategy or a manual order is not counted.
TrackOnly(a) ==
  /\ tracked' = [tracked EXCEPT ![task[a].pair] = task[a].order]
  /\ UNCHANGED <<counted, active>>

\* register_manual_position, and the end of _process_symbol.  The loop's
\* pair is on the list already, unless a refresh has dropped it.
Track(a) ==
  /\ tracked' = [tracked EXCEPT ![task[a].pair] = task[a].order]
  /\ counted' = counted \cup {task[a].pair}
  /\ active' = IF a = "loop" THEN active ELSE active \cup {task[a].pair}

\* create_order returns.
Returned(a) ==
  /\ task[a].pc = "booked"
  /\ IF Source(a) = "telegram_signal"
     THEN /\ tracked' = [tracked EXCEPT ![task[a].pair] = task[a].order]
          /\ Move(a, "notify")
          /\ UNCHANGED <<counted, active>>
     ELSE Track(a) /\ Rest(a)
  /\ UNCHANGED <<rows, books, refresh, history>>

\* The end of _notify_signal_opened and what follows it.
Notified(a) ==
  /\ task[a].pc = "notify"
  /\ counted' = counted \cup {task[a].pair}
  /\ active' = active \cup {task[a].pair}
  /\ Move(a, "settle")
  /\ UNCHANGED <<rows, books, tracked, refresh, history>>

\* The message was sent, but its id has no position to go to: KeyError.  The
\* handler ends without a row; a request fails, and its row stays as it was.
NotifyFails(a) ==
  /\ task[a].pc = "notify" /\ tracked[task[a].pair] = 0
  /\ Rest(a)
  /\ UNCHANGED <<rows, books, bot, refresh, history>>

\* An order that was refused leaves the executed_order_id alone.
Outcome(a) ==
  IF task[a].order = 0 THEN Row("rejected", rows[task[a].signal].order)
                       ELSE Row("executed", task[a].order)

\* Mutant: the row is written before the order has been made.
SettledBeforeOrder(a) ==
  /\ task[a].pc = "settle"
  /\ IF a \in Signals THEN Save(a, Row("pending", 0))
                      ELSE rows' = [rows EXCEPT ![task[a].signal] = Row("pending", 0)]
  /\ Rest(a)
  /\ UNCHANGED <<books, bot, refresh, history>>

Settled(a) ==
  /\ task[a].pc = "settle"
  /\ IF a \in Signals THEN Save(a, Outcome(a))
                      ELSE rows' = [rows EXCEPT ![task[a].signal] = Outcome(a)]
  /\ Rest(a)
  /\ UNCHANGED <<books, bot, refresh, history>>
-----------------------------------------------------------------------------
(* What takes positions away. *)

Closing(a, p) == [task EXCEPT ![a] = [pc |-> "closing", pair |-> p, orders |-> held[p]]]

\* A close takes the volume it read from the position it finds.  If that is
\* no longer the position it read, the volume may be all of it or a part.
Left(a) ==
  LET now == held[task[a].pair]
  IN IF task[a].orders \subseteq now THEN {now \ task[a].orders} ELSE {{}, now}

\* Whoever forgets the pair p forgets what is left on it, too.
Forgets(p, left) == overrun' = IF left = {} THEN overrun \ {p} ELSE overrun \cup {p}

\* _check_position_exit: the price has reached a level.
LoopCloses(p) ==
  /\ task["loop"].pc = "idle" /\ p \in active
  /\ tracked[p] # 0 /\ held[p] # {}
  /\ task' = Closing("loop", p)
  /\ UNCHANGED <<rows, books, bot, refresh, history>>

\* Mutant: the loop forgets its copy only.
LoopForgetsCopy ==
  /\ task["loop"].pc = "closing"
  /\ tracked' = [tracked EXCEPT ![task["loop"].pair] = 0]
  /\ Rest("loop")
  /\ UNCHANGED <<rows, books, counted, active, refresh, history>>

LoopClosed ==
  /\ task["loop"].pc = "closing"
  /\ \E left \in Left("loop") : /\ held' = [held EXCEPT ![task["loop"].pair] = left]
                               /\ Forgets(task["loop"].pair, left)
  /\ tracked' = [tracked EXCEPT ![task["loop"].pair] = 0]
  /\ counted' = counted \ {task["loop"].pair}
  /\ Rest("loop")
  /\ UNCHANGED <<rows, orders, active, refresh, contested>>

\* _check_position_exit finds its copy without a position: it edits the
\* notification of the opening, then drops the copy.
LoopMisses(p) ==
  /\ task["loop"].pc = "idle" /\ p \in active
  /\ tracked[p] # 0 /\ held[p] = {}
  /\ task' = [task EXCEPT !["loop"] = [pc |-> "dropping", pair |-> p]]
  /\ UNCHANGED <<rows, books, bot, refresh, history>>

LoopDrops ==
  /\ task["loop"].pc = "dropping"
  /\ tracked' = [tracked EXCEPT ![task["loop"].pair] = 0]
  /\ Forgets(task["loop"].pair, held[task["loop"].pair])
  /\ Rest("loop")
  /\ UNCHANGED <<rows, books, counted, active, refresh, contested>>

\* close_position_manually; the loop's copy is left to the loop.
DashboardCloses(p) ==
  /\ "dashboard" \in Clients /\ task["dashboard"].pc = "idle"
  /\ held[p] # {}
  /\ task' = Closing("dashboard", p)
  /\ UNCHANGED <<rows, books, bot, refresh, history>>

DashboardClosed ==
  /\ "dashboard" \in Clients /\ task["dashboard"].pc = "closing"
  /\ \E left \in Left("dashboard") : /\ held' = [held EXCEPT ![task["dashboard"].pair] = left]
                                    /\ Forgets(task["dashboard"].pair, left)
  /\ counted' = counted \ {task["dashboard"].pair}
  /\ Rest("dashboard")
  /\ UNCHANGED <<rows, orders, tracked, active, refresh, contested>>

\* close_paper_position writes before it changes the memory: a failing commit
\* leaves everything as it was.
CloseFails(a) ==
  /\ task[a].pc = "closing"
  /\ Rest(a)
  /\ UNCHANGED <<rows, books, bot, refresh, history>>
-----------------------------------------------------------------------------
(* _refresh_symbol_universe: the pairs of the loop's copy stay on the list *)
(* as they are when the new one arrives; the candles of new pairs, others  *)
(* than those of Pairs among them, are awaited before it is set.           *)

\* Mutant: open positions are not kept on the list.
ListWithoutOpen(universe) == universe

NewList(universe) == universe \cup {p \in Pairs : tracked[p] # 0}

RefreshStarts ==
  /\ ~refresh.busy
  /\ \E universe \in Universes :
       refresh' = [busy |-> TRUE, list |-> NewList(universe)]
  /\ UNCHANGED <<rows, books, bot, task, history>>

RefreshEnds ==
  /\ refresh.busy
  /\ active' = refresh.list
  /\ refresh' = [busy |-> FALSE]
  /\ UNCHANGED <<rows, books, tracked, counted, task, history>>
-----------------------------------------------------------------------------
Open(a) == \/ Refused(a) \/ Filled(a) \/ Written(a) \/ CommitFails(a)
           \/ Returned(a) \/ Notified(a) \/ NotifyFails(a) \/ Settled(a)

Handle(s) == HandlerRejects(s) \/ HandlerKeeps(s) \/ HandlerExecutes(s)
Decide(r, s) == RequestTakes(r, s) \/ RequestRejects(r, s)
Visit(p) == LoopEnters(p) \/ LoopCloses(p) \/ LoopMisses(p)
Refresh == RefreshStarts \/ RefreshEnds

Next == \/ \E s \in Signals : Handle(s) \/ \E r \in Requests : Decide(r, s)
        \/ \E p \in Pairs : ManualTakes(p) \/ DashboardCloses(p) \/ Visit(p)
        \/ \E a \in Actors : Open(a) \/ CloseFails(a)
        \/ LoopClosed \/ LoopDrops \/ DashboardClosed
        \/ Refresh

Spec == Init /\ [][Next]_vars

\* The scheduler runs the refresh again and again, and the exchange answers
\* in the end.
FairSpec == Spec /\ WF_vars(RefreshStarts) /\ WF_vars(RefreshEnds)
-----------------------------------------------------------------------------
Decisions == {"new", "unsaved", "pending", "rejected", "executed"}

TypeOK ==
  /\ \A s \in Signals : rows[s].decision \in Decisions /\ rows[s].order \in 0..Len(orders)
  /\ \A s \in Signals : rows[s].decision = "executed" => rows[s].order \in DOMAIN orders
  /\ \A p \in Pairs : held[p] \subseteq DOMAIN orders /\ tracked[p] \in 0..Len(orders)
  /\ counted \subseteq Pairs /\ active \subseteq Pairs
  /\ overrun \subseteq Pairs /\ contested \subseteq Signals
  /\ \A a \in Actors : task[a].pc \in
       {"idle", "done", "ordering", "filled", "booked", "notify", "settle", "closing", "dropping"}

\* The orders of the position that have a row.
WrittenOf(p) == {id \in held[p] : orders[id].written}

\* A position with a written order, which nobody is opening any more and which
\* no close of an older one has ended upon.
Settles(p) == WrittenOf(p) # {} /\ OpeningOn(p) = {} /\ p \notin overrun

(* Such a position is in the loop's copy, where its stop and targets are   *)
(* watched, however many tasks opened and closed its pair at once.         *)
(* (main.py:1697, 2443: the copy is set when the order returns; main.py:   *)
(* 2811, 2988: the loop deletes it after awaits; executor.py:1573: the row *)
(* that is not written leaves a position nobody watches.)                  *)
OpenIsTracked == \A p \in Pairs : Settles(p) => tracked[p] # 0

(* It is counted by the risk manager, so that the limit of open positions  *)
(* and the rule of one position per pair see it.  (main.py:1721: a signal's*)
(* position is counted only after the notification, when the dashboard or  *)
(* the loop may have closed it already; api.py:679.)                       *)
OpenIsCounted == \A p \in Pairs : Settles(p) => p \in counted

(* Each of its written orders can be traced to the signal that led to it,  *)
(* unless two requests decided that signal at a time: the row of the       *)
(* signal names the order, which is what a restart restores the ladder of  *)
(* targets from.  (main.py:1157 and api.py:2725: the row is written last.) *)
OpenIsLinked ==
  \A p \in Pairs : Settles(p) => \A id \in WrittenOf(p) :
    LET s == orders[id].signal
    IN s \notin contested \cup {"no signal"} =>
         rows[s].decision = "unsaved" \/ rows[s] = Row("executed", id)

(* A signal that was executed is never decided again, unless two requests  *)
(* had it under way at a time: the handler, the requests one after another *)
(* and a request that failed half-way leave it alone.  (api.py:2680, 2718) *)
DecidedStays ==
  [][\A s \in Signals \ contested : rows[s].decision = "executed" => rows'[s] = rows[s]]_vars

(* A tracked position that has dropped out of the list of pairs the loop   *)
(* visits comes back to it.  (main.py:253, 271)                            *)
VisitedAgain ==
  \A p \in Pairs : (held[p] # {} /\ tracked[p] # 0) ~> (p \in active \/ tracked[p] = 0)
=============================================================================
