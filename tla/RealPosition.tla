----------------------------- MODULE RealPosition -----------------------------
(***************************************************************************)
(* One futures position on a real account (src/execution/executor.py and   *)
(* its callers in src/main.py and src/web/api.py): opening, the protective *)
(* stop on the exchange, closing, the notice that the stop was executed,   *)
(* the reconciliation every iteration of the loop begins with, and the     *)
(* restart.                                                                *)
(*                                                                         *)
(* The exchange holds the contracts; it executes stops, and the owner of   *)
(* the account trades by hand, whenever they like.  The engine keeps what  *)
(* it tracks, the loop a copy of its own, and the database what a restart  *)
(* rebuilds both from.  Volumes are numbers of contracts.                  *)
(*                                                                         *)
(* Five workers share the event loop; a step of theirs is what happens     *)
(* between two awaits that matter: a sale, the memory's update and the     *)
(* commit are separate steps.                                              *)
(***************************************************************************)
EXTENDS Naturals, Sequences, FiniteSetsExt

Workers == {"opening",   \* _execute_real_order
            "loop",      \* _trading_iteration: reconciliation and exits
            "channel",   \* _on_channel_stop_hit_report
            "request",   \* /positions/close, /positions/edit
            "watch"}     \* _watch_orders_loop

CONSTANTS
  Lot,         \* contracts an opening asks for
  Cap,         \* contracts the account ever holds
  MaxStops,    \* stop orders the exchange accepts
  MaxOrders,   \* rows of openings
  MaxFills,    \* sales
  Overlaps,    \* the pairs of workers that may be at work at the same time
  Mishaps      \* what else may happen:
               \* "partial confirmation": an opening is confirmed while only a
               \* part of it has been executed;
               \* "foreign contracts": contracts the bot did not buy are held,
               \* beside its own or when it buys;
               \* "stale copy": a position is adopted before the loop has
               \* dropped its copy of the last one;
               \* "second row": a position is opened or adopted while a row of the
               \* symbol that nobody tracks still has something open;
               \* "crash": the process stops while a worker is at work;
               \* "lost cancel": a cancellation whose outcome the code ignores
               \* is not carried out;
               \* "wrong answer": the exchange reports no contracts though it
               \* holds some, never twice in a row

AllMishaps == {"partial confirmation", "foreign contracts", "stale copy", "second row", "crash",
               "lost cancel", "wrong answer"}

ASSUME RealAssumption ==
  /\ {Lot, Cap, MaxStops, MaxOrders, MaxFills} \subseteq Nat \ {0} /\ Lot <= Cap
  /\ \A pair \in Overlaps : pair \subseteq Workers
  /\ Mishaps \subseteq AllMishaps

VARIABLES
  \* The exchange.
  held,     \* contracts of the position
  stops,    \* live stop orders
  fills,    \* the closing executions, oldest first, each with the stop it was
            \* made by, 0 for none
  wrong,    \* its last answer about the position was wrong
  \* The database.
  orders,   \* opening orders; "at" is the number of sales before created_at
  trades,   \* Trade with its closing Order
  \* The memory.
  pos,      \* ExecutionEngine.real_positions[symbol]
  bot,      \* TradingBot.open_positions[symbol]
  work,     \* what each worker is doing
  events    \* stops whose execution watch_orders has yet to tell

exchange == <<held, stops, fills>>
db == <<orders, trades>>
memory == <<pos, bot>>
vars == <<exchange, wrong, db, memory, work, events>>

None == [open |-> FALSE]
Idle == [step |-> "idle"]
Busy == {w \in Workers : work[w] # Idle}

\* A worker may act; and it may begin what takes it several steps.
Free(w) == work[w] = Idle /\ \A other \in Busy : {w, other} \in Overlaps
Start(w, job) == Free(w) /\ work' = [work EXCEPT ![w] = job]
Continue(w, step) == work' = [work EXCEPT ![w].step = step]
Finish(w) == work' = [work EXCEPT ![w] = Idle]

\* The smallest number no stop order anyone knows of has: fresh ids.
KnownStops ==
  {s.id : s \in stops} \cup {fills[i].stop : i \in DOMAIN fills}
  \cup (IF pos.open THEN {pos.stop} ELSE {})
  \cup {work[w].stop : w \in {v \in Workers : work[v].step \in {"drop", "book"}}}
NewStop == Min(1..(Cardinality(KnownStops) + 1) \ KnownStops)
-----------------------------------------------------------------------------
(* The exchange: a sale is reduce-only, and takes what there is. *)

Sell(volume, stop) ==
  /\ held > 0 /\ Len(fills) < MaxFills
  /\ held' = held - Min({volume, held})
  /\ fills' = Append(fills, [volume |-> Min({volume, held}), stop |-> stop])

\* The price reaches a stop.
StopExecuted ==
  \E s \in stops :
    /\ Sell(s.volume, s.id)
    /\ stops' = stops \ {s}
    /\ events' = events \cup {s.id}
    /\ UNCHANGED <<wrong, db, memory, work>>

\* The owner of the account buys a contract, sells everything.
OwnerBuys ==
  /\ "foreign contracts" \in Mishaps /\ held < Cap
  /\ Len(orders) < MaxOrders /\ Len(fills) < MaxFills
  /\ held' = held + 1
  /\ UNCHANGED <<stops, fills, wrong, db, memory, work, events>>

OwnerSells ==
  /\ Sell(held, 0)
  /\ UNCHANGED <<stops, wrong, db, memory, work, events>>
-----------------------------------------------------------------------------
(* The stop order on the exchange. *)

Without(id) == {s \in stops : s.id # id}

\* _cancel_order_safe where nobody looks at its result.
Cancelled(rest) == {rest} \cup (IF "lost cancel" \in Mishaps THEN {stops} ELSE {})

\* _place_stop_loss_order: for the contracts the exchange reports, if it takes
\* the order; it takes none without a position.
Placed(rest) ==
  {[stop |-> 0, stops |-> rest]}
  \cup (IF held = 0 \/ Cardinality(rest) >= MaxStops THEN {}
        ELSE {[stop |-> NewStop, stops |-> rest \cup {[id |-> NewStop, volume |-> held]}]})

\* sync_stop_loss_order: the stop is amended; or it stays because its
\* cancellation is not confirmed; or it is cancelled and another one placed.
Synced(id, volume) ==
  (IF \E s \in stops : s.id = id
   THEN {[stop |-> id, stops |-> Without(id) \cup {[id |-> id, volume |-> volume]}]} ELSE {})
  \cup (IF id # 0 THEN {[stop |-> id, stops |-> stops]} ELSE {})
  \cup Placed(Without(id))
-----------------------------------------------------------------------------
(* What a restart rebuilds. *)

Total(rows, some) == MapThenSumSet(LAMBDA i : rows[i].volume, some)
VolumeOf(sales) == Total(fills, sales)
TradesOf(order) == {i \in DOMAIN trades : trades[i].order = order}
Traded(order) == Total(trades, TradesOf(order))

Remaining(order) ==
  IF orders[order].filled /\ orders[order].volume > Traded(order)
  THEN orders[order].volume - Traded(order) ELSE 0

OpenOrders == {i \in DOMAIN orders : Remaining(i) > 0}
DbVolume == MapThenSumSet(Remaining, OpenOrders)
NoOtherRow(rows) == OpenOrders \subseteq rows \/ "second row" \in Mishaps

Copy(p) == IF p.open THEN [open |-> TRUE, volume |-> p.volume, order |-> p.order] ELSE None

\* _load_open_positions_from_db: all open rows of the symbol make one position.
Restored ==
  IF OpenOrders = {} THEN None
  ELSE [open |-> TRUE, volume |-> DbVolume, order |-> Max(OpenOrders), stop |-> 0,
        since |-> orders[Min(OpenOrders)].at, gone |-> FALSE, adopted |-> FALSE]

\* Every stop order of a restored position is cancelled and a new one placed.
Rearmed ==
  IF Restored.open THEN UNION {Placed(rest) : rest \in Cancelled({})}
  ELSE {[stop |-> 0, stops |-> stops]}

Restart ==
  /\ Busy = {} \/ "crash" \in Mishaps
  /\ \E placed \in Rearmed :
       /\ pos' = IF Restored.open THEN [Restored EXCEPT !.stop = placed.stop] ELSE None
       /\ stops' = placed.stops
  /\ bot' = Copy(Restored)
  /\ work' = [w \in Workers |-> Idle]
  /\ events' = {} /\ wrong' = FALSE
  /\ UNCHANGED <<held, fills, db>>
-----------------------------------------------------------------------------
(* Opening. *)

NewOrder(volume) == [volume |-> volume, filled |-> TRUE, at |-> Len(fills)]
NewPosition(volume, order, adopted) ==
  [open |-> TRUE, volume |-> volume, order |-> order, stop |-> 0, since |-> Len(fills),
   gone |-> FALSE, adopted |-> adopted]
Rejected(order) == [orders EXCEPT ![order].filled = FALSE]

\* A signal opens what the loop does not hold, the dashboard what the engine
\* does not track.  The exchange executes the order or not.
OpenSend ==
  /\ ~bot.open \/ ~pos.open
  /\ Len(orders) < MaxOrders /\ held + Lot <= Cap
  /\ held = 0 \/ "foreign contracts" \in Mishaps
  /\ NoOtherRow(IF pos.open /\ pos.adopted THEN {pos.order} ELSE {})
  /\ \E bought \in {0, Lot} :
       /\ held' = held + bought
       /\ Start("opening", [step |-> "sent", bought |-> bought])
  /\ UNCHANGED <<stops, fills, wrong, db, memory, events>>

\* Mutant: the symbol stays among those with an order in flight.
OpenStaysInFlight ==
  /\ work["opening"].step = "sent"
  /\ Continue("opening", "in flight")
  /\ UNCHANGED <<exchange, wrong, db, memory, events>>

\* The order was not executed, or the exchange did not say so in time.
OpenUnconfirmed ==
  /\ work["opening"].step = "sent"
  /\ Finish("opening")
  /\ UNCHANGED <<exchange, wrong, db, memory, events>>

\* The order's row; the position, in place of one that was adopted meanwhile;
\* and its stop.
OpenConfirmed(volume) ==
  LET superseded == pos.open /\ pos.adopted
      new == NewPosition(volume, Len(orders) + 1, FALSE)
  IN /\ work["opening"].step = "sent" /\ work["opening"].bought >= volume
     /\ orders' = Append(IF superseded THEN Rejected(pos.order) ELSE orders, NewOrder(volume))
     /\ \E rest \in IF superseded THEN Cancelled(Without(pos.stop)) ELSE {stops} :
        \E placed \in Placed(rest) :
          /\ pos' = [new EXCEPT !.stop = placed.stop]
          /\ stops' = placed.stops
     /\ bot' = Copy(new)
     /\ Finish("opening")
     /\ UNCHANGED <<held, fills, wrong, trades, events>>
-----------------------------------------------------------------------------
(* Closing. *)

\* The stop is cancelled first; nothing happens when that is not confirmed.
Close(w, volume, order) ==
  /\ pos.open /\ Len(fills) < MaxFills
  /\ stops' = Without(pos.stop)
  /\ Start(w, [step |-> "sell", volume |-> volume, order |-> order, fill |-> 0])

\* _check_position_exit: the whole position or a part of it, after the volume
\* of the copy was brought up to the tracked one.
LoopCloses ==
  /\ bot.open /\ pos.open
  /\ LET known == Max({bot.volume, pos.volume})
     IN /\ bot' = [bot EXCEPT !.volume = known]
        /\ \E volume \in 1..known : Close("loop", volume, bot.order)
  /\ UNCHANGED <<held, fills, wrong, db, pos, events>>

\* _on_channel_stop_hit_report: what the loop's copy holds.
ChannelCloses ==
  /\ bot.open /\ Close("channel", bot.volume, bot.order)
  /\ UNCHANGED <<held, fills, wrong, db, memory, events>>

\* /positions/close: what the engine tracks.
RequestCloses ==
  /\ pos.open /\ Close("request", pos.volume, pos.order)
  /\ UNCHANGED <<held, fills, wrong, db, memory, events>>

\* No sale, or none the exchange confirms: the position stays tracked.
CloseFails(w) ==
  /\ work[w].step = "sell"
  /\ UNCHANGED <<held, fills>> \/ Sell(work[w].volume, 0)
  /\ Finish(w)
  /\ bot' = IF w # "request" /\ ~pos.open THEN None ELSE bot
  /\ UNCHANGED <<stops, wrong, db, pos, events>>

CloseSells(w) ==
  /\ work[w].step = "sell"
  /\ Sell(work[w].volume, 0)
  /\ work' = [work EXCEPT ![w].step = "forget", ![w].fill = Len(fills) + 1]
  /\ UNCHANGED <<stops, wrong, db, memory, events>>

\* The sale is confirmed: the memory forgets the volume before the database
\* hears of it.
CloseForgets(w) ==
  /\ work[w].step = "forget"
  /\ pos' = IF pos.open /\ pos.volume > work[w].volume
            THEN [pos EXCEPT !.volume = @ - work[w].volume] ELSE None
  /\ Continue(w, "record")
  /\ UNCHANGED <<exchange, wrong, db, bot, events>>

NewTrade(order, sales, volume) ==
  [order |-> order, fills |-> sales, volume |-> volume, at |-> Len(fills)]

\* The rows; and the loop takes the volume off its copy and gives what is left
\* a new stop.
CloseRecords(w) ==
  LET partly == w = "loop" /\ bot.open /\ work[w].volume < bot.volume
      left == bot.volume - work[w].volume
  IN /\ work[w].step = "record"
     /\ trades' = Append(trades, NewTrade(work[w].order, {work[w].fill}, work[w].volume))
     /\ Finish(w)
     /\ bot' = IF partly THEN [bot EXCEPT !.volume = left]
               ELSE IF w = "request" THEN bot ELSE None
     /\ \/ /\ partly /\ pos.open
           /\ \E s \in Synced(pos.stop, left) :
                pos' = [pos EXCEPT !.stop = s.stop] /\ stops' = s.stops
        \/ ~(partly /\ pos.open) /\ UNCHANGED <<pos, stops>>
     /\ UNCHANGED <<held, fills, wrong, orders, events>>

\* _check_position_exit: the position is not tracked any more.
LoopForgets ==
  /\ work["loop"] = Idle /\ bot.open /\ ~pos.open
  /\ bot' = None
  /\ UNCHANGED <<exchange, wrong, db, pos, work, events>>

\* edit_position
Edit ==
  /\ Free("request") /\ pos.open
  /\ \E s \in Synced(pos.stop, pos.volume) :
       pos' = [pos EXCEPT !.stop = s.stop] /\ stops' = s.stops
  /\ UNCHANGED <<held, fills, wrong, db, bot, work, events>>
-----------------------------------------------------------------------------
(* Sales the bot did not make. *)

FillsOf(stop) == {i \in DOMAIN fills : stop # 0 /\ fills[i].stop = stop}

Settle(w, sales) ==
  Start(w, [step |-> "drop", order |-> pos.order, stop |-> pos.stop, fills |-> sales])

\* _on_order_fill: the sale is settled if it is the tracked position's stop's
\* and the exchange answers for it.
WatcherHears ==
  \E id \in events :
    /\ Free("watch")
    /\ events' = events \ {id}
    /\ \/ pos.open /\ pos.stop = id /\ Settle("watch", FillsOf(id))
       \/ UNCHANGED work
    /\ UNCHANGED <<exchange, wrong, db, memory>>

\* Mutant: the stop is taken to be the sale that was found.
SettleForgetsPosition(w) ==
  /\ work[w].step = "drop"
  /\ pos' = None
  /\ Continue(w, "book")
  /\ UNCHANGED <<exchange, wrong, db, bot, events>>

\* _record_external_close: whatever is tracked is not tracked any more, and the
\* stop of the position the sale was found for is cancelled, the one it has by
\* now if it is still tracked.
SettleForgets(w) ==
  /\ work[w].step = "drop"
  /\ pos' = None
  /\ stops' \in Cancelled(Without(IF pos.open /\ pos.order = work[w].order THEN pos.stop
                                  ELSE work[w].stop))
  /\ Continue(w, "book")
  /\ UNCHANGED <<held, fills, wrong, db, bot, events>>

SettleRecords(w) ==
  /\ work[w].step = "book"
  /\ trades' = Append(trades, NewTrade(work[w].order, work[w].fills, VolumeOf(work[w].fills)))
  /\ Finish(w)
  /\ UNCHANGED <<exchange, wrong, orders, memory, events>>

\* fetch_position at the beginning of an iteration.
Answered(contracts) ==
  /\ Free("loop") /\ pos.open
  /\ \/ contracts = held
     \/ contracts = 0 /\ "wrong answer" \in Mishaps /\ ~wrong
  /\ wrong' = (contracts # held)

\* _reconcile_futures_position, the exchange holding more than is tracked.
ReconcileGrowth ==
  /\ Answered(held) /\ held > pos.volume
  /\ \E s \in Synced(pos.stop, held) :
       pos' = [pos EXCEPT !.volume = held, !.stop = s.stop] /\ stops' = s.stops
  /\ UNCHANGED <<held, fills, db, bot, work, events>>

\* ... as much, or less but not nothing: all is well.
ReconcileHeld ==
  /\ Answered(held) /\ held \in 1..pos.volume
  /\ pos' = [pos EXCEPT !.gone = FALSE]
  /\ UNCHANGED <<exchange, db, bot, work, events>>

\* ... nothing, for the first time.
ReconcileSuspects ==
  /\ Answered(0) /\ ~pos.gone
  /\ pos' = [pos EXCEPT !.gone = TRUE]
  /\ UNCHANGED <<exchange, db, bot, work, events>>

\* Mutant: every sale since the opening.
HistorySinceOpening(p) == {i \in DOMAIN fills : i > p.since}

\* _recorded_close_fills, _finalize_via_recent_trade_history: sales after the
\* opening and the last recorded close that no trade of the order knows.
HistoryOf(p) ==
  LET since == Max({p.since} \cup {trades[i].at : i \in TradesOf(p.order)})
  IN {i \in DOMAIN fills : i > since /\ \A t \in TradesOf(p.order) : i \notin trades[t].fills}

\* ... nothing, for the second time: the stop's sale, or else the history's, is
\* settled.
ReconcileSettles ==
  /\ Answered(0) /\ pos.gone
  /\ \/ FillsOf(pos.stop) # {} /\ Settle("loop", FillsOf(pos.stop))
     \/ /\ FillsOf(pos.stop) = {}
        /\ HistoryOf(pos) # {} /\ VolumeOf(HistoryOf(pos)) = pos.volume
        /\ Settle("loop", HistoryOf(pos))
  /\ pos' = [pos EXCEPT !.gone = FALSE]
  /\ UNCHANGED <<exchange, db, bot, events>>

\* ... or none is found or answered for, and the position is young,
ReconcilePostpones ==
  /\ Answered(0) /\ pos.gone
  /\ pos' = [pos EXCEPT !.gone = FALSE]
  /\ UNCHANGED <<exchange, db, bot, work, events>>

\* Mutant: the row stays open.
WritesOffInMemory ==
  /\ Answered(0) /\ pos.gone
  /\ pos' = None
  /\ stops' \in Cancelled(Without(pos.stop))
  /\ UNCHANGED <<held, fills, db, bot, work, events>>

\* Mutant: a sale has to be found first.
WritesOffWhatWasSold ==
  /\ Answered(0) /\ pos.gone /\ HistoryOf(pos) # {}
  /\ pos' = None
  /\ stops' \in Cancelled(Without(pos.stop))
  /\ orders' = Rejected(pos.order)
  /\ UNCHANGED <<held, fills, trades, bot, work, events>>

\* ... or it is old, and is written off.
ReconcileWritesOff ==
  /\ Answered(0) /\ pos.gone
  /\ pos' = None
  /\ stops' \in Cancelled(Without(pos.stop))
  /\ orders' = Rejected(pos.order)
  /\ UNCHANGED <<held, fills, trades, bot, work, events>>

\* _auto_adopt_untracked_futures_position
Adopt ==
  /\ Free("loop") /\ work["opening"] = Idle
  /\ ~pos.open /\ held > 0 /\ Len(orders) < 2 * MaxOrders
  /\ ~bot.open \/ "stale copy" \in Mishaps
  /\ NoOtherRow({})
  /\ orders' = Append(orders, NewOrder(held))
  /\ \E placed \in Placed(stops) :
       /\ pos' = [NewPosition(held, Len(orders) + 1, TRUE) EXCEPT !.stop = placed.stop]
       /\ stops' = placed.stops
  /\ UNCHANGED <<held, fills, wrong, trades, bot, work, events>>
-----------------------------------------------------------------------------
Init ==
  /\ held = 0 /\ stops = {} /\ fills = <<>> /\ wrong = FALSE
  /\ orders = <<>> /\ trades = <<>>
  /\ pos = None /\ bot = None
  /\ work = [w \in Workers |-> Idle]
  /\ events = {}

Next ==
  \/ StopExecuted \/ OwnerBuys \/ OwnerSells
  \/ OpenSend \/ OpenUnconfirmed
  \/ \E volume \in (IF "partial confirmation" \in Mishaps THEN 1 ELSE Lot)..Lot :
       OpenConfirmed(volume)
  \/ LoopCloses \/ ChannelCloses \/ RequestCloses
  \/ \E w \in {"loop", "channel", "request"} :
       CloseFails(w) \/ CloseSells(w) \/ CloseForgets(w) \/ CloseRecords(w)
  \/ LoopForgets \/ Edit
  \/ WatcherHears
  \/ \E w \in {"loop", "watch"} : SettleForgets(w) \/ SettleRecords(w)
  \/ ReconcileGrowth \/ ReconcileHeld \/ ReconcileSuspects
  \/ ReconcileSettles \/ ReconcilePostpones \/ ReconcileWritesOff \/ Adopt
  \/ Restart

Spec == Init /\ [][Next]_vars
-----------------------------------------------------------------------------
Steps(w) ==
  \/ CloseFails(w) \/ CloseSells(w) \/ CloseForgets(w) \/ CloseRecords(w)
  \/ SettleForgets(w) \/ SettleRecords(w)

\* The exchange answers in the end; the loop goes on, every iteration of it
\* reconciles, and a position grows old enough; and the process does not
\* restart for ever.
Fairness ==
  /\ WF_vars(OpenUnconfirmed)
  /\ \A w \in Workers \ {"opening"} : WF_vars(Steps(w))
  /\ WF_vars(LoopForgets)
  /\ SF_vars(ReconcileSuspects)
  /\ SF_vars(ReconcileSettles \/ ReconcileWritesOff)
  /\ SF_vars(Adopt)
  /\ <>[][~Restart]_vars

LiveSpec == Spec /\ Fairness
-----------------------------------------------------------------------------
Job ==
  {Idle} \cup [step : {"sent"}, bought : {0, Lot}]
  \cup [step : {"sell", "forget", "record"}, volume : Nat \ {0}, order : DOMAIN orders,
        fill : {0} \cup DOMAIN fills]
  \cup [step : {"drop", "book"}, order : DOMAIN orders, stop : Nat, fills : SUBSET DOMAIN fills]

\* Type invariant.
TypeOK ==
  /\ held \in 0..Cap /\ wrong \in BOOLEAN
  /\ \A s \in stops : {s.id, s.volume} \subseteq Nat \ {0}
  /\ \A i \in DOMAIN fills : fills[i].volume \in 1..Cap /\ fills[i].stop \in Nat
  /\ \A i \in DOMAIN orders :
       orders[i].volume \in 1..Cap /\ orders[i].filled \in BOOLEAN /\ orders[i].at \in 0..Len(fills)
  /\ \A i \in DOMAIN trades :
       /\ trades[i].order \in DOMAIN orders /\ trades[i].fills \subseteq DOMAIN fills
       /\ trades[i].volume \in Nat /\ trades[i].at \in 0..Len(fills)
  /\ pos.open => /\ pos.order \in DOMAIN orders /\ pos.since \in 0..Len(fills)
                 /\ pos.volume \in Nat \ {0} /\ pos.stop \in Nat
  /\ bot.open => bot.order \in DOMAIN orders /\ bot.volume \in Nat \ {0}
  /\ \A w \in Workers : work[w] \in Job
  /\ events \subseteq {fills[i].stop : i \in DOMAIN fills}

Tracked == IF pos.open THEN pos.volume ELSE 0
Unbooked == {i \in DOMAIN fills : \A t \in DOMAIN trades : i \notin trades[t].fills}
Stray == {s.id : s \in stops} \ (IF pos.open THEN {pos.stop} ELSE {})

\* No sale on the exchange is booked as two trades, whoever finds it: the worker
\* that sold, the watcher told of the stop, or the reconciliation that searches
\* the history of the account, with crashes between a sale and its rows
\* (_recorded_close_fills and _confirmed_externally_gone exist for this).
BookedOnce ==
  \A i, j \in DOMAIN trades : i # j => trades[i].fills \cap trades[j].fills = {}

\* When nobody is at work, what the rows still have open, which is what a restart
\* brings back, is tracked in the memory or has been sold by a sale no trade
\* knows of yet: nothing is written off or forgotten in the memory alone
\* (_reconcile_phantom_position, _discard_superseded_auto_adoption, close_real_position).
LedgerCovered == Busy = {} => DbVolume <= Tracked + VolumeOf(Unbooked)

\* No step leaves a stop order on the exchange without the position it protects:
\* one that no longer belongs to what is tracked would close the next position
\* of the symbol.  The rows must know of what is tracked, because a restart
\* rearms the stops of what it finds there (_record_external_close,
\* sync_stop_loss_order, _rearm_stop_loss_orders_after_restart).
NoStopLeftBehind == [][Stray' \subseteq Stray \/ DbVolume < Tracked]_vars

\* A position that is gone from the exchange is not tracked for ever, whether its
\* sale is found or not, over wrong answers and crashes
\* (_reconcile_futures_position up to _reconcile_phantom_position).
GoneIsForgotten == (pos.open /\ held = 0) ~> (~pos.open \/ held > 0)

\* Contracts on the exchange that no worker knows of are tracked in the end: an
\* opening whose confirmation was lost, a position written off by mistake or
\* bought by hand is adopted (_warn_about_untracked_futures_positions,
\* _auto_adopt_untracked_futures_position).
HeldIsTracked == (held > 0) ~> (pos.open \/ held = 0)
=============================================================================
