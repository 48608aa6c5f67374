---------------------------- MODULE PaperAccount ----------------------------
(***************************************************************************)
(* The paper trading account of the execution engine                       *)
(* (src/execution/executor.py): balance and positions in memory, orders    *)
(* and trades in the database, and the tasks of the event loop that open   *)
(* and close positions.  A task gives way to the others at its awaits, so  *)
(* every method is split there: opening changes memory first and writes    *)
(* the order afterwards, closing writes first and changes memory after     *)
(* the session is left.  A restart rebuilds the account from the database. *)
(*                                                                         *)
(* Money is in whole units.  Fees are charged per unit of volume at a      *)
(* constant rate, and slippage is part of the price.                       *)
(***************************************************************************)
EXTENDS Integers, Sequences, FiniteSetsExt

CONSTANTS
  Symbols,     \* trading pairs
  Amounts,     \* volumes that are opened, even numbers
  Prices,      \* execution prices, even numbers
  FeeRate,     \* fee per unit of volume
  Capital,     \* settings.startup_capital_usdt
  Tasks,       \* the tasks that run: a subset of {"signal", "manual", "loop", "api"}
  MaxOrders,   \* bound: rows of the table of orders
  MaxFailures  \* bound: failed writes to the database

ASSUME PaperAssumption ==
  /\ \A n \in Amounts \cup Prices : n \in Nat /\ n % 2 = 0 /\ n > 0
  /\ FeeRate \in Nat /\ Capital \in Int /\ MaxOrders \in Nat /\ MaxFailures \in Nat
  /\ Tasks \subseteq {"signal", "manual", "loop", "api"}

VARIABLES
  balance,   \* ExecutionEngine.paper_balance
  positions, \* ExecutionEngine.paper_positions
  tracked,   \* TradingBot.open_positions, the loop's own copy
  orders,    \* table orders, filled ones; the id is the index, also of a
             \* row that is deleted
  trades,    \* table trades
  task,      \* what each task is doing
  failures,  \* writes that failed so far
  crossed,   \* for the properties: symbols whose memory and rows may differ, since
             \* two tasks met there, a write failed or the rows were not read
  skewed     \* for the properties: the balance may differ from the rows, since a
             \* close charged the fee of parts long closed or they were not read

memory == <<balance, positions>>
db == <<orders, trades>>
marks == <<crossed, skewed>>
vars == <<memory, tracked, db, task, failures, marks>>

Nothing == [s \in {} |-> 0]
Openers == Tasks \cap {"signal", "manual"}
Closers == Tasks \cap {"loop", "api"}
Idle == [pc |-> "idle"]

Without(f, s) == [t \in DOMAIN f \ {s} |-> f[t]]
Put(f, s, v) == [t \in DOMAIN f \cup {s} |-> IF t = s THEN v ELSE f[t]]

Busy(s) == \E a \in Tasks : task[a].pc # "idle" /\ task[a].symbol = s

\* Nothing keeps a task from starting on a symbol that another is at work on.
Starts(a, s) == /\ task[a].pc = "idle"
                /\ crossed' = IF Busy(s) THEN crossed \cup {s} ELSE crossed
                /\ UNCHANGED skewed
SideOf(way) == IF way = "buy" THEN "long" ELSE "short"
-----------------------------------------------------------------------------
(* What a restart reads back: _load_open_positions_from_db. *)

ClosingIds == {t.close : t \in trades}
ClosedOf(id) == MapThenSumSet(LAMBDA t : t.amount, {t \in trades : t.open = id})
\* Mutant: what was closed before a restart is forgotten.
RemainingForgotten(id) == orders[id].amount

Remaining(id) == orders[id].amount - ClosedOf(id)

\* Ids are not used again after a reset; 0 stands for no order.
Deleted == [symbol |-> "deleted", way |-> "buy", amount |-> 0, price |-> 0]
Exists(id) == IF id = 0 THEN TRUE ELSE orders[id] # Deleted

\* Mutant: a restart reads bought orders only.
OpenBuyIds(s) == {id \in DOMAIN orders : /\ orders[id].symbol = s
                                         /\ orders[id].way = "buy"
                                         /\ id \notin ClosingIds
                                         /\ Remaining(id) > 0}

\* Mutant: a restart does not leave out the orders that closed something.
OpenOrClosingIds(s) == {id \in DOMAIN orders : /\ orders[id].symbol = s
                                               /\ Remaining(id) > 0}

\* Filled orders that close nothing and are not closed in full themselves.
OpenIds(s) == {id \in DOMAIN orders : /\ orders[id].symbol = s
                                      /\ id \notin ClosingIds
                                      /\ Remaining(id) > 0}

RestoredPosition(s) ==
  LET ids == OpenIds(s)
      amount == MapThenSumSet(Remaining, ids)
      cost == MapThenSumSet(LAMBDA id : Remaining(id) * orders[id].price, ids)
  IN [side   |-> SideOf(orders[Max(ids)].way),
      amount |-> amount,
      entry  |-> cost \div amount,
      order  |-> Max(ids),
      fee    |-> FeeRate * Remaining(Max(ids))]

RestoredPositions ==
  [s \in {s \in Symbols : OpenIds(s) # {}} |-> RestoredPosition(s)]

\* Mutant: the entry fee is not shared among the parts of a position.
CostBasisFullFee ==
  MapThenSumSet(LAMBDA id : Remaining(id) * orders[id].price + orders[id].amount * FeeRate,
                {id \in UNION {OpenIds(s) : s \in Symbols} : orders[id].way = "buy"})

\* cost_basis: what the open longs took from the cash, fees included.
CostBasis ==
  MapThenSumSet(LAMBDA id : Remaining(id) * (orders[id].price + FeeRate),
                {id \in UNION {OpenIds(s) : s \in Symbols} : orders[id].way = "buy"})

RealizedPnl == MapThenSumSet(LAMBDA t : t.pnl, trades)
RestoredBalance == Capital + RealizedPnl - CostBasis
-----------------------------------------------------------------------------
Init == /\ balance = Capital
        /\ positions = Nothing
        /\ tracked = Nothing
        /\ orders = <<>>
        /\ trades = {}
        /\ task = [a \in Tasks |-> Idle]
        /\ failures = 0
        /\ crossed = {} /\ skewed = FALSE

(* Opening: create_order and _execute_paper_order. *)

\* The caller looks whether the symbol is free: signals in the loop's copy
\* (TradingBot._on_telegram_signal), /manual/order in the engine.
CheckFree(a, s) ==
  /\ a \in Openers /\ Starts(a, s)
  /\ Len(orders) < MaxOrders
  /\ s \notin IF a = "signal" THEN DOMAIN tracked ELSE DOMAIN positions
  /\ \E way \in {"buy", "sell"}, amount \in Amounts :
       task' = [task EXCEPT ![a] = [pc |-> "priced", symbol |-> s, way |-> way,
                                    amount |-> amount]]
  /\ UNCHANGED <<memory, tracked, db, failures>>

\* The order is filled in memory once the price has arrived.
Fill(a, price, opening) ==
  task' = [task EXCEPT ![a] = [pc |-> "insert", symbol |-> task[a].symbol,
                               way |-> task[a].way, amount |-> task[a].amount,
                               price |-> price, opening |-> opening]]

\* A buy pays and adds to whatever is there; the result is called a long.
Buy(a) ==
  /\ task[a].pc = "priced" /\ task[a].way = "buy"
  /\ \E price \in Prices :
       LET s == task[a].symbol
           n == task[a].amount
           old == IF s \in DOMAIN positions THEN positions[s]
                  ELSE [side |-> "long", amount |-> 0, entry |-> 0, order |-> 0, fee |-> 0]
       IN /\ balance' = balance - n * price - n * FeeRate
          /\ positions' = Put(positions, s,
               [old EXCEPT !.side = "long", !.amount = @ + n,
                           !.entry = (@ * old.amount + price * n) \div (old.amount + n)])
          /\ Fill(a, price, TRUE)
  /\ UNCHANGED <<tracked, db, failures, marks>>

\* A sell opens a short, for no cash, when nothing is there.
SellShort(a) ==
  /\ task[a].pc = "priced" /\ task[a].way = "sell"
  /\ task[a].symbol \notin DOMAIN positions
  /\ \E price \in Prices :
       /\ positions' = Put(positions, task[a].symbol,
            [side |-> "short", amount |-> task[a].amount, entry |-> price,
             order |-> 0, fee |-> 0])
       /\ Fill(a, price, TRUE)
  /\ UNCHANGED <<balance, tracked, db, failures, marks>>

\* A sell into a long closes that much of it; there is no Trade row for it.
SellLong(a) ==
  /\ task[a].pc = "priced" /\ task[a].way = "sell"
  /\ task[a].symbol \in DOMAIN positions
  /\ LET s == task[a].symbol
         n == task[a].amount
     IN /\ positions[s].side = "long" /\ positions[s].amount >= n
        /\ \E price \in Prices :
             /\ balance' = balance + n * price - n * FeeRate
             /\ positions' = IF positions[s].amount = n THEN Without(positions, s)
                             ELSE [positions EXCEPT ![s].amount = @ - n]
             /\ Fill(a, price, FALSE)
  /\ UNCHANGED <<tracked, db, failures, marks>>

\* No price to be had: create_order gives up.
PriceUnknown(a) ==
  /\ task[a].pc = "priced"
  /\ task' = [task EXCEPT ![a] = Idle]
  /\ UNCHANGED <<memory, tracked, db, failures, marks>>

\* A sell into a smaller long or into a short is rejected.
RejectSell(a) ==
  /\ task[a].pc = "priced" /\ task[a].way = "sell"
  /\ task[a].symbol \in DOMAIN positions
  /\ LET p == positions[task[a].symbol]
     IN p.side = "short" \/ p.amount < task[a].amount
  /\ task' = [task EXCEPT ![a] = Idle]
  /\ UNCHANGED <<memory, tracked, db, failures, marks>>

\* The Order row is committed; the position learns its id and its fee.
InsertOrder(a) ==
  /\ task[a].pc = "insert" /\ Len(orders) < MaxOrders
  /\ LET t == task[a]
         id == Len(orders) + 1
     IN /\ orders' = Append(orders, [symbol |-> t.symbol, way |-> t.way,
                                     amount |-> t.amount, price |-> t.price])
        /\ positions' = IF t.opening /\ t.symbol \in DOMAIN positions
                        THEN [positions EXCEPT ![t.symbol].order = id,
                                               ![t.symbol].fee = FeeRate * t.amount]
                        ELSE positions
        /\ task' = [task EXCEPT ![a] = [pc |-> "register", symbol |-> t.symbol,
                                        way |-> t.way, amount |-> t.amount,
                                        price |-> t.price, order |-> id]]
  /\ UNCHANGED <<balance, tracked, trades, failures, marks>>

\* The write fails: the exception leaves create_order, memory stays as it is.
InsertFails(a) ==
  /\ task[a].pc = "insert"
  /\ failures < MaxFailures /\ failures' = failures + 1
  /\ task' = [task EXCEPT ![a] = Idle]
  /\ crossed' = crossed \cup {task[a].symbol}
  /\ UNCHANGED <<memory, tracked, db, skewed>>

\* After the event is published the caller tells the loop of the position: a
\* signal with the volume and the entry price the engine has now, /manual/order
\* with those of the order.
Register(a) ==
  /\ task[a].pc = "register"
  /\ LET t == task[a]
         p == IF a = "signal" /\ t.symbol \in DOMAIN positions THEN positions[t.symbol]
              ELSE [amount |-> t.amount, entry |-> t.price]
     IN tracked' = Put(tracked, t.symbol,
                       [side |-> SideOf(t.way), amount |-> p.amount,
                        entry |-> p.entry, order |-> t.order,
                        fee |-> FeeRate * t.amount])
  /\ task' = [task EXCEPT ![a] = Idle]
  /\ UNCHANGED <<memory, db, failures, marks>>
-----------------------------------------------------------------------------
(* Closing: _check_position_exit and /positions/close, close_paper_position. *)

\* A close starts from what its caller sees, and only the rows go ahead of the
\* await: side, volume, entry price and share of the entry fee are arguments.
StartClose(a, s, p, amount, fee, partial) ==
  \E price \in Prices :
    task' = [task EXCEPT ![a] = [pc |-> "record", symbol |-> s, side |-> p.side,
                                 entry |-> p.entry, amount |-> amount, fee |-> fee,
                                 order |-> p.order, price |-> price,
                                 partial |-> partial]]

\* The loop drops what the engine no longer has.
LoopDrops(s) ==
  /\ "loop" \in Tasks /\ task["loop"].pc = "idle"
  /\ s \in DOMAIN tracked \ DOMAIN positions
  /\ tracked' = Without(tracked, s)
  /\ UNCHANGED <<memory, db, task, failures, marks>>

\* The loop closes all of a position, or half of it at a take profit level; it
\* first raises its volume to the engine's.
LoopStartsClose(s) ==
  /\ "loop" \in Tasks /\ Starts("loop", s)
  /\ Len(orders) < MaxOrders
  /\ s \in DOMAIN tracked \cap DOMAIN positions
  /\ LET p == [tracked[s] EXCEPT !.amount = Max({@, positions[s].amount})]
     IN /\ tracked' = [tracked EXCEPT ![s] = p]
        /\ \/ StartClose("loop", s, p, p.amount, p.fee, FALSE)
           \/ /\ p.amount % 2 = 0
              /\ StartClose("loop", s, p, p.amount \div 2, p.fee \div 2, TRUE)
  /\ UNCHANGED <<memory, db, failures>>

\* The dashboard closes all of what the engine has.
ApiStartsClose(s) ==
  /\ "api" \in Tasks /\ Starts("api", s)
  /\ Len(orders) < MaxOrders
  /\ s \in DOMAIN positions
  /\ StartClose("api", s, positions[s], positions[s].amount, positions[s].fee, FALSE)
  /\ UNCHANGED <<memory, tracked, db, failures>>

PnlOf(t) == (IF t.side = "long" THEN t.price - t.entry ELSE t.entry - t.price)
              * t.amount - t.fee - FeeRate * t.amount

\* The dashboard charges the whole fee of a long that a take profit has closed a part of, although
\* the part was charged its share.
Overcharges(a) == /\ a = "api" /\ task[a].side = "long"
                  /\ task[a].fee # FeeRate * task[a].amount

\* The closing Order and the Trade are committed together.
RecordClose(a) ==
  /\ task[a].pc = "record" /\ Len(orders) < MaxOrders
  /\ Exists(task[a].order)
  /\ LET t == task[a]
     IN /\ orders' = Append(orders,
             [symbol |-> t.symbol, way |-> IF t.side = "long" THEN "sell" ELSE "buy",
              amount |-> t.amount, price |-> t.price])
        /\ trades' = trades \cup
             {[open |-> t.order, close |-> Len(orders) + 1, amount |-> t.amount,
               pnl |-> PnlOf(t)]}
  /\ task' = [task EXCEPT ![a].pc = "apply"]
  /\ skewed' = (skewed \/ Overcharges(a))
  /\ UNCHANGED <<memory, tracked, failures, crossed>>

\* The write fails, or the order it refers to is gone: nothing changes.
RecordFails(a) ==
  /\ task[a].pc = "record"
  /\ failures < MaxFailures \/ ~Exists(task[a].order)
  /\ failures' = IF Exists(task[a].order) THEN failures + 1 ELSE failures
  /\ task' = [task EXCEPT ![a] = Idle]
  /\ UNCHANGED <<memory, tracked, db, marks>>

\* Only then balance and position change, whatever happened to them meanwhile.
ApplyClose(a) ==
  /\ task[a].pc = "apply"
  /\ LET t == task[a]
         s == t.symbol
     IN /\ balance' = balance + (IF t.side = "long"
                                 THEN t.amount * t.price - FeeRate * t.amount
                                 ELSE PnlOf(t))
        /\ positions' = IF s \notin DOMAIN positions THEN positions
                        ELSE IF positions[s].amount <= t.amount THEN Without(positions, s)
                        ELSE [positions EXCEPT ![s].amount = @ - t.amount]
  /\ task' = [task EXCEPT ![a] = IF a = "loop" THEN [@ EXCEPT !.pc = "forget"] ELSE Idle]
  /\ UNCHANGED <<tracked, db, failures, marks>>

\* The loop settles its own copy: a part taken off the object it began with, its
\* share of the fee too, or the symbol deleted (a KeyError when it is gone).
LoopSettles ==
  /\ "loop" \in Tasks /\ task["loop"].pc = "forget"
  /\ LET t == task["loop"]
         s == t.symbol
     IN tracked' = IF ~t.partial THEN Without(tracked, s)
                   ELSE IF s \notin DOMAIN tracked THEN tracked
                   ELSE IF tracked[s].order # t.order THEN tracked
                   ELSE [tracked EXCEPT ![s].amount = @ - t.amount,
                                        ![s].fee = @ - t.fee]
  /\ task' = [task EXCEPT !["loop"] = Idle]
  /\ UNCHANGED <<memory, db, failures, marks>>
-----------------------------------------------------------------------------
\* Both resets delete the rows in one transaction, then memory starts over, whatever the tasks are
\* in the middle of.
DeleteHistory == /\ orders' = [id \in DOMAIN orders |-> Deleted]
                 /\ trades' = {}
                 /\ balance' = Capital
                 /\ positions' = Nothing
                 /\ crossed' = {s \in Symbols : Busy(s)} /\ skewed' = FALSE
                 /\ UNCHANGED <<task, failures>>

\* POST /paper/reset leaves the loop's copy to LoopDrops.
ResetPaperAccount == DeleteHistory /\ UNCHANGED tracked

\* POST /admin/clear-test-data, refused while the engine has a position.
ClearTestData == /\ positions = Nothing
                 /\ DeleteHistory
                 /\ tracked' = Nothing

\* The process dies at any point and starts again: _restore_paper_state_from_db,
\* then TradingBot._sync_open_positions_from_execution_engine.  Where a symbol has
\* two open orders, they come back as one position.
Restart ==
  /\ balance' = RestoredBalance
  /\ positions' = RestoredPositions
  /\ tracked' = RestoredPositions
  /\ task' = [a \in Tasks |-> Idle]
  /\ crossed' = {s \in Symbols : \E id, other \in OpenIds(s) : id # other} /\ skewed' = FALSE
  /\ UNCHANGED <<db, failures>>

\* When the rows cannot be read the bot starts with the capital and without positions.
RestartUnread ==
  /\ failures < MaxFailures /\ failures' = failures + 1
  /\ balance' = Capital
  /\ positions' = Nothing
  /\ tracked' = Nothing
  /\ task' = [a \in Tasks |-> Idle]
  /\ crossed' = {s \in Symbols : OpenIds(s) # {}} /\ skewed' = (RestoredBalance # Capital)
  /\ UNCHANGED db

Open(a) == \/ \E s \in Symbols : CheckFree(a, s)
           \/ Buy(a) \/ SellShort(a) \/ SellLong(a)
           \/ PriceUnknown(a) \/ RejectSell(a)
           \/ InsertOrder(a) \/ InsertFails(a) \/ Register(a)

Close(a) == RecordClose(a) \/ RecordFails(a) \/ ApplyClose(a)

Next == \/ \E a \in Openers : Open(a)
        \/ \E s \in Symbols : LoopDrops(s) \/ LoopStartsClose(s) \/ ApiStartsClose(s)
        \/ \E a \in Closers : Close(a)
        \/ LoopSettles
        \/ ResetPaperAccount \/ ClearTestData
        \/ Restart \/ RestartUnread

Spec == Init /\ [][Next]_vars
-----------------------------------------------------------------------------
(* Properties. *)

\* Types; a position is never empty and knows an order that exists or none.
Position == [side : {"long", "short"}, amount : Nat \ {0}, entry : Nat,
             order : 0..MaxOrders, fee : Int]
TypeOK ==
  /\ balance \in Int
  /\ \A f \in {positions, tracked} :
       /\ DOMAIN f \subseteq Symbols
       /\ \A s \in DOMAIN f : f[s] \in Position
  /\ Len(orders) <= MaxOrders
  /\ \A t \in trades : /\ t.open \in 0..Len(orders) /\ t.close \in 1..Len(orders)
                        /\ t.amount > 0
  /\ DOMAIN task = Tasks

\* A task holds a change that only memory or only the database knows.
Unsettled(a) == task[a].pc \in {"insert", "apply"}

\* A crash at any await loses no position and makes none up: what the database
\* gives back of a symbol is the position in memory, whatever part of it has been
\* closed, unless a task is between its two halves on that symbol.  Nothing is said
\* of a symbol where two tasks met or a write failed, until the next restart.
PositionsAreBooked ==
  \A s \in Symbols \ crossed :
    (\A a \in Tasks : Unsettled(a) => task[a].symbol # s) =>
      /\ s \in DOMAIN positions <=> OpenIds(s) # {}
      /\ s \in DOMAIN positions =>
           LET r == RestoredPosition(s)
           IN \A f \in {"side", "amount", "entry", "order"} : positions[s][f] = r[f]

\* Nor does it move money: the balance is what the trades have made and the open
\* longs have cost, unless tasks met, a write failed or a close overcharged since
\* the restart.
BalanceIsBooked ==
  crossed = {} /\ ~skewed /\ (\A a \in Tasks : ~Unsettled(a)) => balance = RestoredBalance

\* No close takes more from an order than was left of it, where no two tasks have met.
ClosesFitTheOrder ==
  [][\A id \in DOMAIN orders :
       ClosedOf(id)' > ClosedOf(id) /\ orders[id].symbol \notin crossed =>
         ClosedOf(id)' <= orders[id].amount]_vars

\* An order that closed something is never taken for an entry, by a position or
\* by a later trade.
EntriesAreNotExits ==
  /\ {t.open : t \in trades} \cap ClosingIds = {}
  /\ \A s \in DOMAIN positions : positions[s].order \notin ClosingIds
=============================================================================
