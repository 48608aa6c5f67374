-------------------------- MODULE PaperAccountProofs -------------------------
(***************************************************************************)
(* Theorems about PaperAccount, for any symbols, volumes, prices and       *)
(* number of orders, with resets and restarts at any point.                *)
(*                                                                         *)
(* Tasks may overlap and writes fail in all of them: an order that closed  *)
(* something is never taken for an entry (EntriesInv).  Of every symbol    *)
(* where no two tasks have met and no write has failed, whatever happened  *)
(* to the others, memory and tables tell the same, and no order is closed  *)
(* for more than it filled (AccountInv).  Where that is so of all of them  *)
(* and no close has overcharged, the cash is what the tables say           *)
(* (MoneyInv).                                                             *)
(***************************************************************************)
EXTENDS PaperAccount, FiniteSetTheorems, TLAPS

\* The id of an order that may stand for an entry: it exists, or is none, and it closed nothing.
Entry(id) == id \in 0..Len(orders) /\ \A t \in trades : id # t.close

\* What is kept for symbol s under that id is of s, or was deleted.
Of(id, s) == Entry(id) /\ (id = 0 \/ orders[id] = Deleted \/ orders[id].symbol = s)

Table == \E Row : orders \in Seq(Row)

TradesInv ==
  \A t \in trades : /\ Entry(t.open)
                    /\ t.close \in 1..Len(orders)

\* A position has a place for the id of its order.
IsPosition(p) == "order" \in DOMAIN p

PositionsInv == \A s \in DOMAIN positions : IsPosition(positions[s]) /\ Of(positions[s].order, s)
TrackedInv == \A s \in DOMAIN tracked : Of(tracked[s].order, s)

\* The tasks carry ids over their awaits.
Carries(a) == task[a].pc \in {"register", "record"}
TasksInv ==
  /\ task = [a \in Tasks |-> task[a]]
  /\ \A a \in Tasks : Carries(a) => Of(task[a].order, task[a].symbol)

\* A restart names a position by the newest of its orders, so there has to be one.
HasNewest == \A ids \in SUBSET (1..Len(orders)) :
               ids # {} => \E id \in ids : \A other \in ids : id >= other

EntriesInv == Table /\ TradesInv /\ PositionsInv /\ TrackedInv /\ TasksInv /\ HasNewest
-----------------------------------------------------------------------------
(* The table of orders only grows.                                         *)

LEMMA TableGrows ==
  ASSUME Table, HasNewest, NEW row, orders' = Append(orders, row)
  PROVE  /\ Table' /\ HasNewest' /\ Len(orders) \in Nat /\ Len(orders') = Len(orders) + 1
         /\ orders'[Len(orders) + 1] = row
         /\ \A id \in 1..Len(orders) : orders'[id] = orders[id]
<1>1. PICK Row : orders \in Seq(Row)
  BY DEF Table
<1>2. orders \in Seq(Row \cup {row}) /\ Len(orders) \in Nat
  BY <1>1
<1>3. /\ orders' \in Seq(Row \cup {row}) /\ Len(orders') = Len(orders) + 1
      /\ orders'[Len(orders) + 1] = row
      /\ \A id \in 1..Len(orders) : orders'[id] = orders[id]
  BY <1>2
<1>4. HasNewest'
  <2>1. ASSUME NEW ids \in SUBSET (1..Len(orders')), ids # {}
        PROVE  \E id \in ids : \A other \in ids : id >= other
    <3>1. CASE Len(orders) + 1 \in ids
      BY <1>2, <1>3, <3>1
    <3>2. CASE Len(orders) + 1 \notin ids
      <4>1. ids \in SUBSET (1..Len(orders))
        BY <1>2, <1>3, <3>2
      <4> QED
        BY <2>1, <4>1 DEF HasNewest
    <3> QED
      BY <3>1, <3>2
  <2> QED
    BY <2>1 DEF HasNewest
<1> QED
  BY <1>2, <1>3, <1>4 DEF Table

LEMMA TableEmptied ==
  ASSUME Table, HasNewest, orders' = [id \in DOMAIN orders |-> Deleted]
  PROVE  /\ Table' /\ HasNewest' /\ Len(orders) \in Nat /\ Len(orders') = Len(orders)
         /\ \A id \in 1..Len(orders) : orders'[id] = Deleted
<1>1. PICK Row : orders \in Seq(Row)
  BY DEF Table
<1>2. Len(orders) \in Nat /\ DOMAIN orders = 1..Len(orders)
  BY <1>1
<1>3. /\ orders' \in Seq({Deleted}) /\ Len(orders') = Len(orders)
      /\ \A id \in 1..Len(orders) : orders'[id] = Deleted
  BY <1>2
<1> QED
  BY <1>2, <1>3 DEF Table, HasNewest

\* A restored position is named by an order that closed nothing.
LEMMA RestoredIsEntry ==
  ASSUME Table, HasNewest, NEW s \in DOMAIN RestoredPositions
  PROVE  IsPosition(RestoredPositions[s]) /\ Of(RestoredPositions[s].order, s)
<1> DEFINE ids == OpenIds(s)
<1>1. ids # {} /\ RestoredPositions[s] = RestoredPosition(s)
  BY DEF RestoredPositions
<1>2. DOMAIN orders = 1..Len(orders) /\ Len(orders) \in Nat
  BY DEF Table
<1>3. ids \in SUBSET (1..Len(orders)) /\ \A id \in ids : id \notin ClosingIds /\ orders[id].symbol = s
  BY <1>2 DEF OpenIds
<1>4. Max(ids) \in ids
  BY <1>1, <1>3 DEF HasNewest, Max
<1>5. Of(Max(ids), s)
  BY <1>2, <1>3, <1>4 DEF Of, Entry, ClosingIds
<1>6. RestoredPosition(s).order = Max(ids)
  BY DEF RestoredPosition
<1>7. IsPosition(RestoredPosition(s))
  BY DEF RestoredPosition, IsPosition
<1> QED
  BY <1>1, <1>5, <1>6, <1>7
-----------------------------------------------------------------------------
(* Steps that leave the tables alone.                                      *)

LEMMA TablesStay ==
  ASSUME EntriesInv, UNCHANGED db
  PROVE  /\ Table' /\ TradesInv' /\ HasNewest'
         /\ \A id, s : Of(id, s) <=> Of(id, s)'
BY DEF EntriesInv, db, Table, TradesInv, HasNewest, Of, Entry

\* A task that carries nothing, or an id that is an entry.
LEMMA TaskMoves ==
  ASSUME TasksInv, UNCHANGED db, NEW a \in Tasks, NEW t, task' = [task EXCEPT ![a] = t],
         t.pc \in {"register", "record"} => Of(t.order, t.symbol)
  PROVE  TasksInv'
BY DEF TasksInv, Carries, Of, Entry, db

\* A buy into a position keeps its id.
LEMMA AddedTo ==
  ASSUME NEW p, IsPosition(p), NEW amount, NEW entry
  PROVE  LET q == [p EXCEPT !.side = "long", !.amount = amount, !.entry = entry]
         IN  IsPosition(q) /\ q.order = p.order
BY DEF IsPosition

\* What a step of a task leaves behind.
LEMMA TaskOf ==
  ASSUME TasksInv, NEW a \in Tasks, NEW t, task' = [task EXCEPT ![a] = t]
  PROVE  task'[a] = t /\ task' = [task EXCEPT ![a] = task'[a]]
BY DEF TasksInv

LEMMA OpenersStep ==
  ASSUME EntriesInv, NEW a \in Tasks,
         \/ \E s \in Symbols : CheckFree(a, s)
         \/ Buy(a) \/ SellShort(a) \/ SellLong(a)
         \/ PriceUnknown(a) \/ RejectSell(a) \/ InsertFails(a)
  PROVE  EntriesInv'
<1>1. UNCHANGED <<tracked, db>>
  BY DEF CheckFree, Buy, SellShort, SellLong, PriceUnknown, RejectSell, InsertFails
<1>2. TrackedInv' /\ Table' /\ TradesInv' /\ HasNewest'
  BY <1>1, TablesStay DEF EntriesInv, TrackedInv
<1>3. task' = [task EXCEPT ![a] = task'[a]] /\ task'[a].pc \in {"priced", "insert", "idle"}
  <2>1. ASSUME NEW s \in Symbols, CheckFree(a, s)
        PROVE  task' = [task EXCEPT ![a] = task'[a]] /\ task'[a].pc = "priced"
    <3>1. PICK way \in {"buy", "sell"}, amount \in Amounts :
            task' = [task EXCEPT ![a] = [pc |-> "priced", symbol |-> s, way |-> way,
                                         amount |-> amount]]
      BY <2>1 DEF CheckFree
    <3> DEFINE t == [pc |-> "priced", symbol |-> s, way |-> way, amount |-> amount]
    <3>2. t.pc = "priced"
      OBVIOUS
    <3> HIDE DEF t
    <3>3. task' = [task EXCEPT ![a] = t]
      BY <3>1 DEF t
    <3> QED
      BY <3>2, <3>3, TaskOf DEF EntriesInv
  <2>2. ASSUME NEW price, NEW opening, Fill(a, price, opening)
        PROVE  task' = [task EXCEPT ![a] = task'[a]] /\ task'[a].pc = "insert"
    <3> DEFINE t == [pc |-> "insert", symbol |-> task[a].symbol, way |-> task[a].way,
                     amount |-> task[a].amount, price |-> price, opening |-> opening]
    <3>1. t.pc = "insert"
      OBVIOUS
    <3> HIDE DEF t
    <3>2. task' = [task EXCEPT ![a] = t]
      BY <2>2 DEF t, Fill
    <3> QED
      BY <3>1, <3>2, TaskOf DEF EntriesInv
  <2>3. Buy(a) \/ SellShort(a) \/ SellLong(a) =>
          \E price \in Prices, opening \in BOOLEAN : Fill(a, price, opening)
    BY DEF Buy, SellShort, SellLong
  <2>4. PriceUnknown(a) \/ RejectSell(a) \/ InsertFails(a) => task' = [task EXCEPT ![a] = Idle]
    BY DEF PriceUnknown, RejectSell, InsertFails
  <2>5. Idle.pc = "idle"
    BY DEF Idle
  <2> QED
    BY <2>1, <2>2, <2>3, <2>4, <2>5, TaskOf DEF EntriesInv
<1>4. TasksInv'
  BY <1>1, <1>3, TaskMoves DEF EntriesInv
<1>5. PositionsInv'
  <2>1. \A s : Of(0, s)
    <3>1. Len(orders) \in Nat
      BY DEF EntriesInv, Table
    <3> QED
      BY <3>1 DEF EntriesInv, TradesInv, Entry, Of
  <2>2. CASE Buy(a)
    <3> DEFINE s == task[a].symbol
               old == IF s \in DOMAIN positions THEN positions[s]
                      ELSE [side |-> "long", amount |-> 0, entry |-> 0, order |-> 0, fee |-> 0]
    <3>1. IsPosition(old) /\ Of(old.order, s)
      BY <2>1 DEF EntriesInv, PositionsInv, IsPosition
    <3>2. PICK price \in Prices : positions' = Put(positions, s,
               [old EXCEPT !.side = "long", !.amount = @ + task[a].amount,
                           !.entry = (@ * old.amount + price * task[a].amount)
                                       \div (old.amount + task[a].amount)])
      BY <2>2 DEF Buy
    <3> DEFINE amount == old.amount + task[a].amount
               entry == (old.entry * old.amount + price * task[a].amount)
                          \div (old.amount + task[a].amount)
    <3>5. positions' = Put(positions, s, [old EXCEPT !.side = "long", !.amount = amount, !.entry = entry])
      BY <3>2
    <3> HIDE DEF old, amount, entry
    <3> DEFINE new == [old EXCEPT !.side = "long", !.amount = amount, !.entry = entry]
    <3>6. IsPosition(new) /\ new.order = old.order
      BY <3>1, AddedTo
    <3> HIDE DEF new
    <3>3. positions' = Put(positions, s, new) /\ IsPosition(new) /\ new.order = old.order
      BY <3>5, <3>6 DEF new
    <3>4. \A k \in DOMAIN positions' : IF k = s THEN positions'[k] = new
                                       ELSE k \in DOMAIN positions /\ positions'[k] = positions[k]
      BY <3>3 DEF Put
    <3> QED
      BY <1>1, <3>1, <3>3, <3>4, TablesStay DEF EntriesInv, PositionsInv
  <2>3. CASE SellShort(a)
    <3> DEFINE s == task[a].symbol
    <3>1. PICK new : positions' = Put(positions, s, new) /\ IsPosition(new) /\ new.order = 0
      BY <2>3 DEF SellShort, IsPosition
    <3>2. \A k \in DOMAIN positions' : IF k = s THEN positions'[k] = new
                                       ELSE k \in DOMAIN positions /\ positions'[k] = positions[k]
      BY <3>1 DEF Put
    <3> QED
      BY <1>1, <2>1, <3>1, <3>2, TablesStay DEF EntriesInv, PositionsInv
  <2>4. CASE SellLong(a)
    <3> DEFINE s == task[a].symbol
    <3>1. \/ positions' = Without(positions, s)
          \/ positions' = [positions EXCEPT ![s].amount = @ - task[a].amount]
      BY <2>4 DEF SellLong
    <3> QED
      BY <1>1, <3>1, TablesStay DEF EntriesInv, PositionsInv, Without, IsPosition
  <2>5. CASE positions' = positions
    BY <1>1, <2>5, TablesStay DEF EntriesInv, PositionsInv
  <2> QED
    BY <2>2, <2>3, <2>4, <2>5 DEF CheckFree, PriceUnknown, RejectSell, InsertFails, memory
<1> QED
  BY <1>2, <1>4, <1>5 DEF EntriesInv

LEMMA RegisterStep ==
  ASSUME EntriesInv, NEW a \in Tasks, Register(a)
  PROVE  EntriesInv'
<1>1. UNCHANGED <<memory, db>> /\ Of(task[a].order, task[a].symbol)
  BY DEF Register, EntriesInv, TasksInv, Carries
<1>2. Table' /\ TradesInv' /\ HasNewest' /\ PositionsInv'
  BY <1>1, TablesStay DEF EntriesInv, PositionsInv, memory
<1>3. TasksInv'
  BY <1>1, TaskMoves DEF Register, Idle, EntriesInv
<1>4. PICK new : tracked' = Put(tracked, task[a].symbol, new) /\ new.order = task[a].order
  BY DEF Register
<1>5. \A k \in DOMAIN tracked' : IF k = task[a].symbol THEN tracked'[k] = new
                                 ELSE k \in DOMAIN tracked /\ tracked'[k] = tracked[k]
  BY <1>4 DEF Put
<1>6. TrackedInv'
  BY <1>1, <1>4, <1>5, TablesStay DEF EntriesInv, TrackedInv
<1> QED
  BY <1>2, <1>3, <1>6 DEF EntriesInv

\* The row of an opening order: its id is new, so nothing it could have closed.
LEMMA InsertStep ==
  ASSUME EntriesInv, NEW a \in Tasks, InsertOrder(a)
  PROVE  EntriesInv'
<1>0. PICK id : id = Len(orders) + 1
  OBVIOUS
<1>9. PICK s : s = task[a].symbol
  OBVIOUS
<1> DEFINE row == [symbol |-> s, way |-> task[a].way, amount |-> task[a].amount,
                   price |-> task[a].price]
           t == [pc |-> "register", symbol |-> s, way |-> task[a].way, amount |-> task[a].amount,
                 price |-> task[a].price, order |-> id]
<1>1. /\ orders' = Append(orders, row) /\ UNCHANGED <<tracked, trades>>
      /\ task' = [task EXCEPT ![a] = t]
      /\ \/ positions' = [positions EXCEPT ![s].order = id, ![s].fee = FeeRate * task[a].amount]
         \/ positions' = positions
  BY <1>0, <1>9 DEF InsertOrder
<1>8. t.order = id /\ t.symbol = s /\ row.symbol = s
  OBVIOUS
<1> HIDE DEF row, t
<1>2. /\ Table' /\ HasNewest' /\ Len(orders) \in Nat /\ Len(orders') = id
      /\ orders'[id] = row /\ \A i \in 1..Len(orders) : orders'[i] = orders[i]
  BY <1>0, <1>1, TableGrows DEF EntriesInv
<1>3. /\ \A i : Entry(i) => Entry(i)'
      /\ \A i, k : Of(i, k) => Of(i, k)'
  BY <1>0, <1>1, <1>2 DEF Of, Entry
<1>4. Of(id, s)'
  <2>1. \A k \in trades : k.close \in 1..Len(orders)
    BY DEF EntriesInv, TradesInv
  <2> QED
    BY <1>0, <1>1, <1>2, <1>8, <2>1 DEF Of, Entry
<1>5. TradesInv' /\ TrackedInv'
  BY <1>0, <1>1, <1>2, <1>3 DEF EntriesInv, TradesInv, TrackedInv
<1>6. TasksInv'
  <2>1. task = [b \in Tasks |-> task[b]]
    BY DEF EntriesInv, TasksInv
  <2>2. \A b \in Tasks : task'[b] = IF b = a THEN t ELSE task[b]
    BY <1>1, <2>1
  <2>3. ASSUME NEW b \in Tasks, Carries(b)' PROVE Of(task[b].order, task[b].symbol)'
    <3>1. b # a => Carries(b) /\ task'[b] = task[b]
      BY <2>2, <2>3 DEF Carries
    <3>2. b # a => Of(task[b].order, task[b].symbol)
      BY <3>1 DEF EntriesInv, TasksInv
    <3>3. b = a => task'[b].order = id /\ task'[b].symbol = s
      BY <1>8, <2>2
    <3>4. PICK i, k : i = task'[b].order /\ k = task'[b].symbol
      OBVIOUS
    <3>5. Of(i, k)'
      BY <1>3, <1>4, <3>1, <3>2, <3>3, <3>4
    <3> QED
      BY <3>4, <3>5 DEF Of, Entry
  <2>4. task' = [b \in Tasks |-> task'[b]]
    BY <1>1, <2>1
  <2> QED
    BY <2>3, <2>4 DEF TasksInv
<1>7. PositionsInv'
  <2>1. ASSUME NEW k \in DOMAIN positions' PROVE (IsPosition(positions[k]) /\ Of(positions[k].order, k))'
    <3>1. k \in DOMAIN positions
      BY <1>1
    <3>2. CASE positions' = positions
      BY <1>3, <3>1, <3>2 DEF EntriesInv, PositionsInv
    <3>3. CASE positions' = [positions EXCEPT ![s].order = id, ![s].fee = FeeRate * task[a].amount]
      <4> DEFINE fee == FeeRate * task[a].amount
      <4>1. k # s => positions'[k] = positions[k]
        BY <3>1, <3>3
      <4>2. k = s => positions'[k] = [positions[k] EXCEPT !.order = id, !.fee = fee]
        BY <3>1, <3>3
      <4>3. IsPosition(positions[k]) /\ Of(positions[k].order, k)
        BY <3>1 DEF EntriesInv, PositionsInv
      <4> HIDE DEF fee
      <4>4. k = s => IsPosition(positions'[k]) /\ positions'[k].order = id
        BY <4>2, <4>3 DEF IsPosition
      <4>5. PICK p : p = positions'[k]
        OBVIOUS
      <4>6. IsPosition(p) /\ Of(p.order, k)'
        BY <1>3, <1>4, <4>1, <4>3, <4>4, <4>5
      <4> QED
        BY <4>5, <4>6 DEF IsPosition, Of, Entry
    <3> QED
      BY <1>1, <3>2, <3>3
  <2> QED
    BY <2>1 DEF PositionsInv
<1> QED
  BY <1>2, <1>5, <1>6, <1>7 DEF EntriesInv
-----------------------------------------------------------------------------
(* Closing.                                                                *)

\* A close carries the id of the position it was started for.
LEMMA StartStep ==
  ASSUME EntriesInv, NEW s \in Symbols, LoopStartsClose(s) \/ ApiStartsClose(s)
  PROVE  EntriesInv'
<1>1. UNCHANGED <<memory, db>>
  BY DEF LoopStartsClose, ApiStartsClose
<1>2. Table' /\ TradesInv' /\ HasNewest' /\ PositionsInv'
  BY <1>1, TablesStay DEF EntriesInv, PositionsInv, memory
<1>3. ASSUME NEW a \in Tasks, NEW p, NEW amount, NEW fee, NEW partial,
             StartClose(a, s, p, amount, fee, partial), Of(p.order, s)
      PROVE  TasksInv'
  <2>1. PICK price \in Prices :
          task' = [task EXCEPT ![a] = [pc |-> "record", symbol |-> s, side |-> p.side,
                                       entry |-> p.entry, amount |-> amount, fee |-> fee,
                                       order |-> p.order, price |-> price, partial |-> partial]]
    BY <1>3 DEF StartClose
  <2> DEFINE t == [pc |-> "record", symbol |-> s, side |-> p.side,
                   entry |-> p.entry, amount |-> amount, fee |-> fee,
                   order |-> p.order, price |-> price, partial |-> partial]
  <2>2. t.order = p.order /\ t.symbol = s
    OBVIOUS
  <2> HIDE DEF t
  <2>3. task' = [task EXCEPT ![a] = t]
    BY <2>1 DEF t
  <2> QED
    BY <1>1, <1>3, <2>2, <2>3, TaskMoves DEF EntriesInv
<1>4. CASE LoopStartsClose(s)
  <2> DEFINE p == [tracked[s] EXCEPT !.amount = Max({@, positions[s].amount})]
  <2>1. /\ "loop" \in Tasks /\ s \in DOMAIN tracked
        /\ tracked' = [tracked EXCEPT ![s] = p]
        /\ \E amount, fee, partial : StartClose("loop", s, p, amount, fee, partial)
    BY <1>4 DEF LoopStartsClose
  <2>2. p.order = tracked[s].order
    OBVIOUS
  <2> HIDE DEF p
  <2>3. Of(p.order, s)
    BY <2>1, <2>2 DEF EntriesInv, TrackedInv
  <2>4. TrackedInv'
    BY <1>1, <2>1, <2>3, TablesStay DEF EntriesInv, TrackedInv
  <2>5. TasksInv'
    BY <1>3, <2>1, <2>3
  <2> QED
    BY <1>2, <2>4, <2>5 DEF EntriesInv
<1>5. CASE ApiStartsClose(s)
  <2>1. /\ "api" \in Tasks /\ s \in DOMAIN positions /\ tracked' = tracked
        /\ \E amount, fee, partial : StartClose("api", s, positions[s], amount, fee, partial)
    BY <1>5 DEF ApiStartsClose
  <2>2. TasksInv'
    BY <1>3, <2>1 DEF EntriesInv, PositionsInv
  <2>3. TrackedInv'
    BY <1>1, <2>1, TablesStay DEF EntriesInv, TrackedInv
  <2> QED
    BY <1>2, <2>2, <2>3 DEF EntriesInv
<1> QED
  BY <1>4, <1>5

\* The row of a closing order: its id is new, so no entry had it.
LEMMA RecordStep ==
  ASSUME EntriesInv, NEW a \in Tasks, RecordClose(a)
  PROVE  EntriesInv'
<1> DEFINE id == Len(orders) + 1
           row == [symbol |-> task[a].symbol, way |-> IF task[a].side = "long" THEN "sell" ELSE "buy",
                   amount |-> task[a].amount, price |-> task[a].price]
           t == [open |-> task[a].order, close |-> id, amount |-> task[a].amount,
                 pnl |-> PnlOf(task[a])]
<1>1. /\ orders' = Append(orders, row) /\ trades' = trades \cup {t}
      /\ UNCHANGED <<memory, tracked>>
      /\ task' = [task EXCEPT ![a].pc = "apply"]
      /\ task[a].pc = "record"
  BY DEF RecordClose
<1>8. t.open = task[a].order /\ t.close = id
  OBVIOUS
<1> HIDE DEF row, t
<1>2. /\ Table' /\ HasNewest' /\ Len(orders) \in Nat /\ Len(orders') = id
      /\ \A i \in 1..Len(orders) : orders'[i] = orders[i]
  BY <1>1, TableGrows DEF EntriesInv
<1>3. /\ \A i : Entry(i) => Entry(i)'
      /\ \A i, k : Of(i, k) => Of(i, k)'
  BY <1>1, <1>2, <1>8 DEF Of, Entry
<1>4. Of(task[a].order, task[a].symbol)
  BY <1>1 DEF EntriesInv, TasksInv, Carries
<1>5. TradesInv'
  BY <1>1, <1>2, <1>3, <1>4, <1>8 DEF EntriesInv, TradesInv, Of
<1>6. TrackedInv' /\ PositionsInv'
  BY <1>1, <1>3 DEF EntriesInv, TrackedInv, PositionsInv, memory
<1>7. TasksInv'
  <2>1. task' = [b \in Tasks |-> task'[b]]
    BY <1>1 DEF EntriesInv, TasksInv
  <2>2. ASSUME NEW b \in Tasks, Carries(b)' PROVE Of(task[b].order, task[b].symbol)'
    <3>1. /\ task'[b].order = task[b].order /\ task'[b].symbol = task[b].symbol
          /\ (b # a => task'[b].pc = task[b].pc)
      BY <1>1 DEF EntriesInv, TasksInv
    <3>2. Of(task[b].order, task[b].symbol)
      BY <1>4, <2>2, <3>1 DEF EntriesInv, TasksInv, Carries
    <3> QED
      BY <1>3, <3>1, <3>2
  <2> QED
    BY <2>1, <2>2 DEF TasksInv
<1> QED
  BY <1>2, <1>5, <1>6, <1>7 DEF EntriesInv

LEMMA ClosersStep ==
  ASSUME EntriesInv,
         \/ \E s \in Symbols : LoopDrops(s)
         \/ \E a \in Tasks : RecordFails(a) \/ ApplyClose(a)
         \/ LoopSettles
  PROVE  EntriesInv'
<1>1. UNCHANGED db
  BY DEF LoopDrops, RecordFails, ApplyClose, LoopSettles
<1>2. Table' /\ TradesInv' /\ HasNewest'
  BY <1>1, TablesStay
<1>3. CASE \E s \in Symbols : LoopDrops(s)
  BY <1>1, <1>2, <1>3, TablesStay
     DEF LoopDrops, Without, memory, EntriesInv, PositionsInv, TrackedInv, TasksInv, Carries
<1>4. ASSUME NEW a \in Tasks, RecordFails(a) PROVE EntriesInv'
  <2>1. TasksInv'
    BY <1>1, <1>4, TaskMoves DEF RecordFails, Idle, EntriesInv
  <2> QED
    BY <1>1, <1>2, <1>4, <2>1, TablesStay DEF RecordFails, memory, EntriesInv, PositionsInv, TrackedInv
<1>5. ASSUME NEW a \in Tasks, ApplyClose(a) PROVE EntriesInv'
  <2>1. task' = [task EXCEPT ![a] = [@ EXCEPT !.pc = "forget"]] \/ task' = [task EXCEPT ![a] = Idle]
    BY <1>5 DEF ApplyClose
  <2>2. TasksInv'
    <3>1. CASE task' = [task EXCEPT ![a] = Idle]
      BY <1>1, <3>1, TaskMoves DEF Idle, EntriesInv
    <3>2. CASE task' = [task EXCEPT ![a] = [@ EXCEPT !.pc = "forget"]]
      <4> DEFINE t == [task[a] EXCEPT !.pc = "forget"]
      <4>1. t.pc \in {"forget", task[a].pc} /\ task[a].pc = "apply"
        BY <1>5 DEF ApplyClose
      <4> HIDE DEF t
      <4>2. task' = [task EXCEPT ![a] = t]
        BY <3>2 DEF t
      <4> QED
        BY <1>1, <4>1, <4>2, TaskMoves DEF EntriesInv
    <3> QED
      BY <2>1, <3>1, <3>2
  <2>3. \E s, n : \/ positions' = positions
                  \/ positions' = Without(positions, s)
                  \/ positions' = [positions EXCEPT ![s].amount = @ - n]
    BY <1>5 DEF ApplyClose
  <2>4. PositionsInv'
    BY <1>1, <2>3, TablesStay DEF EntriesInv, PositionsInv, Without, IsPosition
  <2> QED
    BY <1>1, <1>2, <1>5, <2>2, <2>4, TablesStay DEF ApplyClose, EntriesInv, TrackedInv
<1>6. CASE LoopSettles
  <2>1. TasksInv'
    BY <1>1, <1>6, TaskMoves DEF LoopSettles, Idle, EntriesInv
  <2>2. \E s, n, fee : \/ tracked' = tracked
                       \/ tracked' = Without(tracked, s)
                       \/ tracked' = [tracked EXCEPT ![s].amount = @ - n, ![s].fee = @ - fee]
    BY <1>6 DEF LoopSettles
  <2>3. \A k \in DOMAIN tracked' : k \in DOMAIN tracked /\ tracked'[k].order = tracked[k].order
    <3>1. PICK s, n, fee : \/ tracked' = tracked
                           \/ tracked' = Without(tracked, s)
                           \/ tracked' = [tracked EXCEPT ![s].amount = @ - n, ![s].fee = @ - fee]
      BY <2>2
    <3>2. CASE tracked' = tracked
      BY <3>2
    <3>3. CASE tracked' = Without(tracked, s)
      BY <3>3 DEF Without
    <3>4. CASE tracked' = [tracked EXCEPT ![s].amount = @ - n, ![s].fee = @ - fee]
      BY <3>4
    <3> QED
      BY <3>1, <3>2, <3>3, <3>4
  <2>4. TrackedInv'
    BY <1>1, <2>3, TablesStay DEF EntriesInv, TrackedInv
  <2> QED
    BY <1>1, <1>2, <1>6, <2>1, <2>4, TablesStay DEF LoopSettles, memory, EntriesInv, PositionsInv
<1> QED
  BY <1>3, <1>4, <1>5, <1>6
-----------------------------------------------------------------------------
(* Resets and restarts.                                                    *)

\* Without trades every order may stand for an entry.
LEMMA ResetStep ==
  ASSUME EntriesInv, ResetPaperAccount \/ ClearTestData
  PROVE  EntriesInv'
<1>1. /\ orders' = [id \in DOMAIN orders |-> Deleted] /\ trades' = {}
      /\ positions' = Nothing /\ task' = task
      /\ tracked' = tracked \/ tracked' = Nothing
  BY DEF ResetPaperAccount, ClearTestData, DeleteHistory
<1>2. /\ Table' /\ HasNewest' /\ Len(orders') = Len(orders) /\ Len(orders) \in Nat
      /\ \A i \in 1..Len(orders) : orders'[i] = Deleted
  BY <1>1, TableEmptied DEF EntriesInv
<1>3. \A i, k : Of(i, k) => Of(i, k)'
  BY <1>1, <1>2 DEF Of, Entry
<1> QED
  BY <1>1, <1>2, <1>3
     DEF EntriesInv, TradesInv, PositionsInv, TrackedInv, TasksInv, Carries, Nothing

LEMMA UnreadStep ==
  ASSUME EntriesInv, RestartUnread
  PROVE  EntriesInv'
<1>1. UNCHANGED db /\ positions' = Nothing /\ tracked' = Nothing /\ task' = [a \in Tasks |-> Idle]
  BY DEF RestartUnread
<1>2. Table' /\ TradesInv' /\ HasNewest'
  BY <1>1, TablesStay
<1> QED
  BY <1>1, <1>2 DEF EntriesInv, PositionsInv, TrackedInv, TasksInv, Carries, Idle, Nothing

LEMMA RestartStep ==
  ASSUME EntriesInv, Restart
  PROVE  EntriesInv'
<1>1. /\ positions' = RestoredPositions /\ tracked' = RestoredPositions
      /\ task' = [a \in Tasks |-> Idle] /\ UNCHANGED db
  BY DEF Restart
<1>2. \A s \in DOMAIN RestoredPositions :
        IsPosition(RestoredPositions[s]) /\ Of(RestoredPositions[s].order, s)
  BY RestoredIsEntry DEF EntriesInv
<1>3. Table' /\ TradesInv' /\ HasNewest'
  BY <1>1, TablesStay
<1>4. PositionsInv' /\ TrackedInv'
  BY <1>1, <1>2, TablesStay DEF PositionsInv, TrackedInv, IsPosition
<1>5. TasksInv'
  BY <1>1 DEF TasksInv, Carries, Idle
<1> QED
  BY <1>3, <1>4, <1>5 DEF EntriesInv
-----------------------------------------------------------------------------

LEMMA EntriesInit == Init => EntriesInv
<1> SUFFICES ASSUME Init PROVE EntriesInv
  OBVIOUS
<1>1. orders \in Seq({}) /\ Len(orders) = 0
  BY DEF Init
<1>2. Table
  BY <1>1 DEF Table
<1>3. 1..Len(orders) = {}
  BY <1>1
<1>4. HasNewest
  BY <1>3 DEF HasNewest
<1> QED
  BY <1>2, <1>4 DEF Init, EntriesInv, TradesInv, PositionsInv, TrackedInv, TasksInv, Carries, Idle, Nothing

LEMMA EntriesStep ==
  ASSUME EntriesInv, [Next]_vars
  PROVE  EntriesInv'
<1>1. ASSUME NEW a \in Openers, Open(a) PROVE EntriesInv'
  BY <1>1, OpenersStep, InsertStep, RegisterStep DEF Open, Openers
<1>2. ASSUME NEW s \in Symbols, LoopDrops(s) \/ LoopStartsClose(s) \/ ApiStartsClose(s)
      PROVE  EntriesInv'
  BY <1>2, StartStep, ClosersStep
<1>3. ASSUME NEW a \in Closers, Close(a) PROVE EntriesInv'
  BY <1>3, RecordStep, ClosersStep DEF Close, Closers
<1>4. CASE LoopSettles
  BY <1>4, ClosersStep
<1>5. CASE ResetPaperAccount \/ ClearTestData
  BY <1>5, ResetStep
<1>6. CASE Restart \/ RestartUnread
  BY <1>6, RestartStep, UnreadStep
<1>7. CASE UNCHANGED vars
  BY <1>7 DEF vars, memory, db, EntriesInv, Table, TradesInv, PositionsInv, TrackedInv, TasksInv,
              HasNewest, Carries, Of, Entry
<1> QED
  BY <1>1, <1>2, <1>3, <1>4, <1>5, <1>6, <1>7 DEF Next

\* Whatever tasks do to one symbol at once, with failing writes, resets in the middle and restarts,
\* an order that closed something never stands for an entry again.
THEOREM EntriesStayEntries == Spec => []EntriesAreNotExits
<1>1. EntriesInv => EntriesAreNotExits
  BY DEF EntriesInv, TradesInv, PositionsInv, Of, Entry, EntriesAreNotExits, ClosingIds
<1>2. EntriesInv /\ [Next]_vars => EntriesInv'
  BY EntriesStep
<1> QED
  BY <1>1, <1>2, EntriesInit, PTL DEF Spec
-----------------------------------------------------------------------------
(* Sums over finite sets.  A sum is what an additive function on the subsets says of the whole: *)
(* whichever element is taken out first, its term and the rest make the total.                  *)

Additive(g, f, S) ==
  /\ g \in [SUBSET S -> Int] /\ g[{}] = 0
  /\ \A T \in SUBSET S : \A x \in T : g[T] = f[x] + g[T \ {x}]

SumOf(f, S) == (CHOOSE g : Additive(g, f, S))[S]

\* What the folds of the community modules compute: the terms in the order CHOOSE takes them.
Fold(h, f, S) ==
  h = [T \in SUBSET S |-> IF T = {} THEN 0
                          ELSE LET x == CHOOSE x \in T : TRUE IN f[x] + h[T \ {x}]]

LEMMA LeastOf == ASSUME NEW T \in SUBSET Nat, T # {} PROVE \E x \in T : \A y \in T : x <= y
<1>1. IsWellFoundedOn(OpToRel(<, Nat), Nat)
  BY NatLessThanWellFounded
<1>2. PICK x \in T : \A y \in T : ~ (<<y, x>> \in OpToRel(<, Nat))
  BY <1>1, WFMin
<1>3. \A y \in T : ~(y < x)
  BY <1>2 DEF OpToRel
<1> QED
  BY <1>3

LEMMA Inductive ==
  ASSUME NEW S, 0 \in S, \A n \in Nat : n \in S => n + 1 \in S PROVE Nat \subseteq S
<1> DEFINE T == Nat \ S
<1> SUFFICES ASSUME T # {} PROVE FALSE
  OBVIOUS
<1>1. PICK x \in T : \A y \in T : x <= y
  BY LeastOf
<1>2. x # 0 /\ x - 1 \in Nat /\ x - 1 \notin T
  BY <1>1
<1> QED
  BY <1>1, <1>2

\* What the empty set has, and a set whenever it has it without any one of its elements, every
\* finite set has.
LEMMA FiniteInduction ==
  ASSUME NEW S, IsFiniteSet(S), NEW P, {} \in P,
         \A T \in SUBSET S : T # {} /\ (\A x \in T : T \ {x} \in P) => T \in P
  PROVE  \A T \in SUBSET S : T \in P
<1> DEFINE N == {n \in Nat : \A T \in SUBSET S : Cardinality(T) = n => T \in P}
<1>1. \A T \in SUBSET S : IsFiniteSet(T) /\ Cardinality(T) \in Nat
  BY FS_Subset, FS_CardinalityType
<1>2. 0 \in N
  BY <1>1, FS_EmptySet
<1>3. ASSUME NEW n \in Nat, n \in N PROVE n + 1 \in N
  <2>1. ASSUME NEW T \in SUBSET S, Cardinality(T) = n + 1 PROVE T \in P
    <3>1. T # {}
      <4>1. n + 1 # 0
        OBVIOUS
      <4> QED
        BY <2>1, <4>1, FS_EmptySet
    <3>2. IsFiniteSet(T)
      BY <1>1
    <3>3. ASSUME NEW x \in T PROVE T \ {x} \in P
      <4>1. Cardinality(T \ {x}) = Cardinality(T) - 1
        BY <3>2, FS_RemoveElement
      <4>2. Cardinality(T \ {x}) = n
        BY <2>1, <4>1
      <4> QED
        BY <1>3, <4>2
    <3> QED
      BY <3>1, <3>3
  <2> QED
    BY <2>1
<1> HIDE DEF N
<1>4. Nat \subseteq N
  BY <1>2, <1>3, Inductive
<1> QED
  BY <1>1, <1>4 DEF N

LEMMA AdditiveExists ==
  ASSUME NEW S, IsFiniteSet(S), NEW f, \A x \in S : f[x] \in Int
  PROVE  \E g : Additive(g, f, S)
<1> DEFINE P == {T \in SUBSET S : \E g : Additive(g, f, T)}
<1>1. {} \in P
  <2> DEFINE g == [T \in SUBSET {} |-> 0]
  <2>1. Additive(g, f, {})
    BY DEF Additive
  <2> QED
    BY <2>1
<1>2. ASSUME NEW W \in SUBSET S, W # {}, \A x \in W : W \ {x} \in P PROVE W \in P
  <2>0. PICK x \in W : TRUE
    BY <1>2
  <2> DEFINE T == W \ {x}
  <2>1. PICK g : Additive(g, f, T)
    BY <1>2
  <2> DEFINE h == [V \in SUBSET W |-> IF x \in V THEN f[x] + g[V \ {x}] ELSE g[V]]
  <2>2. \A V \in SUBSET W : V \ {x} \in SUBSET T /\ (x \notin V => V \in SUBSET T)
    OBVIOUS
  <2>3. h \in [SUBSET W -> Int]
    BY <2>1, <2>2 DEF Additive
  <2>4. h[{}] = 0
    BY <2>1 DEF Additive
  <2>5. ASSUME NEW V \in SUBSET W, NEW y \in V PROVE h[V] = f[y] + h[V \ {y}]
    <3>1. CASE y = x
      BY <3>1
    <3>2. CASE x \notin V
      BY <2>1, <2>2, <3>2 DEF Additive
    <3>3. CASE x \in V /\ y # x
      <4>1. V \ {x} \in SUBSET T /\ y \in V \ {x} /\ V \ {y} \in SUBSET W /\ x \in V \ {y}
        BY <3>3
      <4>2. g[V \ {x}] = f[y] + g[(V \ {x}) \ {y}]
        BY <2>1, <4>1 DEF Additive
      <4>3. (V \ {x}) \ {y} = (V \ {y}) \ {x} /\ (V \ {x}) \ {y} \in SUBSET T
        BY <4>1
      <4>4. h[V] = f[x] + g[V \ {x}] /\ h[V \ {y}] = f[x] + g[(V \ {y}) \ {x}]
        BY <3>3, <4>1
      <4>5. f[x] \in Int /\ f[y] \in Int /\ g[(V \ {x}) \ {y}] \in Int
        BY <2>1, <4>3 DEF Additive
      <4>6. \A u, v, w \in Int : u + (v + w) = v + (u + w)
        OBVIOUS
      <4> HIDE DEF h, T
      <4>7. h[V] = f[x] + (f[y] + g[(V \ {x}) \ {y}])
        BY <4>2, <4>4
      <4>8. h[V \ {y}] = f[x] + g[(V \ {x}) \ {y}]
        BY <4>3, <4>4
      <4> QED
        BY <4>5, <4>6, <4>7, <4>8
    <3> QED
      BY <3>1, <3>2, <3>3
  <2> HIDE DEF h
  <2>6. Additive(h, f, W)
    BY <2>3, <2>4, <2>5 DEF Additive
  <2> QED
    BY <2>6
<1> HIDE DEF P
<1>3. S \in P
  BY <1>1, <1>2, FiniteInduction
<1> QED
  BY <1>3 DEF P

\* A fold takes its terms in one order, and an additive function does not care which.
LEMMA FoldIsAdditive ==
  ASSUME NEW S, IsFiniteSet(S), NEW f, NEW g, Additive(g, f, S), NEW h, Fold(h, f, S)
  PROVE  h = g
<1> DEFINE P == {T \in SUBSET S : h[T] = g[T]}
<1>0. \A T \in SUBSET S : h[T] = IF T = {} THEN 0
                                 ELSE LET x == CHOOSE x \in T : TRUE IN f[x] + h[T \ {x}]
  BY DEF Fold
<1>1. {} \in P
  BY <1>0 DEF Additive
<1>2. ASSUME NEW T \in SUBSET S, T # {}, \A x \in T : T \ {x} \in P PROVE T \in P
  <2> DEFINE y == CHOOSE x \in T : TRUE
  <2>1. y \in T
    BY <1>2
  <2>2. h[T] = f[y] + h[T \ {y}]
    BY <1>0, <1>2
  <2>3. g[T] = f[y] + g[T \ {y}]
    BY <2>1 DEF Additive
  <2> QED
    BY <1>2, <2>1, <2>2, <2>3
<1>3. h \in [SUBSET S -> {h[T] : T \in SUBSET S}] /\ g \in [SUBSET S -> Int]
  BY DEF Fold, Additive
<1> HIDE DEF P
<1>4. \A T \in SUBSET S : T \in P
  BY <1>1, <1>2, FiniteInduction
<1> QED
  BY <1>3, <1>4 DEF P

LEMMA AdditiveFolds ==
  ASSUME NEW S, NEW f, NEW g, Additive(g, f, S)
  PROVE  Fold(g, f, S)
<1> DEFINE b == [T \in SUBSET S |-> IF T = {} THEN 0
                                    ELSE LET x == CHOOSE x \in T : TRUE IN f[x] + g[T \ {x}]]
<1>1. ASSUME NEW T \in SUBSET S PROVE g[T] = b[T]
  <2>1. CASE T = {}
    BY <2>1 DEF Additive
  <2>2. CASE T # {}
    <3> DEFINE x == CHOOSE x \in T : TRUE
    <3>1. x \in T
      BY <2>2
    <3>2. b[T] = f[x] + g[T \ {x}]
      BY <2>2
    <3> HIDE DEF b, x
    <3> QED
      BY <3>1, <3>2 DEF Additive
  <2> QED
    BY <2>1, <2>2
<1>2. g \in [SUBSET S -> Int] /\ b \in [SUBSET S -> {b[T] : T \in SUBSET S}]
  BY DEF Additive
<1> HIDE DEF b
<1>3. g = b
  BY <1>1, <1>2
<1> QED
  BY <1>3 DEF Fold, b

\* The laws a sum is used by: of nothing, of one more term, and of terms that have not changed.
LEMMA SumIs ==
  ASSUME NEW S, IsFiniteSet(S), NEW f, NEW g, Additive(g, f, S)
  PROVE  SumOf(f, S) = g[S]
<1> DEFINE c == CHOOSE h : Additive(h, f, S)
<1>1. Additive(c, f, S)
  OBVIOUS
<1> HIDE DEF c
<1>2. c = g
  BY <1>1, AdditiveFolds, FoldIsAdditive
<1> QED
  BY <1>2 DEF SumOf, c

LEMMA SumOfNothing == ASSUME NEW f PROVE SumOf(f, {}) = 0
<1>1. IsFiniteSet({}) /\ \A x \in {} : f[x] \in Int
  BY FS_EmptySet
<1>2. PICK g : Additive(g, f, {})
  BY <1>1, AdditiveExists
<1> QED
  BY <1>1, <1>2, SumIs DEF Additive

LEMMA SumWithout ==
  ASSUME NEW S, IsFiniteSet(S), NEW f, \A x \in S : f[x] \in Int, NEW x \in S
  PROVE  SumOf(f, S) = f[x] + SumOf(f, S \ {x}) /\ SumOf(f, S \ {x}) \in Int
<1> DEFINE T == S \ {x}
<1>1. PICK g : Additive(g, f, S)
  BY AdditiveExists
<1> DEFINE h == [V \in SUBSET T |-> g[V]]
<1>2. IsFiniteSet(T)
  BY FS_RemoveElement
<1>3. Additive(h, f, T)
  BY <1>1 DEF Additive
<1> HIDE DEF h
<1>4. SumOf(f, T) = h[T]
  BY <1>2, <1>3, SumIs
<1>5. h[T] = g[T] /\ g[T] \in Int /\ g[S] = f[x] + g[T]
  BY <1>1 DEF h, Additive
<1>6. SumOf(f, S) = g[S]
  BY <1>1, SumIs
<1> QED
  BY <1>4, <1>5, <1>6

LEMMA SumWith ==
  ASSUME NEW S, IsFiniteSet(S), NEW f, \A y \in S : f[y] \in Int, NEW x, x \notin S, f[x] \in Int
  PROVE  SumOf(f, S \cup {x}) = f[x] + SumOf(f, S) /\ SumOf(f, S) \in Int
<1> DEFINE T == S \cup {x}
<1>1. IsFiniteSet(T) /\ x \in T /\ T \ {x} = S /\ \A y \in T : f[y] \in Int
  BY FS_AddElement
<1> HIDE DEF T
<1>2. SumOf(f, T) = f[x] + SumOf(f, T \ {x}) /\ SumOf(f, T \ {x}) \in Int
  BY <1>1, SumWithout
<1> QED
  BY <1>1, <1>2 DEF T

LEMMA SumIsInt ==
  ASSUME NEW S, IsFiniteSet(S), NEW f, \A x \in S : f[x] \in Int
  PROVE  SumOf(f, S) \in Int
<1>1. PICK g : Additive(g, f, S)
  BY AdditiveExists
<1>2. SumOf(f, S) = g[S]
  BY <1>1, SumIs
<1> QED
  BY <1>1, <1>2 DEF Additive

\* A sum of terms that are all positive is positive, if there are any.
LEMMA SumIsPositive ==
  ASSUME NEW S, IsFiniteSet(S), S # {}, NEW f, \A x \in S : f[x] \in Int /\ f[x] > 0
  PROVE  SumOf(f, S) \in Int /\ SumOf(f, S) > 0
<1> DEFINE P == {T \in SUBSET S : T # {} => SumOf(f, T) > 0}
<1>1. {} \in P
  OBVIOUS
<1>2. ASSUME NEW T \in SUBSET S, T # {}, \A x \in T : T \ {x} \in P PROVE T \in P
  <2>1. PICK x : x \in T
    BY <1>2
  <2>2. IsFiniteSet(T) /\ \A y \in T : f[y] \in Int
    BY FS_Subset
  <2>3. SumOf(f, T) = f[x] + SumOf(f, T \ {x}) /\ SumOf(f, T \ {x}) \in Int
    BY <2>1, <2>2, SumWithout
  <2>4. SumOf(f, T \ {x}) >= 0
    <3>1. CASE T \ {x} = {}
      BY <3>1, SumOfNothing
    <3>2. CASE T \ {x} # {}
      BY <1>2, <2>1, <2>3, <3>2
    <3> QED
      BY <3>1, <3>2
  <2>5. f[x] \in Int /\ f[x] > 0
    BY <2>1
  <2> QED
    BY <2>3, <2>4, <2>5
<1> HIDE DEF P
<1>3. S \in P
  BY <1>1, <1>2, FiniteInduction
<1> QED
  BY <1>3, SumIsInt DEF P

LEMMA SumOfSame ==
  ASSUME NEW S, IsFiniteSet(S), NEW f, NEW h, \A x \in S : f[x] \in Int /\ f[x] = h[x]
  PROVE  SumOf(f, S) = SumOf(h, S)
<1>1. PICK g : Additive(g, f, S)
  BY AdditiveExists
<1>2. Additive(g, h, S)
  BY <1>1 DEF Additive
<1> QED
  BY <1>1, <1>2, SumIs
-----------------------------------------------------------------------------
(* The sums of the account. *)

LEMMA AmountsSum ==
  ASSUME NEW S, IsFiniteSet(S), NEW f, \A t \in S : f[t] \in Int /\ f[t] = t.amount
  PROVE  MapThenSumSet(LAMBDA t : t.amount, S) = SumOf(f, S)
<1> DEFINE B(h) == [T \in SUBSET S |-> IF T = {} THEN 0
                      ELSE LET x == CHOOSE x \in T : TRUE IN x.amount + h[T \ {x}]]
           c == CHOOSE h : h = B(h)
<1>1. MapThenSumSet(LAMBDA t : t.amount, S) = c[S]
  BY DEF MapThenSumSet, MapThenFoldSet
<1>2. PICK g : Additive(g, f, S)
  BY AdditiveExists
<1>3. ASSUME NEW h PROVE h = B(h) <=> Fold(h, f, S)
  <2> DEFINE F == [T \in SUBSET S |-> IF T = {} THEN 0
                      ELSE LET x == CHOOSE x \in T : TRUE IN f[x] + h[T \ {x}]]
  <2>1. \A T \in SUBSET S : T # {} => (CHOOSE x \in T : TRUE) \in S
    OBVIOUS
  <2>2. F = B(h)
    BY <2>1
  <2> QED
    BY <2>2 DEF Fold
<1>4. g = B(g)
  BY <1>2, <1>3, AdditiveFolds
<1> HIDE DEF B
<1>5. c = B(c)
  BY <1>4, Zenon
<1> HIDE DEF c
<1>6. c = g
  BY <1>2, <1>3, <1>5, FoldIsAdditive
<1> QED
  BY <1>1, <1>2, <1>6, SumIs

LEMMA PnlSum ==
  ASSUME NEW S, IsFiniteSet(S), NEW f, \A t \in S : f[t] \in Int /\ f[t] = t.pnl
  PROVE  MapThenSumSet(LAMBDA t : t.pnl, S) = SumOf(f, S)
<1> DEFINE B(h) == [T \in SUBSET S |-> IF T = {} THEN 0
                      ELSE LET x == CHOOSE x \in T : TRUE IN x.pnl + h[T \ {x}]]
           c == CHOOSE h : h = B(h)
<1>1. MapThenSumSet(LAMBDA t : t.pnl, S) = c[S]
  BY DEF MapThenSumSet, MapThenFoldSet
<1>2. PICK g : Additive(g, f, S)
  BY AdditiveExists
<1>3. ASSUME NEW h PROVE h = B(h) <=> Fold(h, f, S)
  <2> DEFINE F == [T \in SUBSET S |-> IF T = {} THEN 0
                      ELSE LET x == CHOOSE x \in T : TRUE IN f[x] + h[T \ {x}]]
  <2>1. \A T \in SUBSET S : T # {} => (CHOOSE x \in T : TRUE) \in S
    OBVIOUS
  <2>2. F = B(h)
    BY <2>1
  <2> QED
    BY <2>2 DEF Fold
<1>4. g = B(g)
  BY <1>2, <1>3, AdditiveFolds
<1> HIDE DEF B
<1>5. c = B(c)
  BY <1>4, Zenon
<1> HIDE DEF c
<1>6. c = g
  BY <1>2, <1>3, <1>5, FoldIsAdditive
<1> QED
  BY <1>1, <1>2, <1>6, SumIs

-----------------------------------------------------------------------------
(* The tables.                                                             *)

OrderRow == [symbol : Symbols \cup {"deleted"}, way : {"buy", "sell"}, amount : Nat, price : Nat]
TradeRow == [open : Nat, close : Nat, amount : Nat, pnl : Int]

\* What the tables O and T say of an order and of a symbol.
Closed(T, id) == MapThenSumSet(LAMBDA t : t.amount, {t \in T : t.open = id})
Left(O, T, id) == O[id].amount - Closed(T, id)
Opens(O, T, s) == {id \in DOMAIN O : /\ O[id].symbol = s
                                     /\ \A t \in T : t.close # id
                                     /\ Left(O, T, id) > 0}

Sound(O, T) ==
  /\ O \in Seq(OrderRow)
  /\ IsFiniteSet(T) /\ T \subseteq TradeRow
  /\ \A t \in T : t.open \in 0..Len(O) /\ t.close \in 1..Len(O)

LEMMA OpensIsOpenIds ==
  /\ \A id : ClosedOf(id) = Closed(trades, id) /\ Remaining(id) = Left(orders, trades, id)
  /\ \A s : OpenIds(s) = Opens(orders, trades, s)
<1>1. \A id : ClosedOf(id) = Closed(trades, id)
  BY DEF ClosedOf, Closed
<1>2. \A id : Remaining(id) = Left(orders, trades, id)
  BY <1>1 DEF Remaining, Left
<1>3. ASSUME NEW s PROVE OpenIds(s) = Opens(orders, trades, s)
  BY <1>2 DEF OpenIds, Opens, ClosingIds
<1> QED
  BY <1>1, <1>2, <1>3

\* An order that no trade names is not closed at all.
LEMMA ClosedByNone ==
  ASSUME NEW T, NEW id, \A t \in T : t.open # id
  PROVE  Closed(T, id) = 0
<1> DEFINE f == [t \in {} |-> 0]
<1>1. {t \in T : t.open = id} = {}
  OBVIOUS
<1>2. MapThenSumSet(LAMBDA t : t.amount, {}) = SumOf(f, {})
  BY FS_EmptySet, AmountsSum
<1>3. MapThenSumSet(LAMBDA t : t.amount, {}) = 0
  BY <1>2, SumOfNothing
<1> QED
  BY <1>1, <1>3 DEF Closed

\* What is closed of an order is an integer, and a new trade adds to the order it names alone.
LEMMA ClosedByOneMore ==
  ASSUME NEW T, IsFiniteSet(T), T \subseteq TradeRow, NEW x \in TradeRow, x \notin T, NEW id
  PROVE  /\ Closed(T, id) \in Int
         /\ Closed(T \cup {x}, id) = IF x.open = id THEN Closed(T, id) + x.amount ELSE Closed(T, id)
<1> DEFINE S == {t \in T : t.open = id}
           f == [t \in TradeRow |-> t.amount]
<1>1. IsFiniteSet(S) /\ IsFiniteSet(S \cup {x})
  BY FS_Subset, FS_AddElement
<1>2. \A t \in S \cup {x} : f[t] \in Int /\ f[t] = t.amount
  BY DEF TradeRow
<1>3. MapThenSumSet(LAMBDA t : t.amount, S) = SumOf(f, S)
  <2>1. \A t \in S : f[t] \in Int /\ f[t] = t.amount
    BY <1>2
  <2> HIDE DEF S, f
  <2> QED
    BY <1>1, <2>1, AmountsSum
<1>4. MapThenSumSet(LAMBDA t : t.amount, S \cup {x}) = SumOf(f, S \cup {x})
  <2> DEFINE U == S \cup {x}
  <2>1. IsFiniteSet(U) /\ \A t \in U : f[t] \in Int /\ f[t] = t.amount
    BY <1>1, <1>2
  <2> HIDE DEF U, f
  <2>2. MapThenSumSet(LAMBDA t : t.amount, U) = SumOf(f, U)
    BY <2>1, AmountsSum
  <2> QED
    BY <2>2 DEF U
<1>5. SumOf(f, S \cup {x}) = f[x] + SumOf(f, S) /\ SumOf(f, S) \in Int
  <2>1. x \notin S /\ f[x] \in Int /\ \A t \in S : f[t] \in Int
    BY <1>2
  <2> HIDE DEF S, f
  <2> QED
    BY <1>1, <2>1, SumWith
<1>6. {t \in T \cup {x} : t.open = id} = IF x.open = id THEN S \cup {x} ELSE S
  OBVIOUS
<1>7. f[x] = x.amount /\ x.amount \in Int
  BY DEF TradeRow
<1>8. Closed(T, id) = SumOf(f, S)
  BY <1>3 DEF Closed
<1>9. Closed(T \cup {x}, id) = IF x.open = id THEN SumOf(f, S \cup {x}) ELSE SumOf(f, S)
  <2>1. CASE x.open = id
    BY <1>4, <1>6, <2>1 DEF Closed
  <2>2. CASE x.open # id
    BY <1>3, <1>6, <2>2 DEF Closed
  <2> QED
    BY <2>1, <2>2
<1> HIDE DEF S, f
<1> QED
  BY <1>5, <1>7, <1>8, <1>9

LEMMA ClosedIsInt ==
  ASSUME NEW T, IsFiniteSet(T), T \subseteq TradeRow, NEW id
  PROVE  Closed(T, id) \in Int
<1> DEFINE S == {t \in T : t.open = id}
           f == [t \in TradeRow |-> t.amount]
<1>1. IsFiniteSet(S) /\ \A t \in S : f[t] \in Int /\ f[t] = t.amount
  BY FS_Subset DEF TradeRow
<1>2. Closed(T, id) = MapThenSumSet(LAMBDA t : t.amount, S)
  BY DEF Closed
<1> HIDE DEF S, f
<1>3. SumOf(f, S) \in Int /\ MapThenSumSet(LAMBDA t : t.amount, S) = SumOf(f, S)
  BY <1>1, AmountsSum, SumIsInt
<1> QED
  BY <1>2, <1>3

LEMMA SoundRows ==
  ASSUME NEW O, NEW T, Sound(O, T)
  PROVE  /\ Len(O) \in Nat /\ DOMAIN O = 1..Len(O)
         /\ \A id \in 1..Len(O) : O[id] \in OrderRow /\ Left(O, T, id) \in Int
         /\ \A s : Opens(O, T, s) \subseteq 1..Len(O)
<1>1. Len(O) \in Nat /\ DOMAIN O = 1..Len(O) /\ \A id \in 1..Len(O) : O[id] \in OrderRow
  BY DEF Sound
<1>2. \A id \in 1..Len(O) : Left(O, T, id) \in Int
  <2>1. \A id : Closed(T, id) \in Int
    BY ClosedIsInt DEF Sound
  <2>2. \A id \in 1..Len(O) : O[id].amount \in Nat
    BY <1>1 DEF OrderRow
  <2> QED
    BY <2>1, <2>2 DEF Left
<1> QED
  BY <1>1, <1>2 DEF Opens

\* A new order that closes nothing is open for all of its volume; nothing else changes.
LEMMA OrderAdded ==
  ASSUME NEW O, NEW T, Sound(O, T), NEW r \in OrderRow
  PROVE  LET N == Append(O, r)
             n == Len(O) + 1
         IN  /\ Sound(N, T) /\ Len(N) = n /\ N[n] = r /\ Left(N, T, n) = r.amount
             /\ \A id \in 1..Len(O) : N[id] = O[id] /\ Left(N, T, id) = Left(O, T, id)
             /\ \A s : Opens(N, T, s) = IF r.symbol = s /\ r.amount > 0
                                        THEN Opens(O, T, s) \cup {n} ELSE Opens(O, T, s)
<1> DEFINE N == Append(O, r)
           n == Len(O) + 1
<1>1. Len(O) \in Nat /\ DOMAIN O = 1..Len(O) /\ O \in Seq(OrderRow)
  BY SoundRows DEF Sound
<1>2. /\ N \in Seq(OrderRow) /\ Len(N) = n /\ N[n] = r /\ DOMAIN N = 1..n
      /\ \A id \in 1..Len(O) : N[id] = O[id]
  BY <1>1
<1> HIDE DEF N
<1>3. Closed(T, n) = 0
  <2>1. \A t \in T : t.open # n
    BY <1>1 DEF Sound
  <2> QED
    BY <2>1, ClosedByNone
<1>4. Left(N, T, n) = r.amount /\ r.amount \in Nat
  BY <1>2, <1>3 DEF Left, OrderRow
<1>5. \A id \in 1..Len(O) : Left(N, T, id) = Left(O, T, id)
  BY <1>2 DEF Left
<1>6. Sound(N, T)
  <2>1. \A t \in T : t.open \in 0..n /\ t.close \in 1..n
    BY <1>1 DEF Sound
  <2> QED
    BY <1>2, <2>1 DEF Sound
<1>7. ASSUME NEW s
      PROVE  Opens(N, T, s) = IF r.symbol = s /\ r.amount > 0
                              THEN Opens(O, T, s) \cup {n} ELSE Opens(O, T, s)
  <2>1. \A id \in 1..n : id \in 1..Len(O) \/ id = n
    BY <1>1
  <2>2. \A id \in 1..Len(O) : id \in Opens(N, T, s) <=> id \in Opens(O, T, s)
    BY <1>1, <1>2, <1>5 DEF Opens
  <2>3. \A t \in T : t.close # n
    BY <1>1 DEF Sound
  <2>4. n \in Opens(N, T, s) <=> r.symbol = s /\ r.amount > 0
    BY <1>1, <1>2, <1>4, <2>3 DEF Opens
  <2>5. Opens(N, T, s) \subseteq 1..n /\ Opens(O, T, s) \subseteq 1..Len(O)
    BY <1>1, <1>2 DEF Opens
  <2>6. CASE r.symbol = s /\ r.amount > 0
    <3> HIDE DEF n
    <3> QED
      BY <2>1, <2>2, <2>4, <2>5, <2>6
  <2>7. CASE ~(r.symbol = s /\ r.amount > 0)
    <3> HIDE DEF n
    <3>1. \A id : id \in Opens(N, T, s) <=> id \in Opens(O, T, s)
      BY <2>1, <2>2, <2>4, <2>5, <2>7
    <3>2. Opens(N, T, s) = Opens(O, T, s)
      BY <3>1
    <3> QED
      BY <2>7, <3>2
  <2> QED
    BY <2>6, <2>7
<1> QED
  BY <1>2, <1>4, <1>5, <1>6, <1>7 DEF N

\* The tables N and U are O and T after order o, or none, was closed by n more.
Reduced(O, T, N, U, o, n) ==
  /\ Sound(N, U)
  /\ \A id \in 1..Len(O) : N[id] = O[id]
  /\ o # 0 => Left(N, U, o) = Left(O, T, o) - n
  /\ \A id \in 1..Len(O) : id # o => Left(N, U, id) = Left(O, T, id)
  /\ \A s : \A id : id \in Opens(N, U, s) <=> id \in Opens(O, T, s) /\ Left(N, U, id) > 0

\* A closing order and its trade take their volume off the order they close, and off nothing else.
LEMMA CloseAdded ==
  ASSUME NEW O, NEW T, Sound(O, T), NEW r \in OrderRow, NEW x \in TradeRow,
         NEW o \in 0..Len(O), x.open = o, x.close = Len(O) + 1
  PROVE  x \notin T /\ Reduced(O, T, Append(O, r), T \cup {x}, o, x.amount)
<1> DEFINE N == Append(O, r)
           U == T \cup {x}
           n == Len(O) + 1
<1>1. Len(O) \in Nat /\ DOMAIN O = 1..Len(O) /\ O \in Seq(OrderRow)
  BY SoundRows DEF Sound
<1>2. /\ N \in Seq(OrderRow) /\ Len(N) = n /\ N[n] = r /\ DOMAIN N = 1..n
      /\ \A id \in 1..Len(O) : N[id] = O[id]
  BY <1>1
<1>3. x \notin T
  BY <1>1 DEF Sound
<1>4. IsFiniteSet(U) /\ U \subseteq TradeRow
  BY FS_AddElement DEF Sound
<1>5. \A id : Closed(U, id) = IF x.open = id THEN Closed(T, id) + x.amount ELSE Closed(T, id)
  BY <1>3, ClosedByOneMore DEF Sound
<1>6. \A id : Closed(T, id) \in Int
  BY ClosedIsInt DEF Sound
<1>7. x.amount \in Nat /\ r.amount \in Nat /\ \A id \in 1..Len(O) : O[id].amount \in Nat
  BY SoundRows DEF TradeRow, OrderRow
<1> HIDE DEF N
<1>8. ASSUME NEW id \in 1..Len(O)
      PROVE  Left(N, U, id) = IF id = x.open THEN Left(O, T, id) - x.amount ELSE Left(O, T, id)
  <2>1. Closed(U, id) = IF x.open = id THEN Closed(T, id) + x.amount ELSE Closed(T, id)
    BY <1>5
  <2> HIDE DEF U
  <2>2. N[id].amount = O[id].amount /\ O[id].amount \in Int /\ Closed(T, id) \in Int
    BY <1>2, <1>6, <1>7
  <2> QED
    BY <1>7, <2>1, <2>2 DEF Left
<1>9. Sound(N, U)
  <2>1. \A t \in U : t.open \in 0..n /\ t.close \in 1..n
    BY <1>1 DEF Sound
  <2> HIDE DEF U
  <2> QED
    BY <1>2, <1>4, <2>1 DEF Sound
<1>10. ASSUME NEW s
       PROVE  \A id : id \in Opens(N, U, s) <=> id \in Opens(O, T, s) /\ Left(N, U, id) > 0
  <2>1. \A id \in 1..n : id \in 1..Len(O) \/ id = n
    BY <1>1
  <2>2. n \notin Opens(N, U, s)
    BY DEF Opens
  <2>3. \A id \in 1..Len(O) : (\A t \in U : t.close # id) <=> (\A t \in T : t.close # id)
    BY <1>1
  <2>4. \A id \in 1..Len(O) : Left(N, U, id) > 0 => Left(O, T, id) > 0
    <3> HIDE DEF U
    <3>1. \A id \in 1..Len(O) : Left(O, T, id) \in Int
      BY SoundRows
    <3> QED
      BY <1>7, <1>8, <3>1
  <2>5. Opens(N, U, s) \subseteq 1..n /\ Opens(O, T, s) \subseteq 1..Len(O)
    BY <1>1, <1>2 DEF Opens
  <2> HIDE DEF U
  <2>6. \A id \in 1..Len(O) : id \in Opens(N, U, s) <=> id \in Opens(O, T, s) /\ Left(N, U, id) > 0
    BY <1>1, <1>2, <2>3, <2>4 DEF Opens
  <2> QED
    BY <2>1, <2>2, <2>5, <2>6
<1>11. o # 0 => Left(N, U, o) = Left(O, T, o) - x.amount
  <2>1. o # 0 => o \in 1..Len(O)
    BY <1>1
  <2> HIDE DEF U
  <2> QED
    BY <1>8, <2>1
<1> QED
  BY <1>2, <1>3, <1>8, <1>9, <1>10, <1>11 DEF N, Reduced

\* Without rows nothing is open.
LEMMA TablesEmptied ==
  ASSUME NEW O, NEW T, Sound(O, T)
  PROVE  LET N == [id \in DOMAIN O |-> Deleted]
         IN  Sound(N, {}) /\ Len(N) = Len(O) /\ \A s : Opens(N, {}, s) = {}
<1> DEFINE N == [id \in DOMAIN O |-> Deleted]
<1>1. Len(O) \in Nat /\ DOMAIN O = 1..Len(O)
  BY SoundRows
<1>2. Deleted \in OrderRow /\ Deleted.amount = 0
  BY DEF Deleted, OrderRow
<1>3. N \in Seq(OrderRow) /\ Len(N) = Len(O) /\ \A id \in 1..Len(O) : N[id] = Deleted
  BY <1>1, <1>2
<1>4. \A id : Closed({}, id) = 0
  BY ClosedByNone
<1>5. \A id \in 1..Len(O) : Left(N, {}, id) = 0
  BY <1>2, <1>3, <1>4 DEF Left
<1>6. DOMAIN N = 1..Len(O)
  BY <1>1
<1> HIDE DEF N
<1>7. Sound(N, {})
  BY <1>3, <1>5, FS_EmptySet DEF Sound
<1>8. \A s : Opens(N, {}, s) = {}
  BY <1>5, <1>6 DEF Opens
<1> QED
  BY <1>3, <1>7, <1>8 DEF N

-----------------------------------------------------------------------------
(* The account, symbol by symbol, where no two tasks have met.              *)

Ways == {"buy", "sell"}
Sides == {"long", "short"}
Volume == Nat \ {0}

Priced == [pc : {"priced"}, symbol : Symbols, way : Ways, amount : Volume]
Inserting == [pc : {"insert"}, symbol : Symbols, way : Ways, amount : Volume, price : Nat,
              opening : BOOLEAN]
Registering == [pc : {"register"}, symbol : Symbols, way : Ways, amount : Volume, price : Nat,
                order : Nat]
Closing == [pc : {"record", "apply", "forget"}, symbol : Symbols, side : Sides, entry : Int,
            amount : Volume, fee : Int, order : Nat, price : Nat, partial : BOOLEAN]
Holding == [side : Sides, amount : Volume, entry : Int, order : Nat, fee : Int]
Tracking == [side : Sides, amount : Int, entry : Int, order : Nat, fee : Int]

Typed ==
  /\ Sound(orders, trades) /\ failures \in Nat
  /\ \A s \in DOMAIN positions : s \in Symbols /\ positions[s] \in Holding
  /\ \A s \in DOMAIN tracked : s \in Symbols /\ tracked[s] \in Tracking
  /\ task = [a \in Tasks |-> task[a]]
  /\ \A a \in Tasks : task[a] \in {Idle} \cup Priced \cup Inserting \cup Registering \cup Closing

On(a, s) == task[a].pc # "idle" /\ task[a].symbol = s
AloneAt(s) == \A a, b \in Tasks : On(a, s) /\ On(b, s) => a = b

\* The tables O and T know position p of symbol s by one order, which has that much left.
InBook(O, T, s, p, amount) ==
  /\ Opens(O, T, s) = {p.order}
  /\ SideOf(O[p.order].way) = p.side /\ O[p.order].price = p.entry
  /\ Left(O, T, p.order) = amount

\* The two halves of every change to a symbol are done: memory and database agree.
Quiet(s) ==
  IF s \in DOMAIN positions THEN InBook(orders, trades, s, positions[s], positions[s].amount)
  ELSE Opens(orders, trades, s) = {}

BookInv(s) == (\A a \in Tasks : Unsettled(a) => task[a].symbol # s) => Quiet(s)

\* A close is of the position it was started for, of all of it or of half.
Concerns(t, p) == /\ t.side = p.side /\ t.entry = p.entry /\ t.order = p.order
                  /\ p.amount = IF t.partial THEN 2 * t.amount ELSE t.amount

Opened(t, order, fee) == [side |-> SideOf(t.way), amount |-> t.amount, entry |-> t.price,
                          order |-> order, fee |-> fee]

\* What a task under way relies on, at each of its awaits.
PricedInv(a, t) == a \in Openers /\ t.symbol \notin DOMAIN positions
InsertInv(a, t) ==
  /\ a \in Openers /\ t.opening /\ t.symbol \in DOMAIN positions
  /\ positions[t.symbol] = Opened(t, 0, 0) /\ Opens(orders, trades, t.symbol) = {}
RegisterInv(a, t) ==
  /\ a \in Openers /\ t.symbol \in DOMAIN positions
  /\ positions[t.symbol] = Opened(t, t.order, FeeRate * t.amount)
CloseInv(a, t) ==
  /\ a \in Closers /\ (t.partial => a = "loop")
  /\ t.symbol \in DOMAIN positions /\ Concerns(t, positions[t.symbol])
ApplyInv(t) ==
  IF t.partial THEN InBook(orders, trades, t.symbol, positions[t.symbol], t.amount)
  ELSE Opens(orders, trades, t.symbol) = {}
ForgetInv(a, t) ==
  /\ a = "loop"
  /\ ~t.partial => t.symbol \notin DOMAIN positions
  /\ t.partial => /\ t.symbol \in DOMAIN positions /\ t.symbol \in DOMAIN tracked
                  /\ t.order = positions[t.symbol].order
                  /\ tracked[t.symbol].side = positions[t.symbol].side
                  /\ tracked[t.symbol].entry = positions[t.symbol].entry
                  /\ tracked[t.symbol].order = positions[t.symbol].order
                  /\ tracked[t.symbol].amount = positions[t.symbol].amount + t.amount

TaskInv(a) ==
  /\ task[a].pc = "priced" => PricedInv(a, task[a])
  /\ task[a].pc = "insert" => InsertInv(a, task[a])
  /\ task[a].pc = "register" => RegisterInv(a, task[a])
  /\ task[a].pc = "record" => CloseInv(a, task[a])
  /\ task[a].pc = "apply" => CloseInv(a, task[a]) /\ ApplyInv(task[a])
  /\ task[a].pc = "forget" => ForgetInv(a, task[a])

\* The loop's copy is of the position, except while somebody opens it or the loop settles a part.
Opening(s) == \E a \in Openers : On(a, s)
Settling(s) == \E a \in Tasks : On(a, s) /\ task[a].pc = "forget"
Copies(q, p) == q.side = p.side /\ q.entry = p.entry /\ q.order = p.order /\ q.amount = p.amount
TrackInv(s) ==
  s \in DOMAIN positions /\ ~Opening(s) =>
    s \in DOMAIN tracked /\ (Settling(s) \/ Copies(tracked[s], positions[s]))

SymbolInv(s) == /\ AloneAt(s) /\ BookInv(s) /\ TrackInv(s)
                /\ \A a \in Tasks : On(a, s) => TaskInv(a)

AccountInv == Typed /\ \A s \in Symbols \ crossed : SymbolInv(s)

-----------------------------------------------------------------------------
(* A step of one task on one symbol leaves the others as they are.         *)

SameAt(k) ==
  /\ k \in DOMAIN positions' <=> k \in DOMAIN positions
  /\ k \in DOMAIN positions => positions'[k] = positions[k]
  /\ k \in DOMAIN tracked' <=> k \in DOMAIN tracked
  /\ k \in DOMAIN tracked => tracked'[k] = tracked[k]
  /\ Opens(orders', trades', k) = Opens(orders, trades, k)
  /\ \A id \in Opens(orders, trades, k) : /\ orders'[id] = orders[id]
                                          /\ Left(orders', trades', id) = Left(orders, trades, id)

LEMMA BookStays ==
  ASSUME NEW k, SameAt(k), NEW p, NEW amount
  PROVE  InBook(orders', trades', k, p, amount) <=> InBook(orders, trades, k, p, amount)
BY DEF SameAt, InBook

LEMMA TaskKinds ==
  ASSUME Typed, NEW a \in Tasks
  PROVE  /\ task[a].pc \in {"idle", "priced", "insert", "register", "record", "apply", "forget"}
         /\ task[a].pc = "idle" => task[a] = Idle
         /\ task[a].pc # "idle" => task[a].symbol \in Symbols
         /\ task[a].pc = "priced" => task[a] \in Priced
         /\ task[a].pc = "insert" => task[a] \in Inserting
         /\ task[a].pc = "register" => task[a] \in Registering
         /\ task[a].pc \in {"record", "apply", "forget"} => task[a] \in Closing
<1>1. PICK t : t = task[a]
  OBVIOUS
<1>2. t \in {Idle} \cup Priced \cup Inserting \cup Registering \cup Closing
  BY <1>1 DEF Typed
<1>3. CASE t = Idle
  BY <1>1, <1>3 DEF Idle
<1>4. CASE t \in Priced
  BY <1>1, <1>4 DEF Priced
<1>5. CASE t \in Inserting
  BY <1>1, <1>5 DEF Inserting
<1>6. CASE t \in Registering
  BY <1>1, <1>6 DEF Registering
<1>7. CASE t \in Closing
  <2>1. t.pc \in {"record", "apply", "forget"} /\ t.symbol \in Symbols
    BY <1>7 DEF Closing
  <2> QED
    BY <1>1, <1>7, <2>1
<1> QED
  BY <1>2, <1>3, <1>4, <1>5, <1>6, <1>7

\* What a task with record t relies on, one part for each of its awaits.
LEMMA ReliesStays ==
  ASSUME NEW a, NEW t, SameAt(t.symbol)
  PROVE  /\ PricedInv(a, t) => PricedInv(a, t)'
         /\ InsertInv(a, t) => InsertInv(a, t)'
         /\ RegisterInv(a, t) => RegisterInv(a, t)'
         /\ CloseInv(a, t) => CloseInv(a, t)'
         /\ CloseInv(a, t) /\ ApplyInv(t) => ApplyInv(t)'
         /\ ForgetInv(a, t) => ForgetInv(a, t)'
<1>1. PricedInv(a, t) => PricedInv(a, t)'
  BY DEF SameAt, PricedInv
<1>2. InsertInv(a, t) => InsertInv(a, t)'
  BY DEF SameAt, InsertInv
<1>3. RegisterInv(a, t) => RegisterInv(a, t)'
  BY DEF SameAt, RegisterInv
<1>4. CloseInv(a, t) => CloseInv(a, t)'
  BY DEF SameAt, CloseInv
<1>5. CloseInv(a, t) /\ ApplyInv(t) => ApplyInv(t)'
  <2> SUFFICES ASSUME CloseInv(a, t), ApplyInv(t) PROVE ApplyInv(t)'
    OBVIOUS
  <2>1. positions'[t.symbol] = positions[t.symbol]
    BY DEF SameAt, CloseInv
  <2>2. Opens(orders', trades', t.symbol) = Opens(orders, trades, t.symbol)
    BY DEF SameAt
  <2>3. InBook(orders, trades, t.symbol, positions[t.symbol], t.amount)
          => InBook(orders', trades', t.symbol, positions'[t.symbol], t.amount)
    BY <2>1 DEF SameAt, InBook
  <2> QED
    BY <2>2, <2>3 DEF ApplyInv
<1>6. ForgetInv(a, t) => ForgetInv(a, t)'
  BY DEF SameAt, ForgetInv
<1> QED
  BY <1>1, <1>2, <1>3, <1>4, <1>5, <1>6

LEMMA TaskInvStays ==
  ASSUME NEW b \in Tasks, TaskInv(b), task'[b] = task[b],
         \A k : On(b, k) => SameAt(k)
  PROVE  TaskInv(b)'
<1>1. CASE task[b].pc = "idle"
  BY <1>1 DEF TaskInv
<1>2. CASE task[b].pc # "idle"
  <2>1. PICK t : t = task[b]
    OBVIOUS
  <2>2. SameAt(t.symbol)
    BY <1>2, <2>1 DEF On
  <2>3. /\ t.pc = "priced" => PricedInv(b, t)
        /\ t.pc = "insert" => InsertInv(b, t)
        /\ t.pc = "register" => RegisterInv(b, t)
        /\ t.pc = "record" => CloseInv(b, t)
        /\ t.pc = "apply" => CloseInv(b, t) /\ ApplyInv(t)
        /\ t.pc = "forget" => ForgetInv(b, t)
    BY <2>1 DEF TaskInv
  <2>4. /\ t.pc = "priced" => PricedInv(b, t)'
        /\ t.pc = "insert" => InsertInv(b, t)'
        /\ t.pc = "register" => RegisterInv(b, t)'
        /\ t.pc = "record" => CloseInv(b, t)'
        /\ t.pc = "apply" => CloseInv(b, t)' /\ ApplyInv(t)'
        /\ t.pc = "forget" => ForgetInv(b, t)'
    BY <2>2, <2>3, ReliesStays
  <2>5. task'[b] = t
    BY <2>1
  <2> QED
    BY <2>4, <2>5 DEF TaskInv, PricedInv, InsertInv, RegisterInv, CloseInv, ApplyInv, ForgetInv
<1> QED
  BY <1>1, <1>2

LEMMA SymbolInvStays ==
  ASSUME NEW k, SameAt(k), BookInv(k), TrackInv(k),
         \A b \in Tasks : On(b, k) <=> On(b, k)',
         \A b \in Tasks : On(b, k) => task'[b] = task[b]
  PROVE  BookInv(k)' /\ TrackInv(k)'
<1>1. Quiet(k) => Quiet(k)'
  <2>1. CASE k \in DOMAIN positions
    <3>1. PICK p : p = positions[k]
      OBVIOUS
    <3>2. positions'[k] = p /\ k \in DOMAIN positions'
      BY <2>1, <3>1 DEF SameAt
    <3>3. InBook(orders, trades, k, p, p.amount) => InBook(orders', trades', k, p, p.amount)
      BY BookStays
    <3> QED
      BY <2>1, <3>1, <3>2, <3>3 DEF Quiet
  <2>2. CASE k \notin DOMAIN positions
    BY <2>2 DEF SameAt, Quiet
  <2> QED
    BY <2>1, <2>2
<1>2. ASSUME \A a \in Tasks : Unsettled(a)' => task'[a].symbol # k
      PROVE  \A a \in Tasks : Unsettled(a) => task[a].symbol # k
  BY <1>2 DEF On, Unsettled
<1>3. BookInv(k)'
  BY <1>1, <1>2 DEF BookInv
<1>4. Opening(k)' <=> Opening(k)
  BY DEF Opening, Openers
<1>5. Settling(k) => Settling(k)'
  BY DEF Settling
<1>6. TrackInv(k)'
  BY <1>4, <1>5 DEF TrackInv, SameAt, Copies
<1> QED
  BY <1>3, <1>6

\* What a step of one task on one symbol leaves of the others.
LEMMA OthersStay ==
  ASSUME AccountInv, NEW a \in Tasks, NEW s \in Symbols, crossed \subseteq crossed',
         \A b \in Tasks : b # a => task'[b] = task[b],
         task[a].pc # "idle" => task[a].symbol = s,
         task'[a].pc # "idle" => task'[a].symbol = s,
         \A k \in Symbols : k # s => SameAt(k)
  PROVE  \A k \in Symbols \ crossed' : k # s => SymbolInv(k)'
<1> SUFFICES ASSUME NEW k \in Symbols \ crossed', k # s PROVE SymbolInv(k)'
  OBVIOUS
<1>1. SymbolInv(k) /\ SameAt(k)
  BY DEF AccountInv
<1>2. \A b \in Tasks : On(b, k) <=> On(b, k)'
  BY DEF On
<1>3. \A b \in Tasks : On(b, k) => b # a /\ task'[b] = task[b]
  BY DEF On
<1>4. BookInv(k)' /\ TrackInv(k)'
  BY <1>1, <1>2, <1>3, SymbolInvStays DEF SymbolInv
<1>5. AloneAt(k)'
  BY <1>1, <1>2 DEF SymbolInv, AloneAt
<1>6. ASSUME NEW b \in Tasks, On(b, k) PROVE TaskInv(b)'
  <2>1. \A j : On(b, j) => SameAt(j)
    BY <1>1, <1>6 DEF On
  <2> QED
    BY <1>1, <1>3, <1>6, <2>1, TaskInvStays DEF SymbolInv
<1> QED
  BY <1>2, <1>4, <1>5, <1>6 DEF SymbolInv

\* A step on a symbol where tasks have met has to keep the types and the other symbols.
LEMMA CrossedSymbol ==
  ASSUME AccountInv, Typed', NEW a \in Tasks, NEW s \in Symbols, crossed \subseteq crossed',
         s \in crossed',
         \A b \in Tasks : b # a => task'[b] = task[b],
         task[a].pc # "idle" => task[a].symbol = s,
         task'[a].pc # "idle" => task'[a].symbol = s,
         \A k \in Symbols : k # s => SameAt(k)
  PROVE  AccountInv'
<1>1. \A k \in Symbols \ crossed' : k # s => SymbolInv(k)'
  BY OthersStay
<1> QED
  BY <1>1 DEF AccountInv

LEMMA OneSymbol ==
  ASSUME AccountInv, Typed', NEW a \in Tasks, NEW s \in Symbols, crossed \subseteq crossed',
         \A b \in Tasks : b # a => task'[b] = task[b] /\ ~On(b, s),
         task[a].pc # "idle" => task[a].symbol = s,
         task'[a].pc # "idle" => task'[a].symbol = s,
         \A k \in Symbols : k # s => SameAt(k),
         BookInv(s)', TrackInv(s)', TaskInv(a)'
  PROVE  AccountInv'
<1>1. \A k \in Symbols \ crossed' : k # s => SymbolInv(k)'
  BY OthersStay
<1>2. \A b \in Tasks : On(b, s)' => b = a
  BY DEF On
<1>3. SymbolInv(s)'
  BY <1>2 DEF SymbolInv, AloneAt
<1> QED
  BY <1>1, <1>3 DEF AccountInv

\* A task that is at work on a symbol is the only one there, and what it finds is settled unless it
\* is itself between its two halves.
LEMMA AtWork ==
  ASSUME AccountInv, NEW a \in Tasks, task[a].pc # "idle", task[a].symbol \notin crossed
  PROVE  /\ task[a].symbol \in Symbols /\ TaskInv(a)
         /\ \A b \in Tasks : b # a => ~On(b, task[a].symbol)
         /\ ~Unsettled(a) => Quiet(task[a].symbol)
<1>1. task[a].symbol \in Symbols
  BY TaskKinds DEF AccountInv
<1>2. TaskInv(a) /\ \A b \in Tasks : b # a => ~On(b, task[a].symbol)
  BY <1>1 DEF AccountInv, SymbolInv, AloneAt, On
<1>3. ASSUME ~Unsettled(a) PROVE Quiet(task[a].symbol)
  <2>1. \A b \in Tasks : Unsettled(b) => task[b].symbol # task[a].symbol
    BY <1>2, <1>3 DEF On, Unsettled
  <2> QED
    BY <1>1, <2>1 DEF AccountInv, SymbolInv, BookInv
<1> QED
  BY <1>1, <1>2, <1>3

LEMMA AtStart ==
  ASSUME AccountInv, NEW a \in Tasks, NEW s \in Symbols, Starts(a, s), s \notin crossed'
  PROVE  /\ s \notin crossed /\ crossed' = crossed
         /\ (\A b \in Tasks : ~On(b, s)) /\ Quiet(s) /\ task[a].pc = "idle"
<1>1. s \notin crossed /\ crossed' = crossed /\ \A b \in Tasks : ~On(b, s)
  BY DEF Starts, Busy, On
<1>2. Quiet(s)
  BY <1>1 DEF AccountInv, SymbolInv, BookInv, On, Unsettled
<1> QED
  BY <1>1, <1>2 DEF Starts

-----------------------------------------------------------------------------
(* Opening.                                                                *)

TaskRecord == {Idle} \cup Priced \cup Inserting \cup Registering \cup Closing

LEMMA TaskChanges ==
  ASSUME Typed, NEW a \in Tasks, NEW t \in TaskRecord, task' = [task EXCEPT ![a] = t]
  PROVE  /\ task'[a] = t /\ \A b \in Tasks : b # a => task'[b] = task[b]
         /\ task' = [b \in Tasks |-> task'[b]]
         /\ \A b \in Tasks : task'[b] \in TaskRecord
<1>1. task = [b \in Tasks |-> task[b]] /\ \A b \in Tasks : task[b] \in TaskRecord
  BY DEF Typed, TaskRecord
<1> HIDE DEF TaskRecord
<1> QED
  BY <1>1

\* A step that leaves the tables alone, and what is held and tracked of symbol k.
LEMMA SameTables ==
  ASSUME UNCHANGED db
  PROVE  /\ \A k : /\ k \in DOMAIN positions' <=> k \in DOMAIN positions
                   /\ k \in DOMAIN positions => positions'[k] = positions[k]
                   /\ k \in DOMAIN tracked' <=> k \in DOMAIN tracked
                   /\ k \in DOMAIN tracked => tracked'[k] = tracked[k]
                   => SameAt(k)
         /\ \A k : Opens(orders', trades', k) = Opens(orders, trades, k)
         /\ \A k, p, n : InBook(orders', trades', k, p, n) <=> InBook(orders, trades, k, p, n)
         /\ Sound(orders, trades) => Sound(orders', trades')
BY DEF db, SameAt

LEMMA Division == ASSUME NEW x \in Nat, NEW n \in Nat \ {0} PROVE (0 * 0 + x * n) \div (0 + n) = x
<1>1. x * n \in Int /\ 0 * 0 + x * n = n * x + 0 /\ 0 + n = n
  OBVIOUS
<1>2. (n * x) \div n = x
  OBVIOUS
<1> QED
  BY <1>1, <1>2

\* The task goes on, or is done, and nothing else changes.
LEMMA GoesOn ==
  ASSUME AccountInv, NEW a \in Tasks, NEW s \in Symbols, UNCHANGED <<memory, db>>,
         DOMAIN tracked' = DOMAIN tracked, \A k \in DOMAIN tracked : tracked'[k] = tracked[k],
         failures' \in Nat, \A b \in Tasks : b # a => ~On(b, s),
         task[a].pc # "idle" => task[a].symbol = s, Quiet(s),
         NEW t \in TaskRecord, task' = [task EXCEPT ![a] = t], t.pc # "idle" => t.symbol = s,
         TrackInv(s)', TaskInv(a)', crossed \subseteq crossed'
  PROVE  AccountInv'
<1>1. /\ task'[a] = t /\ \A b \in Tasks : b # a => task'[b] = task[b]
      /\ task' = [b \in Tasks |-> task'[b]] /\ \A b \in Tasks : task'[b] \in TaskRecord
  BY TaskChanges DEF AccountInv
<1>2. Typed'
  BY <1>1, SameTables DEF AccountInv, Typed, TaskRecord, memory
<1>3. \A k \in Symbols : SameAt(k)
  BY SameTables DEF memory
<1>4. Quiet(s)'
  <2>1. CASE s \in DOMAIN positions
    BY <2>1, SameTables DEF memory, Quiet
  <2>2. CASE s \notin DOMAIN positions
    BY <2>2, SameTables DEF memory, Quiet
  <2> QED
    BY <2>1, <2>2
<1>5. BookInv(s)'
  BY <1>4 DEF BookInv
<1> QED
  BY <1>1, <1>3, <1>2, <1>5, OneSymbol

LEMMA CheckFreeKeeps ==
  ASSUME AccountInv, NEW a \in Openers, NEW s \in Symbols, CheckFree(a, s), s \notin crossed'
  PROVE  AccountInv'
<1>1. PICK way \in {"buy", "sell"}, amount \in Amounts :
        task' = [task EXCEPT ![a] = [pc |-> "priced", symbol |-> s, way |-> way,
                                     amount |-> amount]]
  BY DEF CheckFree
<1>2. a \in Tasks /\ a \in {"signal", "manual"} /\ amount \in Volume
  BY PaperAssumption DEF Openers, Volume
<1> DEFINE t == [pc |-> "priced", symbol |-> s, way |-> way, amount |-> amount]
<1>3. t \in Priced /\ t.pc = "priced" /\ t.symbol = s
  BY <1>2 DEF Priced, Ways
<1> HIDE DEF t
<1>4. UNCHANGED <<memory, tracked, db, failures>> /\ task' = [task EXCEPT ![a] = t]
  BY <1>1 DEF CheckFree, t
<1>5. /\ (\A b \in Tasks : ~On(b, s)) /\ Quiet(s) /\ task[a].pc = "idle"
      /\ s \notin crossed /\ crossed' = crossed
  BY <1>2, AtStart DEF CheckFree
<1>6. s \notin DOMAIN positions
  <2>1. CASE a = "signal"
    <3>1. s \notin DOMAIN tracked
      BY <2>1 DEF CheckFree
    <3>2. ~Opening(s)
      BY <1>5 DEF Opening, Openers
    <3> QED
      BY <1>5, <3>1, <3>2 DEF AccountInv, SymbolInv, TrackInv
  <2>2. CASE a # "signal"
    BY <2>2 DEF CheckFree
  <2> QED
    BY <2>1, <2>2
<1>7. task'[a] = t
  BY <1>2, <1>3, <1>4, TaskChanges DEF AccountInv, TaskRecord
<1>8. TaskInv(a)'
  BY <1>3, <1>4, <1>6, <1>7 DEF TaskInv, PricedInv, memory
<1>9. TrackInv(s)'
  BY <1>4, <1>6 DEF TrackInv, memory
<1>10. failures' \in Nat /\ t \in TaskRecord
  BY <1>3, <1>4 DEF AccountInv, Typed, TaskRecord
<1> QED
  BY <1>2, <1>3, <1>4, <1>5, <1>8, <1>9, <1>10, GoesOn

\* What a purchase makes of an empty place.
LEMMA ThreeFields ==
  ASSUME NEW m, NEW e,
         NEW p, p = [side |-> "long", amount |-> 0, entry |-> 0, order |-> 0, fee |-> 0]
  PROVE  [p EXCEPT !.side = "long", !.amount = m, !.entry = e]
           = [side |-> "long", amount |-> m, entry |-> e, order |-> 0, fee |-> 0]
<1> DEFINE H == [side : {"long"}, amount : {0, m}, entry : {0, e}, order : {0}, fee : {0}]
           q == [p EXCEPT !.side = "long", !.amount = m, !.entry = e]
           r == [side |-> "long", amount |-> m, entry |-> e, order |-> 0, fee |-> 0]
<1>1. p \in H
  OBVIOUS
<1>2. q \in H /\ q.amount = m /\ q.entry = e
  BY <1>1
<1>3. r \in H /\ r.amount = m /\ r.entry = e
  OBVIOUS
<1> HIDE DEF q, r
<1>4. q.side = r.side /\ q.amount = r.amount /\ q.entry = r.entry /\ q.order = r.order /\ q.fee = r.fee
  BY <1>2, <1>3
<1>5. q = r
  BY <1>2, <1>3, <1>4
<1> QED
  BY <1>5 DEF q, r

\* A purchase or a short sale fills an empty place, in memory only.
LEMMA FillKeeps ==
  ASSUME AccountInv, NEW a \in Openers, Buy(a) \/ SellShort(a), task[a].symbol \notin crossed
  PROVE  AccountInv'
<1>1. PICK t : t = task[a]
  OBVIOUS
<1> DEFINE s == t.symbol
<1>2. a \in Tasks /\ t.pc = "priced" /\ t \in Priced
  BY <1>1, TaskKinds DEF Buy, SellShort, Openers, AccountInv
<1>3. s \in Symbols /\ t.amount \in Volume /\ t.way \in Ways
  BY <1>2 DEF Priced
<1>4. (\A b \in Tasks : b # a => ~On(b, s)) /\ Quiet(s) /\ s \notin DOMAIN positions
  <2>1. ~Unsettled(a) /\ task[a].pc # "idle"
    BY <1>1, <1>2 DEF Unsettled
  <2>2. s \notin DOMAIN positions
    BY <1>1, <1>2, AtWork DEF TaskInv, PricedInv
  <2> QED
    BY <1>1, <1>2, <2>1, <2>2, AtWork
<1>5. PICK price \in Prices : /\ Fill(a, price, TRUE)
                              /\ positions' = Put(positions, s, [Opened(t, 0, 0) EXCEPT !.entry = price])
  <2>1. CASE Buy(a)
    <3> DEFINE old == [side |-> "long", amount |-> 0, entry |-> 0, order |-> 0, fee |-> 0]
               n == t.amount
    <3>1. PICK price \in Prices : /\ Fill(a, price, TRUE)
            /\ positions' = Put(positions, s,
                 [old EXCEPT !.side = "long", !.amount = @ + n,
                             !.entry = (@ * old.amount + price * n) \div (old.amount + n)])
      BY <1>1, <1>4, <2>1 DEF Buy
    <3>2. price \in Nat /\ n \in Nat \ {0}
      BY <1>3, PaperAssumption DEF Volume
    <3>7. old.amount = 0 /\ old.entry = 0
      OBVIOUS
    <3>8. t.way = "buy"
      BY <1>1, <2>1 DEF Buy
    <3>9. 0 + n = n
      BY <3>2
    <3>3. old.amount = 0 /\ old.entry = 0 /\ 0 + n = n /\ t.way = "buy"
      BY <3>7, <3>8, <3>9
    <3>4. (old.entry * old.amount + price * n) \div (old.amount + n) = price
      BY <3>2, <3>3, Division
    <3>5. [old EXCEPT !.side = "long", !.amount = @ + n,
                      !.entry = (@ * old.amount + price * n) \div (old.amount + n)]
            = [side |-> "long", amount |-> n, entry |-> price, order |-> 0, fee |-> 0]
      <4> DEFINE e == (old.entry * old.amount + price * n) \div (old.amount + n)
                 m == old.amount + n
      <4>1. e = price /\ m = n
        BY <3>3, <3>4
      <4> HIDE DEF e, m
      <4>2. [old EXCEPT !.side = "long", !.amount = m, !.entry = e]
              = [side |-> "long", amount |-> m, entry |-> e, order |-> 0, fee |-> 0]
        BY ThreeFields
      <4>3. [old EXCEPT !.side = "long", !.amount = m, !.entry = e]
              = [side |-> "long", amount |-> n, entry |-> price, order |-> 0, fee |-> 0]
        BY <4>1, <4>2
      <4> QED
        BY <4>3 DEF e, m
    <3>6. [Opened(t, 0, 0) EXCEPT !.entry = price]
            = [side |-> "long", amount |-> n, entry |-> price, order |-> 0, fee |-> 0]
      BY <3>3 DEF Opened, SideOf
    <3> QED
      BY <3>1, <3>5, <3>6
  <2>2. CASE SellShort(a)
    <3>1. PICK price \in Prices : /\ Fill(a, price, TRUE)
            /\ positions' = Put(positions, s, [side |-> "short", amount |-> t.amount,
                                               entry |-> price, order |-> 0, fee |-> 0])
      BY <1>1, <2>2 DEF SellShort
    <3>2. [Opened(t, 0, 0) EXCEPT !.entry = price]
            = [side |-> "short", amount |-> t.amount, entry |-> price, order |-> 0, fee |-> 0]
      BY <1>1, <2>2 DEF SellShort, Opened, SideOf
    <3> QED
      BY <3>1, <3>2
  <2> QED
    BY <2>1, <2>2
<1> DEFINE u == [pc |-> "insert", symbol |-> s, way |-> t.way, amount |-> t.amount,
                 price |-> price, opening |-> TRUE]
           p == [Opened(t, 0, 0) EXCEPT !.entry = price]
<1>6. u \in Inserting /\ u.pc = "insert" /\ u.symbol = s /\ u.opening /\ p = Opened(u, 0, 0) /\ p \in Holding
  <2>1. price \in Nat
    BY PaperAssumption
  <2>2. u \in Inserting /\ u.pc = "insert" /\ u.symbol = s /\ u.opening
    BY <1>3, <2>1 DEF Inserting
  <2>3. p = Opened(u, 0, 0)
    BY DEF Opened
  <2>4. p \in Holding
    BY <1>3, <2>1 DEF Opened, Holding, Sides, SideOf
  <2> QED
    BY <2>2, <2>3, <2>4
<1>7. /\ UNCHANGED <<tracked, db, failures>> /\ positions' = Put(positions, s, p)
      /\ task' = [task EXCEPT ![a] = u]
  BY <1>1, <1>5 DEF Buy, SellShort, Fill
<1> HIDE DEF u, p
<1>8. /\ DOMAIN positions' = DOMAIN positions \cup {s} /\ positions'[s] = p
      /\ \A k \in DOMAIN positions : k # s => positions'[k] = positions[k]
  BY <1>7 DEF Put
<1>9. /\ task'[a] = u /\ \A b \in Tasks : b # a => task'[b] = task[b]
      /\ task' = [b \in Tasks |-> task'[b]] /\ \A b \in Tasks : task'[b] \in TaskRecord
  BY <1>2, <1>6, <1>7, TaskChanges DEF AccountInv, TaskRecord
<1>10. Typed'
  <2>1. \A k \in DOMAIN positions' : k \in Symbols /\ positions'[k] \in Holding
    BY <1>3, <1>6, <1>8 DEF AccountInv, Typed
  <2> QED
    BY <1>7, <1>9, <2>1, SameTables DEF AccountInv, Typed, TaskRecord
<1>11. \A k \in Symbols : k # s => SameAt(k)
  BY <1>7, <1>8, SameTables
<1>12. BookInv(s)'
  BY <1>2, <1>6, <1>9 DEF BookInv, Unsettled
<1>13. TrackInv(s)'
  <2>1. On(a, s)'
    BY <1>6, <1>9 DEF On
  <2> QED
    BY <2>1 DEF TrackInv, Opening
<1>14. TaskInv(a)'
  <2>1. Opens(orders', trades', s) = {}
    BY <1>4, <1>7, SameTables DEF Quiet
  <2>2. InsertInv(a, u)'
    BY <1>6, <1>8, <2>1 DEF InsertInv
  <2> QED
    BY <1>6, <1>9, <2>2 DEF TaskInv, InsertInv
<1>15. (task[a].pc # "idle" => task[a].symbol = s) /\ crossed' = crossed
  BY <1>1 DEF Buy, SellShort, marks
<1> QED
  BY <1>2, <1>3, <1>4, <1>6, <1>9, <1>10, <1>11, <1>12, <1>13, <1>14, <1>15, OneSymbol

LEMMA GiveUpKeeps ==
  ASSUME AccountInv, NEW a \in Openers, PriceUnknown(a) \/ RejectSell(a) \/ SellLong(a),
         task[a].symbol \notin crossed
  PROVE  AccountInv'
<1>1. PICK t : t = task[a]
  OBVIOUS
<1> DEFINE s == t.symbol
<1>2. a \in Tasks /\ t.pc = "priced"
  BY <1>1 DEF PriceUnknown, RejectSell, SellLong, Openers
<1>3. /\ s \in Symbols /\ \A b \in Tasks : b # a => ~On(b, s)
      /\ Quiet(s) /\ s \notin DOMAIN positions /\ task[a].pc # "idle" /\ task[a].symbol = s
  BY <1>1, <1>2, AtWork DEF Unsettled, TaskInv, PricedInv
<1>4. PriceUnknown(a)
  BY <1>1, <1>2, <1>3 DEF PriceUnknown, RejectSell, SellLong
<1>5. UNCHANGED <<memory, tracked, db, failures, crossed>> /\ task' = [task EXCEPT ![a] = Idle]
  BY <1>4 DEF PriceUnknown, marks
<1>6. Idle \in TaskRecord /\ Idle.pc = "idle" /\ failures' \in Nat
  BY <1>5 DEF TaskRecord, Idle, AccountInv, Typed
<1>7. task'[a] = Idle
  BY <1>2, <1>5, <1>6, TaskChanges DEF AccountInv
<1>8. TaskInv(a)' /\ TrackInv(s)'
  BY <1>3, <1>5, <1>6, <1>7 DEF TaskInv, TrackInv, memory
<1> QED
  BY <1>2, <1>3, <1>5, <1>6, <1>8, GoesOn

LEMMA Numbered ==
  ASSUME NEW t, NEW id, NEW fee
  PROVE  [Opened(t, 0, 0) EXCEPT !.order = id, !.fee = fee] = Opened(t, id, fee)
<1> DEFINE H == [side : {SideOf(t.way)}, amount : {t.amount}, entry : {t.price}, order : {0, id},
                 fee : {0, fee}]
           q == [Opened(t, 0, 0) EXCEPT !.order = id, !.fee = fee]
           r == Opened(t, id, fee)
<1>1. Opened(t, 0, 0) \in H
  BY DEF Opened
<1>2. q \in H /\ q.order = id /\ q.fee = fee
  BY <1>1
<1>3. r \in H /\ r.order = id /\ r.fee = fee
  BY DEF Opened
<1> HIDE DEF q, r
<1>4. q.side = r.side /\ q.amount = r.amount /\ q.entry = r.entry /\ q.order = r.order /\ q.fee = r.fee
  BY <1>2, <1>3
<1>5. q = r
  BY <1>2, <1>3, <1>4
<1> QED
  BY <1>5 DEF q, r

\* The row of an opening order: the database now knows the position that memory has had for a while.
LEMMA InsertOrderKeeps ==
  ASSUME AccountInv, NEW a \in Openers, InsertOrder(a), task[a].symbol \notin crossed
  PROVE  AccountInv'
<1>1. PICK t : t = task[a]
  OBVIOUS
<1>2. PICK id : id = Len(orders) + 1
  OBVIOUS
<1>3. PICK fee : fee = FeeRate * t.amount
  OBVIOUS
<1> DEFINE s == t.symbol
           r == [symbol |-> s, way |-> t.way, amount |-> t.amount, price |-> t.price]
           u == [pc |-> "register", symbol |-> s, way |-> t.way, amount |-> t.amount,
                 price |-> t.price, order |-> id]
           p == Opened(t, id, fee)
<1>4. a \in Tasks /\ t.pc = "insert" /\ t \in Inserting
  BY <1>1, TaskKinds DEF InsertOrder, Openers, AccountInv
<1>5. /\ s \in Symbols /\ t.amount \in Nat /\ t.amount > 0 /\ t.way \in Ways /\ t.price \in Nat
  <2> HIDE DEF r, u, p
  <2>1. s \in Symbols /\ t.amount \in Volume /\ t.way \in Ways /\ t.price \in Nat
    BY <1>4 DEF Inserting
  <2>2. t.amount \in Nat /\ t.amount > 0
    BY <2>1 DEF Volume
  <2> QED
    BY <2>1, <2>2
<1>6. /\ t.opening /\ s \in DOMAIN positions /\ positions[s] = Opened(t, 0, 0)
      /\ Opens(orders, trades, s) = {} /\ \A b \in Tasks : b # a => ~On(b, s)
  <2>1. InsertInv(a, t)
    BY <1>1, <1>4, AtWork DEF TaskInv
  <2>2. \A b \in Tasks : b # a => ~On(b, s)
    BY <1>1, <1>4, AtWork
  <2> QED
    BY <2>1, <2>2 DEF InsertInv
<1>7. /\ orders' = Append(orders, r) /\ UNCHANGED <<balance, tracked, trades, failures, crossed>>
      /\ task' = [task EXCEPT ![a] = u]
      /\ positions' = [positions EXCEPT ![s].order = id, ![s].fee = fee]
  BY <1>1, <1>2, <1>3, <1>5, <1>6 DEF InsertOrder, marks
<1>8. /\ u \in Registering /\ u.pc = "register" /\ p = Opened(u, u.order, fee)
      /\ p \in Holding /\ u.symbol = s /\ u.amount = t.amount /\ fee \in Int
      /\ p.order = id /\ p.side = SideOf(t.way) /\ p.entry = t.price /\ p.amount = t.amount
  <2>1. id \in Nat
    BY <1>2, SoundRows DEF AccountInv, Typed
  <2>2. fee \in Int
    BY <1>3, <1>5, PaperAssumption
  <2>3. u \in Registering /\ u.pc = "register" /\ u.symbol = s /\ u.amount = t.amount
    BY <1>5, <2>1 DEF Registering, Volume
  <2>4. p = Opened(u, u.order, fee)
    BY DEF Opened
  <2>5. p \in Holding
    BY <1>5, <2>1, <2>2 DEF Opened, Holding, Sides, SideOf, Volume
  <2>6. p.order = id /\ p.side = SideOf(t.way) /\ p.entry = t.price /\ p.amount = t.amount
    BY DEF Opened
  <2> QED
    BY <2>2, <2>3, <2>4, <2>5, <2>6
<1>9. /\ DOMAIN positions' = DOMAIN positions /\ positions'[s] = p
      /\ \A k \in DOMAIN positions : k # s => positions'[k] = positions[k]
  <2>1. positions'[s] = [Opened(t, 0, 0) EXCEPT !.order = id, !.fee = fee]
    BY <1>6, <1>7
  <2>2. [Opened(t, 0, 0) EXCEPT !.order = id, !.fee = fee] = p
    BY Numbered
  <2> QED
    BY <1>7, <2>1, <2>2
<1>10. /\ task'[a] = u /\ \A b \in Tasks : b # a => task'[b] = task[b]
       /\ task' = [b \in Tasks |-> task'[b]] /\ \A b \in Tasks : task'[b] \in TaskRecord
  <2> HIDE DEF u
  <2> QED
    BY <1>4, <1>7, <1>8, TaskChanges DEF AccountInv, TaskRecord
<1>11. r \in OrderRow /\ r.symbol = s /\ r.amount = t.amount /\ r.way = t.way /\ r.price = t.price
  BY <1>5 DEF OrderRow, Ways
<1> HIDE DEF r, u, p
<1>12. /\ Sound(orders', trades') /\ orders'[id] = r /\ Left(orders', trades', id) = r.amount
       /\ \A i \in 1..Len(orders) : /\ orders'[i] = orders[i]
                                    /\ Left(orders', trades', i) = Left(orders, trades, i)
       /\ \A k : Opens(orders', trades', k) = IF r.symbol = k /\ r.amount > 0
                                 THEN Opens(orders, trades, k) \cup {id} ELSE Opens(orders, trades, k)
  BY <1>2, <1>7, <1>11, OrderAdded DEF AccountInv, Typed
<1>13. Typed'
  <2>1. \A k \in DOMAIN positions' : k \in Symbols /\ positions'[k] \in Holding
    BY <1>5, <1>8, <1>9 DEF AccountInv, Typed
  <2> QED
    BY <1>7, <1>10, <1>12, <2>1 DEF AccountInv, Typed, TaskRecord
<1>14. \A k \in Symbols : k # s => SameAt(k)
  <2>1. \A k : Opens(orders, trades, k) \subseteq 1..Len(orders)
    BY SoundRows DEF AccountInv, Typed
  <2> QED
    BY <1>7, <1>9, <1>11, <1>12, <2>1 DEF SameAt
<1>15. BookInv(s)'
  <2>1. InBook(orders', trades', s, p, p.amount)
    BY <1>5, <1>6, <1>8, <1>11, <1>12 DEF InBook
  <2> QED
    BY <1>6, <1>9, <2>1 DEF BookInv, Quiet
<1>16. TrackInv(s)'
  <2>1. On(a, s)'
    BY <1>8, <1>10 DEF On
  <2> QED
    BY <2>1 DEF TrackInv, Opening
<1>17. TaskInv(a)'
  <2>1. RegisterInv(a, u)'
    BY <1>3, <1>6, <1>8, <1>9 DEF RegisterInv
  <2> QED
    BY <1>8, <1>10, <2>1 DEF TaskInv, RegisterInv
<1> QED
  BY <1>1, <1>4, <1>5, <1>6, <1>7, <1>8, <1>10, <1>13, <1>14, <1>15, <1>16, <1>17, OneSymbol

\* The loop's copy is made of the position, which nobody has touched since it was filled.
LEMMA RegisterKeeps ==
  ASSUME AccountInv, NEW a \in Openers, Register(a), task[a].symbol \notin crossed
  PROVE  AccountInv'
<1>1. PICK t : t = task[a]
  OBVIOUS
<1> DEFINE s == t.symbol
           q == Opened(t, t.order, FeeRate * t.amount)
<1>2. a \in Tasks /\ t.pc = "register" /\ t \in Registering
  BY <1>1, TaskKinds DEF Register, Openers, AccountInv
<1>3. /\ s \in Symbols /\ t.amount \in Nat /\ t.amount > 0 /\ t.way \in Ways /\ t.price \in Nat
      /\ t.order \in Nat
  BY <1>2 DEF Registering, Volume
<1>4. /\ s \in DOMAIN positions /\ positions[s] = q
      /\ Quiet(s) /\ \A b \in Tasks : b # a => ~On(b, s)
  <2>1. RegisterInv(a, t)
    BY <1>1, <1>2, AtWork DEF TaskInv
  <2>2. Quiet(s) /\ \A b \in Tasks : b # a => ~On(b, s)
    BY <1>1, <1>2, AtWork DEF Unsettled
  <2> QED
    BY <2>1, <2>2 DEF RegisterInv
<1>5. /\ UNCHANGED <<memory, db, failures, crossed>> /\ task' = [task EXCEPT ![a] = Idle]
      /\ tracked' = Put(tracked, s, q)
  <2>1. q.amount = t.amount /\ q.entry = t.price
    BY DEF Opened
  <2>2. tracked' = Put(tracked, s, [side |-> SideOf(t.way), amount |-> t.amount, entry |-> t.price,
                                    order |-> t.order, fee |-> FeeRate * t.amount])
    <3> DEFINE h == IF a = "signal" /\ s \in DOMAIN positions THEN positions[s]
                    ELSE [amount |-> t.amount, entry |-> t.price]
    <3>1. h.amount = t.amount /\ h.entry = t.price
      BY <1>4, <2>1
    <3>2. tracked' = Put(tracked, s, [side |-> SideOf(t.way), amount |-> h.amount, entry |-> h.entry,
                                      order |-> t.order, fee |-> FeeRate * t.amount])
      BY <1>1 DEF Register
    <3> HIDE DEF h
    <3> QED
      BY <3>1, <3>2
  <2>3. UNCHANGED <<memory, db, failures, crossed>> /\ task' = [task EXCEPT ![a] = Idle]
    BY DEF Register, marks
  <2> QED
    BY <2>2, <2>3 DEF Opened
<1>6. Idle \in TaskRecord /\ Idle.pc = "idle"
  BY DEF TaskRecord, Idle
<1>7. q \in Tracking
  BY <1>4 DEF AccountInv, Typed, Holding, Tracking, Volume
<1> HIDE DEF q
<1>8. /\ DOMAIN tracked' = DOMAIN tracked \cup {s} /\ tracked'[s] = q
      /\ \A k \in DOMAIN tracked : k # s => tracked'[k] = tracked[k]
  BY <1>5 DEF Put
<1>9. /\ task'[a] = Idle /\ \A b \in Tasks : b # a => task'[b] = task[b]
      /\ task' = [b \in Tasks |-> task'[b]] /\ \A b \in Tasks : task'[b] \in TaskRecord
  BY <1>2, <1>5, <1>6, TaskChanges DEF AccountInv
<1>10. Typed'
  <2>1. \A k \in DOMAIN tracked' : k \in Symbols /\ tracked'[k] \in Tracking
    BY <1>3, <1>7, <1>8 DEF AccountInv, Typed
  <2> QED
    BY <1>5, <1>9, <2>1, SameTables DEF AccountInv, Typed, TaskRecord, memory
<1>11. \A k \in Symbols : k # s => SameAt(k)
  BY <1>5, <1>8, SameTables DEF memory
<1>12. BookInv(s)'
  BY <1>4, <1>5, SameTables DEF BookInv, Quiet, memory
<1>13. TrackInv(s)'
  BY <1>4, <1>5, <1>8 DEF TrackInv, Copies, memory
<1>14. TaskInv(a)'
  BY <1>6, <1>9 DEF TaskInv
<1> QED
  BY <1>1, <1>2, <1>3, <1>4, <1>5, <1>6, <1>9, <1>10, <1>11, <1>12, <1>13, <1>14, OneSymbol

-----------------------------------------------------------------------------
(* Closing.                                                                *)

\* While a close is under way on a symbol nobody opens it, and the loop's copy is of the position
\* until the loop settles it.
LEMMA CopyHolds ==
  ASSUME AccountInv, NEW s \in Symbols, s \notin crossed, s \in DOMAIN positions,
         \A b \in Openers : ~On(b, s), ~Settling(s)
  PROVE  s \in DOMAIN tracked /\ Copies(tracked[s], positions[s])
BY DEF AccountInv, SymbolInv, TrackInv, Opening

LEMMA CloseStarts ==
  ASSUME AccountInv, NEW a \in Closers, NEW s \in Symbols, Starts(a, s), s \notin crossed',
         s \in DOMAIN positions, UNCHANGED <<memory, db, failures>>,
         DOMAIN tracked' = DOMAIN tracked, \A k \in DOMAIN tracked : tracked'[k] = tracked[k],
         NEW p, p.side = positions[s].side, p.entry = positions[s].entry, p.order = positions[s].order,
         NEW amount \in Volume, NEW fee \in Int, NEW partial \in BOOLEAN,
         positions[s].amount = IF partial THEN 2 * amount ELSE amount, partial => a = "loop",
         StartClose(a, s, p, amount, fee, partial)
  PROVE  AccountInv'
<1>1. PICK price \in Prices :
        task' = [task EXCEPT ![a] = [pc |-> "record", symbol |-> s, side |-> p.side,
                                     entry |-> p.entry, amount |-> amount, fee |-> fee,
                                     order |-> p.order, price |-> price,
                                     partial |-> partial]]
  BY DEF StartClose
<1> DEFINE t == [pc |-> "record", symbol |-> s, side |-> p.side,
                 entry |-> p.entry, amount |-> amount, fee |-> fee,
                 order |-> p.order, price |-> price, partial |-> partial]
<1>2. a \in Tasks /\ price \in Nat /\ p.side \in Sides /\ p.entry \in Int /\ p.order \in Nat
  BY PaperAssumption DEF Closers, AccountInv, Typed, Holding
<1>3. t \in Closing
  BY <1>2 DEF Closing
<1>4. /\ t.pc = "record" /\ t.symbol = s /\ t.side = p.side /\ t.entry = p.entry /\ t.order = p.order
      /\ t.amount = amount /\ t.partial = partial
  OBVIOUS
<1> HIDE DEF t
<1>5. task' = [task EXCEPT ![a] = t]
  BY <1>1 DEF t
<1>6. /\ (\A b \in Tasks : ~On(b, s)) /\ Quiet(s) /\ task[a].pc = "idle"
      /\ s \notin crossed /\ crossed' = crossed
  BY <1>2, AtStart
<1>7. task'[a] = t
  BY <1>2, <1>3, <1>5, TaskChanges DEF AccountInv, TaskRecord
<1>8. TaskInv(a)'
  <2>1. CloseInv(a, t)
    BY <1>4 DEF CloseInv, Concerns
  <2>2. CloseInv(a, t)'
    BY <2>1 DEF CloseInv, memory
  <2> QED
    BY <1>4, <1>7, <2>2 DEF TaskInv, CloseInv
<1>9. TrackInv(s)'
  <2>1. s \in DOMAIN tracked /\ Copies(tracked[s], positions[s])
    BY <1>6, CopyHolds DEF Settling, Openers
  <2> QED
    BY <2>1 DEF TrackInv, memory, Copies
<1>10. failures' \in Nat /\ t \in TaskRecord
  BY <1>3 DEF AccountInv, Typed, TaskRecord
<1> QED
  BY <1>2, <1>4, <1>5, <1>6, <1>8, <1>9, <1>10, GoesOn

LEMMA LargerOfSame == ASSUME NEW x \in Int PROVE Max({x, x}) = x
BY DEF Max

LEMMA StartsKeep ==
  ASSUME AccountInv, NEW s \in Symbols, LoopStartsClose(s) \/ ApiStartsClose(s), s \notin crossed'
  PROVE  AccountInv'
<1>1. CASE LoopStartsClose(s)
  <2>1. /\ "loop" \in Closers /\ Starts("loop", s) /\ s \in DOMAIN tracked /\ s \in DOMAIN positions
        /\ UNCHANGED <<memory, db, failures>>
    BY <1>1 DEF LoopStartsClose, Closers
  <2>2. Copies(tracked[s], positions[s])
    <3>1. (\A b \in Tasks : ~On(b, s)) /\ s \notin crossed
      BY <2>1, AtStart DEF Closers
    <3> QED
      BY <2>1, <3>1, CopyHolds DEF Settling, Openers
  <2>3. PICK q : q = tracked[s]
    OBVIOUS
  <2>4. q \in Holding /\ q.amount \in Nat /\ q.amount > 0 /\ q.fee \in Int
    <3>1. q \in Tracking /\ positions[s] \in Holding /\ q.amount = positions[s].amount
      BY <2>1, <2>2, <2>3 DEF AccountInv, Typed, Copies
    <3>2. q.amount \in Volume /\ q.fee \in Int
      BY <3>1 DEF Tracking, Holding
    <3> QED
      BY <3>1, <3>2 DEF Tracking, Holding, Volume
  <2> DEFINE p == [q EXCEPT !.amount = Max({@, positions[s].amount})]
  <2>5. p = q
    <3>1. Max({q.amount, positions[s].amount}) = q.amount
      BY <2>2, <2>3, <2>4, LargerOfSame DEF Copies
    <3>2. [q EXCEPT !.amount = q.amount] = q
      BY <2>4 DEF Holding
    <3> QED
      BY <3>1, <3>2
  <2>6. /\ tracked' = [tracked EXCEPT ![s] = p]
        /\ \/ StartClose("loop", s, p, p.amount, p.fee, FALSE)
           \/ /\ p.amount % 2 = 0
              /\ StartClose("loop", s, p, p.amount \div 2, p.fee \div 2, TRUE)
    BY <1>1, <2>3 DEF LoopStartsClose
  <2> HIDE DEF p
  <2>7. DOMAIN tracked' = DOMAIN tracked /\ \A k \in DOMAIN tracked : tracked'[k] = tracked[k]
    BY <2>1, <2>3, <2>5, <2>6
  <2>8. q.side = positions[s].side /\ q.entry = positions[s].entry /\ q.order = positions[s].order
        /\ q.amount = positions[s].amount
    BY <2>2, <2>3 DEF Copies
  <2>9. CASE StartClose("loop", s, q, q.amount, q.fee, FALSE)
    <3>1. q.amount \in Volume /\ positions[s].amount = IF FALSE THEN 2 * q.amount ELSE q.amount
      BY <2>4, <2>8 DEF Volume
    <3> QED
      BY <2>1, <2>4, <2>7, <2>8, <2>9, <3>1, CloseStarts
  <2>10. CASE q.amount % 2 = 0 /\ StartClose("loop", s, q, q.amount \div 2, q.fee \div 2, TRUE)
    <3>1. q.amount \div 2 \in Volume /\ q.fee \div 2 \in Int /\ q.amount = 2 * (q.amount \div 2)
      BY <2>4, <2>10 DEF Volume
    <3>2. positions[s].amount = IF TRUE THEN 2 * (q.amount \div 2) ELSE q.amount \div 2
      BY <2>8, <3>1
    <3> QED
      BY <2>1, <2>7, <2>8, <2>10, <3>1, <3>2, CloseStarts
  <2> QED
    BY <2>5, <2>6, <2>9, <2>10
<1>2. CASE ApiStartsClose(s)
  <2>1. PICK q : q = positions[s]
    OBVIOUS
  <2>2. /\ "api" \in Closers /\ Starts("api", s) /\ s \in DOMAIN positions
        /\ UNCHANGED <<memory, tracked, db, failures>>
        /\ StartClose("api", s, q, q.amount, q.fee, FALSE)
    BY <1>2, <2>1 DEF ApiStartsClose, Closers
  <2>3. q.amount \in Volume /\ q.fee \in Int
    BY <2>1, <2>2 DEF AccountInv, Typed, Holding
  <2>4. positions[s].amount = IF FALSE THEN 2 * q.amount ELSE q.amount
    BY <2>1
  <2> QED
    BY <2>1, <2>2, <2>3, <2>4, CloseStarts
<1> QED
  BY <1>1, <1>2

\* What a close under way knows of its symbol.
LEMMA ClosingTask ==
  ASSUME AccountInv, NEW a \in Closers, NEW t, t = task[a], t.pc \in {"record", "apply"},
         t.symbol \notin crossed
  PROVE  /\ a \in Tasks /\ t \in Closing /\ t.symbol \in Symbols
         /\ t.amount \in Nat /\ t.amount > 0 /\ t.partial \in BOOLEAN
         /\ CloseInv(a, t) /\ (t.pc = "apply" => ApplyInv(t))
         /\ \A b \in Tasks : b # a => ~On(b, t.symbol)
         /\ t.pc = "record" => Quiet(t.symbol)
         /\ t.symbol \in DOMAIN positions /\ positions[t.symbol] \in Holding
         /\ t.symbol \in DOMAIN tracked /\ Copies(tracked[t.symbol], positions[t.symbol])
<1>1. a \in Tasks /\ t \in Closing
  BY TaskKinds DEF Closers, AccountInv
<1>2. t.symbol \in Symbols /\ t.amount \in Nat /\ t.amount > 0 /\ t.partial \in BOOLEAN
  BY <1>1 DEF Closing, Volume
<1>3. CloseInv(a, t) /\ (t.pc = "apply" => ApplyInv(t))
  BY <1>1, AtWork DEF TaskInv
<1>4. /\ \A b \in Tasks : b # a => ~On(b, t.symbol)
      /\ t.pc = "record" => Quiet(t.symbol)
  BY <1>1, AtWork DEF Unsettled
<1>5. t.symbol \in DOMAIN positions /\ positions[t.symbol] \in Holding
  BY <1>3 DEF CloseInv, AccountInv, Typed
<1>6. a \notin Openers
  BY DEF Closers, Openers
<1>7. ~Settling(t.symbol)
  BY <1>4 DEF Settling
<1>8. t.symbol \in DOMAIN tracked /\ Copies(tracked[t.symbol], positions[t.symbol])
  BY <1>2, <1>4, <1>5, <1>6, <1>7, CopyHolds DEF Openers
<1> QED
  BY <1>1, <1>2, <1>3, <1>4, <1>5, <1>8

LEMMA RecordFailsKeeps ==
  ASSUME AccountInv, NEW a \in Closers, RecordFails(a), task[a].symbol \notin crossed
  PROVE  AccountInv'
<1>1. PICK t : t = task[a]
  OBVIOUS
<1> DEFINE s == t.symbol
<1>2. /\ t.pc = "record" /\ UNCHANGED <<memory, tracked, db, crossed>>
      /\ task' = [task EXCEPT ![a] = Idle]
  BY <1>1 DEF RecordFails, marks
<1>3. failures' \in Nat
  BY DEF RecordFails, AccountInv, Typed
<1>4. /\ a \in Tasks /\ s \in Symbols /\ \A b \in Tasks : b # a => ~On(b, s)
      /\ Quiet(s) /\ s \in DOMAIN tracked /\ Copies(tracked[s], positions[s])
  BY <1>1, <1>2, ClosingTask
<1>5. Idle \in TaskRecord /\ Idle.pc = "idle"
  BY DEF TaskRecord, Idle
<1>6. task'[a] = Idle
  BY <1>2, <1>4, <1>5, TaskChanges DEF AccountInv
<1>7. TaskInv(a)'
  BY <1>5, <1>6 DEF TaskInv
<1>8. TrackInv(s)'
  BY <1>2, <1>4 DEF TrackInv, memory, Copies
<1>9. task[a].symbol = s
  BY <1>1
<1> QED
  BY <1>2, <1>3, <1>4, <1>5, <1>7, <1>8, <1>9, GoesOn

\* The closing order and the trade take their volume off the order of the position.
LEMMA RecordCloseKeeps ==
  ASSUME AccountInv, NEW a \in Closers, RecordClose(a), task[a].symbol \notin crossed
  PROVE  AccountInv'
<1>1. PICK t : t = task[a]
  OBVIOUS
<1>2. PICK p : p = positions[t.symbol]
  OBVIOUS
<1>3. PICK pnl : pnl = PnlOf(t)
  OBVIOUS
<1> DEFINE s == t.symbol
           r == [symbol |-> s, way |-> IF t.side = "long" THEN "sell" ELSE "buy",
                 amount |-> t.amount, price |-> t.price]
           x == [open |-> t.order, close |-> Len(orders) + 1, amount |-> t.amount, pnl |-> pnl]
           u == [t EXCEPT !.pc = "apply"]
<1>4. t.pc = "record"
  BY <1>1 DEF RecordClose
<1>5. /\ a \in Tasks /\ t \in Closing /\ s \in Symbols
      /\ t.amount \in Nat /\ t.amount > 0 /\ t.partial \in BOOLEAN
      /\ CloseInv(a, t) /\ \A b \in Tasks : b # a => ~On(b, s)
      /\ Quiet(s) /\ s \in DOMAIN positions /\ p \in Holding
      /\ s \in DOMAIN tracked /\ Copies(tracked[s], p)
  BY <1>1, <1>2, <1>4, ClosingTask
<1>6. /\ t.side = p.side /\ t.entry = p.entry /\ t.order = p.order
      /\ p.amount = IF t.partial THEN 2 * t.amount ELSE t.amount
  BY <1>2, <1>5 DEF CloseInv, Concerns
<1>7. InBook(orders, trades, s, p, p.amount)
  BY <1>2, <1>5 DEF Quiet
<1>8. PICK o : o = p.order
  OBVIOUS
<1>9. /\ Opens(orders, trades, s) = {o} /\ o \in 1..Len(orders)
      /\ Left(orders, trades, o) = p.amount /\ Len(orders) \in Nat
  BY <1>7, <1>8, SoundRows DEF InBook, AccountInv, Typed
<1>10. pnl \in Int
  <2>1. t.price \in Int /\ t.entry \in Int /\ t.fee \in Int
    BY <1>5 DEF Closing
  <2> HIDE DEF r, x, u
  <2> QED
    BY <1>3, <1>5, <2>1, PaperAssumption DEF PnlOf
<1>11. /\ r \in OrderRow /\ x \in TradeRow
       /\ x.open = o /\ x.close = Len(orders) + 1 /\ x.amount = t.amount
  <2>1. r \in OrderRow
    BY <1>5 DEF OrderRow, Closing
  <2>2. x \in TradeRow
    BY <1>5, <1>6, <1>8, <1>9, <1>10 DEF TradeRow
  <2> QED
    BY <1>6, <1>8, <2>1, <2>2
<1>12. /\ u \in Closing /\ u.pc = "apply" /\ u.symbol = s /\ u.amount = t.amount
       /\ u.partial = t.partial /\ u.side = t.side /\ u.entry = t.entry /\ u.order = t.order
  BY <1>5 DEF Closing
<1>13. /\ orders' = Append(orders, r) /\ trades' = trades \cup {x}
       /\ UNCHANGED <<memory, tracked, failures, crossed>> /\ task' = [task EXCEPT ![a] = u]
  BY <1>1, <1>3 DEF RecordClose
<1> HIDE DEF r, x, u
<1>14. /\ task'[a] = u /\ \A b \in Tasks : b # a => task'[b] = task[b]
       /\ task' = [b \in Tasks |-> task'[b]] /\ \A b \in Tasks : task'[b] \in TaskRecord
  BY <1>5, <1>12, <1>13, TaskChanges DEF AccountInv, TaskRecord
<1>15. p.amount = t.amount + (IF t.partial THEN t.amount ELSE 0)
  BY <1>5, <1>6
<1>16. /\ Sound(orders', trades')
       /\ \A id \in 1..Len(orders) : orders'[id] = orders[id]
       /\ Left(orders', trades', o) = Left(orders, trades, o) - t.amount
       /\ \A id \in 1..Len(orders) : id # o => Left(orders', trades', id) = Left(orders, trades, id)
       /\ \A k : \A id : id \in Opens(orders', trades', k)
                           <=> id \in Opens(orders, trades, k) /\ Left(orders', trades', id) > 0
  <2>1. Sound(orders, trades)
    BY DEF AccountInv, Typed
  <2>2. o \in 0..Len(orders) /\ o # 0
    BY <1>9
  <2>3. x.open = o /\ x.amount = t.amount /\ x.close = Len(orders) + 1 /\ x \in TradeRow /\ r \in OrderRow
    BY <1>11
  <2>4. orders' = Append(orders, r) /\ trades' = trades \cup {x}
    BY <1>13
  <2>5. Reduced(orders, trades, Append(orders, r), trades \cup {x}, o, x.amount)
    BY <2>1, <2>2, <2>3, CloseAdded
  <2>6. Reduced(orders, trades, orders', trades', o, t.amount)
    BY <2>3, <2>4, <2>5
  <2> QED
    BY <2>2, <2>6 DEF Reduced
<1>17. Typed'
  BY <1>13, <1>14, <1>16 DEF AccountInv, Typed, TaskRecord, memory
<1>18. \A k \in Symbols : k # s => SameAt(k)
  <2>1. ASSUME NEW k \in Symbols, k # s PROVE SameAt(k)
    <3>1. o \notin Opens(orders, trades, k)
      BY <1>9, <2>1 DEF Opens
    <3>2. \A id \in Opens(orders, trades, k) : id \in 1..Len(orders) /\ Left(orders, trades, id) > 0
      BY SoundRows DEF Opens, AccountInv, Typed
    <3>3. \A id \in Opens(orders, trades, k) :
            orders'[id] = orders[id] /\ Left(orders', trades', id) = Left(orders, trades, id)
      BY <1>16, <3>1, <3>2
    <3>4. Opens(orders', trades', k) = Opens(orders, trades, k)
      <4>1. \A id : id \in Opens(orders', trades', k) <=> id \in Opens(orders, trades, k)
        BY <1>16, <3>2, <3>3
      <4> QED
        BY <4>1 DEF Opens
    <3> QED
      BY <1>13, <3>3, <3>4 DEF SameAt, memory
  <2> QED
    BY <2>1
<1>19. BookInv(s)'
  BY <1>5, <1>12, <1>14 DEF BookInv, Unsettled
<1>20. TrackInv(s)'
  BY <1>2, <1>5, <1>13 DEF TrackInv, memory, Copies
<1>21. TaskInv(a)'
  <2>1. CloseInv(a, u)'
    BY <1>2, <1>5, <1>6, <1>12, <1>13 DEF CloseInv, Concerns, memory
  <2>2. Left(orders', trades', o) = IF t.partial THEN t.amount ELSE 0
    BY <1>5, <1>9, <1>15, <1>16
  <2>3. t.partial => InBook(orders', trades', s, p, t.amount)
    BY <1>5, <1>7, <1>8, <1>9, <1>16, <2>2 DEF InBook
  <2>4. ~t.partial => Opens(orders', trades', s) = {}
    BY <1>9, <1>16, <2>2
  <2>5. ApplyInv(u)'
    BY <1>2, <1>12, <1>13, <2>3, <2>4 DEF ApplyInv, memory
  <2> QED
    BY <1>12, <1>14, <2>1, <2>5 DEF TaskInv, CloseInv, ApplyInv
<1>22. task[a].symbol = s
  BY <1>1
<1> QED
  BY <1>5, <1>12, <1>13, <1>14, <1>17, <1>18, <1>19, <1>20, <1>21, <1>22, OneSymbol

\* Memory follows: the position is gone, or half of it is.
LEMMA ApplyCloseKeeps ==
  ASSUME AccountInv, NEW a \in Closers, ApplyClose(a), task[a].symbol \notin crossed
  PROVE  AccountInv'
<1>1. PICK t : t = task[a]
  OBVIOUS
<1>2. PICK p : p = positions[t.symbol]
  OBVIOUS
<1> DEFINE s == t.symbol
           q == [p EXCEPT !.amount = t.amount]
           u == IF a = "loop" THEN [t EXCEPT !.pc = "forget"] ELSE Idle
<1>3. t.pc = "apply"
  BY <1>1 DEF ApplyClose
<1>4. /\ a \in Tasks /\ t \in Closing /\ s \in Symbols
      /\ t.amount \in Nat /\ t.amount > 0 /\ t.partial \in BOOLEAN
      /\ CloseInv(a, t) /\ ApplyInv(t) /\ \A b \in Tasks : b # a => ~On(b, s)
      /\ s \in DOMAIN positions /\ p \in Holding
      /\ s \in DOMAIN tracked /\ Copies(tracked[s], p)
  BY <1>1, <1>2, <1>3, ClosingTask
<1>5. /\ t.side = p.side /\ t.entry = p.entry /\ t.order = p.order /\ (t.partial => a = "loop")
      /\ p.amount = IF t.partial THEN 2 * t.amount ELSE t.amount
  BY <1>2, <1>4 DEF CloseInv, Concerns
<1>6. /\ UNCHANGED <<tracked, db, failures, crossed>> /\ task' = [task EXCEPT ![a] = u]
      /\ positions' = IF p.amount <= t.amount THEN Without(positions, s)
                      ELSE [positions EXCEPT ![s].amount = @ - t.amount]
  BY <1>1, <1>2, <1>4 DEF ApplyClose, marks
<1>7. /\ q \in Holding /\ q.side = p.side /\ q.entry = p.entry /\ q.order = p.order
      /\ q.amount = t.amount
  BY <1>4 DEF Holding, Volume
<1>8. /\ t.partial => DOMAIN positions' = DOMAIN positions /\ positions'[s] = q
      /\ ~t.partial => DOMAIN positions' = DOMAIN positions \ {s}
      /\ \A k \in DOMAIN positions' : k # s => k \in DOMAIN positions /\ positions'[k] = positions[k]
  <2>1. CASE t.partial
    <3>1. p.amount - t.amount = t.amount /\ ~(p.amount <= t.amount)
      BY <1>4, <1>5, <2>1
    <3>2. positions' = [positions EXCEPT ![s].amount = @ - t.amount]
      BY <1>6, <3>1
    <3>3. positions'[s] = q
      BY <1>2, <1>4, <3>1, <3>2
    <3> HIDE DEF q
    <3> QED
      BY <2>1, <3>2, <3>3
  <2>2. CASE ~t.partial
    <3>1. positions' = Without(positions, s)
      BY <1>4, <1>5, <1>6, <2>2
    <3> HIDE DEF q
    <3> QED
      BY <2>2, <3>1 DEF Without
  <2> QED
    BY <2>1, <2>2
<1>9. /\ u \in TaskRecord /\ (a = "loop" => u.pc = "forget" /\ u.symbol = s /\ u.amount = t.amount
                                       /\ u.partial = t.partial /\ u.order = t.order)
      /\ (a # "loop" => u = Idle) /\ u.pc \in {"forget", "idle"}
      /\ (u.pc # "idle" => u.symbol = s)
  BY <1>4 DEF Closing, TaskRecord, Idle
<1> HIDE DEF q, u
<1>10. /\ task'[a] = u /\ \A b \in Tasks : b # a => task'[b] = task[b]
       /\ task' = [b \in Tasks |-> task'[b]] /\ \A b \in Tasks : task'[b] \in TaskRecord
  BY <1>4, <1>6, <1>9, TaskChanges DEF AccountInv
<1>11. Typed'
  <2>1. \A k \in DOMAIN positions' : k \in Symbols /\ positions'[k] \in Holding
    BY <1>4, <1>7, <1>8 DEF AccountInv, Typed
  <2> QED
    BY <1>6, <1>10, <2>1, SameTables DEF AccountInv, Typed, TaskRecord
<1>12. \A k \in Symbols : k # s => SameAt(k)
  BY <1>6, <1>8, SameTables
<1>13. BookInv(s)'
  <2>1. CASE t.partial
    <3>1. InBook(orders, trades, s, p, t.amount)
      BY <1>2, <1>4, <2>1 DEF ApplyInv
    <3>2. InBook(orders, trades, s, q, q.amount)
      BY <1>7, <3>1 DEF InBook
    <3>3. InBook(orders', trades', s, q, q.amount)
      BY <1>6, <3>2, SameTables
    <3> QED
      BY <1>4, <1>8, <2>1, <3>3 DEF BookInv, Quiet
  <2>2. CASE ~t.partial
    <3>1. Opens(orders', trades', s) = {}
      BY <1>4, <1>6, <2>2, SameTables DEF ApplyInv
    <3> QED
      BY <1>8, <2>2, <3>1 DEF BookInv, Quiet
  <2> QED
    BY <2>1, <2>2
<1>14. TrackInv(s)'
  <2>1. CASE t.partial
    <3>1. On(a, s)' /\ task'[a].pc = "forget"
      BY <1>5, <1>9, <1>10, <2>1 DEF On
    <3>2. Settling(s)'
      BY <1>4, <3>1 DEF Settling
    <3> QED
      BY <1>4, <1>6, <3>2 DEF TrackInv
  <2>2. CASE ~t.partial
    BY <1>8, <2>2 DEF TrackInv
  <2> QED
    BY <2>1, <2>2
<1>15. TaskInv(a)'
  <2>1. CASE a = "loop"
    <3>1. ~t.partial => s \notin DOMAIN positions'
      BY <1>8
    <3>2. t.partial => tracked'[s].amount = positions'[s].amount + t.amount
      <4>1. ASSUME t.partial PROVE tracked'[s].amount = positions'[s].amount + t.amount
        <5>1. tracked'[s].amount = p.amount /\ positions'[s].amount = t.amount
          BY <1>4, <1>6, <1>7, <1>8, <4>1 DEF Copies
        <5> QED
          BY <1>4, <1>5, <4>1, <5>1
      <4> QED
        BY <4>1
    <3>4. u.symbol = s /\ u.amount = t.amount /\ u.partial = t.partial /\ u.order = t.order
      BY <1>9, <2>1
    <3>5. t.partial => /\ s \in DOMAIN positions' /\ s \in DOMAIN tracked'
                       /\ t.order = positions'[s].order
                       /\ tracked'[s].side = positions'[s].side
                       /\ tracked'[s].entry = positions'[s].entry
                       /\ tracked'[s].order = positions'[s].order
      BY <1>4, <1>5, <1>6, <1>7, <1>8 DEF Copies
    <3>3. ForgetInv(a, u)'
      BY <2>1, <3>1, <3>2, <3>4, <3>5 DEF ForgetInv
    <3> QED
      BY <1>9, <1>10, <2>1, <3>3 DEF TaskInv, ForgetInv
  <2>2. CASE a # "loop"
    BY <1>9, <1>10, <2>2 DEF TaskInv, Idle
  <2> QED
    BY <2>1, <2>2
<1>16. task[a].symbol = s
  BY <1>1
<1> QED
  BY <1>4, <1>6, <1>9, <1>10, <1>11, <1>12, <1>13, <1>14, <1>15, <1>16, OneSymbol

\* The loop's copy follows last.
LEMMA LoopSettlesKeeps ==
  ASSUME AccountInv, LoopSettles, task["loop"].symbol \notin crossed
  PROVE  AccountInv'
<1>0. PICK a : a = "loop"
  OBVIOUS
<1>1. PICK t : t = task[a]
  OBVIOUS
<1>2. PICK q : q = tracked[t.symbol]
  OBVIOUS
<1> DEFINE s == t.symbol
           v == [q EXCEPT !.amount = @ - t.amount, !.fee = @ - t.fee]
<1>3. a \in Tasks /\ t.pc = "forget" /\ UNCHANGED <<memory, db, failures, crossed>>
      /\ task' = [task EXCEPT ![a] = Idle]
  BY <1>0, <1>1 DEF LoopSettles, marks
<1>4. /\ t \in Closing /\ s \in Symbols /\ \A b \in Tasks : b # a => ~On(b, s)
      /\ Quiet(s) /\ ForgetInv(a, t)
  <2>1. t \in Closing
    BY <1>1, <1>3, TaskKinds DEF AccountInv
  <2>2. s \in Symbols /\ Quiet(s) /\ \A b \in Tasks : b # a => ~On(b, s)
    BY <1>0, <1>1, <1>3, AtWork DEF Unsettled
  <2>3. ForgetInv(a, t)
    BY <1>0, <1>1, <1>3, AtWork DEF TaskInv
  <2> QED
    BY <2>1, <2>2, <2>3
<1>5. /\ ~t.partial => tracked' = Without(tracked, s)
      /\ t.partial => tracked' = [tracked EXCEPT ![s].amount = @ - t.amount, ![s].fee = @ - t.fee]
  BY <1>0, <1>1, <1>4 DEF LoopSettles, ForgetInv
<1>6. /\ ~t.partial => DOMAIN tracked' = DOMAIN tracked \ {s}
      /\ t.partial => DOMAIN tracked' = DOMAIN tracked /\ tracked'[s] = v
      /\ \A k \in DOMAIN tracked' : k # s => tracked'[k] = tracked[k]
  <2>1. CASE ~t.partial
    BY <1>5, <2>1 DEF Without
  <2>2. CASE t.partial
    <3>1. s \in DOMAIN tracked
      BY <1>4, <2>2 DEF ForgetInv
    <3>2. tracked'[s] = v
      BY <1>2, <1>5, <2>2, <3>1
    <3> HIDE DEF v
    <3> QED
      BY <1>5, <2>2, <3>2
  <2> QED
    BY <2>1, <2>2
<1>7. t.partial => /\ v \in Tracking /\ s \in DOMAIN positions /\ s \in DOMAIN tracked
                   /\ Copies(v, positions[s])
  <2> SUFFICES ASSUME t.partial
               PROVE  /\ v \in Tracking /\ s \in DOMAIN positions /\ s \in DOMAIN tracked
                      /\ Copies(v, positions[s])
    OBVIOUS
  <2>1. PICK p : p = positions[s]
    OBVIOUS
  <2>2. /\ s \in DOMAIN positions /\ s \in DOMAIN tracked
        /\ q.side = p.side /\ q.entry = p.entry /\ q.order = p.order
        /\ q.amount = p.amount + t.amount
    BY <1>2, <1>4, <2>1 DEF ForgetInv
  <2>3. q \in Tracking /\ p \in Holding
    BY <1>2, <2>1, <2>2 DEF AccountInv, Typed
  <2>4. p.amount \in Volume /\ p.amount \in Int /\ t.amount \in Int /\ t.fee \in Int /\ q.fee \in Int
    BY <1>4, <2>3 DEF Holding, Tracking, Closing, Volume
  <2> DEFINE m == q.amount - t.amount
             f == q.fee - t.fee
  <2>5. m = p.amount /\ m \in Int /\ f \in Int
    BY <2>2, <2>4
  <2> HIDE DEF m, f
  <2>6. LET w == [q EXCEPT !.amount = m, !.fee = f]
        IN /\ w \in Tracking /\ w.side = q.side /\ w.entry = q.entry /\ w.order = q.order
           /\ w.amount = m
    BY <2>3, <2>5 DEF Tracking
  <2>7. /\ v \in Tracking /\ v.side = q.side /\ v.entry = q.entry /\ v.order = q.order
        /\ v.amount = m
    BY <2>6 DEF m, f
  <2> HIDE DEF v
  <2> QED
    BY <2>1, <2>2, <2>5, <2>7 DEF Copies
<1>8. Idle \in TaskRecord /\ Idle.pc = "idle"
  BY DEF TaskRecord, Idle
<1> HIDE DEF v
<1>9. /\ task'[a] = Idle /\ \A b \in Tasks : b # a => task'[b] = task[b]
      /\ task' = [b \in Tasks |-> task'[b]] /\ \A b \in Tasks : task'[b] \in TaskRecord
  BY <1>3, <1>8, TaskChanges DEF AccountInv
<1>10. t.partial \in BOOLEAN
  BY <1>4 DEF Closing
<1>11. Typed'
  <2>1. \A k \in DOMAIN tracked' : k \in Symbols /\ tracked'[k] \in Tracking
    BY <1>4, <1>6, <1>7, <1>10 DEF AccountInv, Typed
  <2> QED
    BY <1>3, <1>9, <2>1, SameTables DEF AccountInv, Typed, TaskRecord, memory
<1>12. \A k \in Symbols : k # s => SameAt(k)
  <2>1. \A k : k # s => (k \in DOMAIN tracked' <=> k \in DOMAIN tracked)
    BY <1>6, <1>10
  <2> QED
    BY <1>3, <1>6, <2>1, SameTables DEF memory
<1>13. BookInv(s)'
  BY <1>3, <1>4, SameTables DEF BookInv, Quiet, memory
<1>14. TrackInv(s)'
  <2>1. CASE t.partial
    BY <1>3, <1>6, <1>7, <2>1 DEF TrackInv, memory
  <2>2. CASE ~t.partial
    BY <1>3, <1>4, <2>2 DEF TrackInv, memory, ForgetInv
  <2> QED
    BY <2>1, <2>2
<1>15. TaskInv(a)'
  BY <1>8, <1>9 DEF TaskInv
<1>16. task[a].symbol = s
  BY <1>1
<1> QED
  BY <1>3, <1>4, <1>8, <1>9, <1>11, <1>12, <1>13, <1>14, <1>15, <1>16, OneSymbol

LEMMA LoopDropsKeeps ==
  ASSUME AccountInv, NEW s \in Symbols, LoopDrops(s)
  PROVE  AccountInv'
<1>1. /\ "loop" \in Tasks /\ task["loop"].pc = "idle" /\ s \notin DOMAIN positions
      /\ tracked' = Without(tracked, s) /\ UNCHANGED <<memory, db, task, failures, crossed>>
  BY DEF LoopDrops, marks
<1>2. DOMAIN tracked' = DOMAIN tracked \ {s} /\ \A k \in DOMAIN tracked' : tracked'[k] = tracked[k]
  BY <1>1 DEF Without
<1>3. Typed'
  BY <1>1, <1>2, SameTables DEF AccountInv, Typed, memory
<1>4. \A k \in Symbols : k # s => SameAt(k)
  BY <1>1, <1>2, SameTables DEF memory
<1>5. CASE s \in crossed
  BY <1>1, <1>3, <1>4, <1>5, CrossedSymbol
<1>6. CASE s \notin crossed
  <2>1. SymbolInv(s)
    BY <1>6 DEF AccountInv
  <2>2. BookInv(s)' /\ TrackInv(s)'
    <3>1. Quiet(s) => Quiet(s)'
      BY <1>1, SameTables DEF Quiet, memory
    <3> QED
      BY <1>1, <2>1, <3>1 DEF SymbolInv, BookInv, TrackInv, Unsettled, memory
  <2>3. ASSUME NEW b \in Tasks, On(b, s) PROVE TaskInv(b)'
    <3>1. TaskInv(b) /\ task[b].symbol = s /\ task[b].pc # "idle"
      BY <2>1, <2>3 DEF SymbolInv, On
    <3>2. b # "loop"
      BY <1>1, <3>1
    <3>3. PICK t : t = task[b]
      OBVIOUS
    <3>4. /\ PricedInv(b, t) => PricedInv(b, t)'
          /\ RegisterInv(b, t) => RegisterInv(b, t)'
          /\ InsertInv(b, t) => InsertInv(b, t)'
          /\ CloseInv(b, t) => CloseInv(b, t)'
          /\ ApplyInv(t) => ApplyInv(t)'
          /\ ~ForgetInv(b, t)
      BY <1>1, <3>1, <3>2, <3>3, SameTables
         DEF PricedInv, RegisterInv, InsertInv, CloseInv, ApplyInv, ForgetInv, memory
    <3> QED
      BY <1>1, <3>1, <3>3, <3>4
         DEF TaskInv, PricedInv, RegisterInv, InsertInv, CloseInv, ApplyInv, ForgetInv
  <2>4. SymbolInv(s)'
    BY <1>1, <2>1, <2>2, <2>3 DEF SymbolInv, AloneAt, On
  <2>5. \A k \in Symbols \ crossed' : k # s => SymbolInv(k)'
    BY <1>1, <1>4, OthersStay
  <2> QED
    BY <1>3, <2>4, <2>5 DEF AccountInv
<1> QED
  BY <1>5, <1>6

-----------------------------------------------------------------------------
(* Where tasks have met a step may do what it likes, as long as it keeps to its symbol.           *)

\* The function g is f except at s, where it has a value in T, or none.
OnlyAt(f, g, s, T) ==
  /\ \A k : k # s => (k \in DOMAIN g <=> k \in DOMAIN f)
  /\ \A k \in DOMAIN f : k # s => g[k] = f[k]
  /\ s \in DOMAIN g => g[s] \in T

LEMMA Untouched == ASSUME NEW f, NEW s, NEW T, s \in DOMAIN f => f[s] \in T PROVE OnlyAt(f, f, s, T)
BY DEF OnlyAt

LEMMA WithoutAt == ASSUME NEW f, NEW s, NEW T PROVE OnlyAt(f, Without(f, s), s, T)
BY DEF OnlyAt, Without

LEMMA PutAt == ASSUME NEW f, NEW s, NEW T, NEW v \in T PROVE OnlyAt(f, Put(f, s, v), s, T)
BY DEF OnlyAt, Put

LEMMA ChangedAt ==
  ASSUME NEW f, NEW s \in DOMAIN f, NEW T, NEW v \in T
  PROVE  OnlyAt(f, [f EXCEPT ![s] = v], s, T)
BY DEF OnlyAt

LEMMA CrossedMoves ==
  ASSUME AccountInv, NEW a \in Tasks, NEW s \in Symbols, crossed \subseteq crossed', s \in crossed',
         NEW t \in TaskRecord, task' = [task EXCEPT ![a] = t],
         task[a].pc # "idle" => task[a].symbol = s, t.pc # "idle" => t.symbol = s,
         OnlyAt(positions, positions', s, Holding), OnlyAt(tracked, tracked', s, Tracking),
         failures' \in Nat, Sound(orders', trades'),
         \A k \in Symbols : k # s =>
           /\ Opens(orders', trades', k) = Opens(orders, trades, k)
           /\ \A id \in Opens(orders, trades, k) :
                orders'[id] = orders[id] /\ Left(orders', trades', id) = Left(orders, trades, id)
  PROVE  AccountInv'
<1>1. /\ task'[a] = t /\ \A b \in Tasks : b # a => task'[b] = task[b]
      /\ task' = [b \in Tasks |-> task'[b]] /\ \A b \in Tasks : task'[b] \in TaskRecord
  BY TaskChanges DEF AccountInv
<1>2. \A k \in DOMAIN positions' : k \in Symbols /\ positions'[k] \in Holding
  BY DEF OnlyAt, AccountInv, Typed
<1>3. \A k \in DOMAIN tracked' : k \in Symbols /\ tracked'[k] \in Tracking
  BY DEF OnlyAt, AccountInv, Typed
<1>4. Typed'
  BY <1>1, <1>2, <1>3 DEF AccountInv, Typed, TaskRecord
<1>5. \A k \in Symbols : k # s => SameAt(k)
  BY DEF SameAt, OnlyAt
<1> QED
  BY <1>1, <1>4, <1>5, CrossedSymbol

\* The same where the tables stay as they are.
LEMMA CrossedTables ==
  ASSUME AccountInv, NEW a \in Tasks, NEW s \in Symbols, crossed \subseteq crossed', s \in crossed',
         NEW t \in TaskRecord, task' = [task EXCEPT ![a] = t],
         task[a].pc # "idle" => task[a].symbol = s, t.pc # "idle" => t.symbol = s,
         OnlyAt(positions, positions', s, Holding), OnlyAt(tracked, tracked', s, Tracking),
         failures' \in Nat, UNCHANGED db
  PROVE  AccountInv'
<1>1. Sound(orders', trades')
  BY SameTables DEF AccountInv, Typed
<1>2. \A k \in Symbols : k # s =>
           /\ Opens(orders', trades', k) = Opens(orders, trades, k)
           /\ \A id \in Opens(orders, trades, k) :
                orders'[id] = orders[id] /\ Left(orders', trades', id) = Left(orders, trades, id)
  BY SameTables DEF db
<1> QED
  BY <1>1, <1>2, CrossedMoves

LEMMA NothingMoved ==
  ASSUME AccountInv, NEW s
  PROVE  OnlyAt(positions, positions, s, Holding) /\ OnlyAt(tracked, tracked, s, Tracking)
         /\ failures \in Nat /\ Idle \in TaskRecord /\ Idle.pc = "idle"
BY Untouched DEF AccountInv, Typed, TaskRecord, Idle

LEMMA CrossedGivesUp ==
  ASSUME AccountInv, NEW a \in Tasks, task[a].pc # "idle", crossed \subseteq crossed',
         task[a].symbol \in crossed',
         PriceUnknown(a) \/ RejectSell(a) \/ InsertFails(a) \/ RecordFails(a)
  PROVE  AccountInv'
<1>1. PICK s : s = task[a].symbol
  OBVIOUS
<1>2. s \in Symbols
  BY <1>1, TaskKinds DEF AccountInv
<1>3. /\ task' = [task EXCEPT ![a] = Idle] /\ positions' = positions /\ tracked' = tracked
      /\ UNCHANGED db
  BY DEF PriceUnknown, RejectSell, InsertFails, RecordFails, memory
<1>4. failures' \in Nat
  BY DEF PriceUnknown, RejectSell, InsertFails, RecordFails, AccountInv, Typed
<1> QED
  BY <1>1, <1>2, <1>3, <1>4, NothingMoved, CrossedTables

LEMMA CrossedCheckFree ==
  ASSUME AccountInv, NEW a \in Openers, NEW s \in Symbols, CheckFree(a, s), s \in crossed'
  PROVE  AccountInv'
<1>1. PICK way \in {"buy", "sell"}, amount \in Amounts :
        task' = [task EXCEPT ![a] = [pc |-> "priced", symbol |-> s, way |-> way,
                                     amount |-> amount]]
  BY DEF CheckFree
<1>2. a \in Tasks /\ amount \in Volume
  BY PaperAssumption DEF Openers, Volume
<1> DEFINE t == [pc |-> "priced", symbol |-> s, way |-> way, amount |-> amount]
<1>3. t \in TaskRecord /\ t.symbol = s
  BY <1>2 DEF Priced, Ways, TaskRecord
<1> HIDE DEF t
<1>4. /\ task' = [task EXCEPT ![a] = t] /\ UNCHANGED <<positions, tracked, db, failures>>
      /\ crossed \subseteq crossed' /\ task[a].pc = "idle"
  BY <1>1 DEF CheckFree, Starts, memory, t
<1> QED
  BY <1>2, <1>3, <1>4, NothingMoved, CrossedTables

\* What a task that has its price becomes.
LEMMA FilledTask ==
  ASSUME Typed, NEW a \in Tasks, task[a].pc = "priced", NEW price \in Prices, NEW opening \in BOOLEAN,
         Fill(a, price, opening)
  PROVE  \E t \in TaskRecord : task' = [task EXCEPT ![a] = t] /\ t.pc = "insert" /\ t.symbol = task[a].symbol
<1>1. PICK u : u = task[a]
  OBVIOUS
<1> DEFINE t == [pc |-> "insert", symbol |-> u.symbol, way |-> u.way, amount |-> u.amount,
                 price |-> price, opening |-> opening]
<1>2. u \in Priced
  BY <1>1, TaskKinds
<1>3. price \in Nat
  BY PaperAssumption
<1>4. t \in Inserting /\ t.pc = "insert" /\ t.symbol = u.symbol
  BY <1>2, <1>3 DEF Priced, Inserting
<1>5. task' = [task EXCEPT ![a] = t]
  BY <1>1 DEF Fill
<1> HIDE DEF t
<1> QED
  BY <1>1, <1>4, <1>5 DEF TaskRecord

\* A purchase into what is there averages the price.
LEMMA Bought ==
  ASSUME NEW p, p.side \in Sides, p.entry \in Int, p.amount \in Nat, p.order \in Nat, p.fee \in Int,
         DOMAIN p = {"side", "amount", "entry", "order", "fee"},
         p = [f \in DOMAIN p |-> p[f]],
         NEW n \in Volume, NEW price \in Nat
  PROVE  [p EXCEPT !.side = "long", !.amount = @ + n,
                   !.entry = (@ * p.amount + price * n) \div (p.amount + n)] \in Holding
<1> DEFINE m == p.amount + n
           v == p.entry * p.amount + price * n
           e == v \div m
<1>1. m \in Volume /\ v \in Int
  <2>1. m \in Volume /\ price * n \in Int /\ p.entry * p.amount \in Int
    BY DEF Volume
  <2> QED
    BY <2>1
<1>2. e \in Int
  <2> HIDE DEF m, v
  <2> QED
    BY <1>1 DEF Volume
<1> HIDE DEF m, e
<1>3. [p EXCEPT !.side = "long", !.amount = m, !.entry = e] \in Holding
  BY <1>1, <1>2 DEF Holding, Sides
<1> QED
  BY <1>3 DEF m, e

LEMMA CrossedBuy ==
  ASSUME AccountInv, NEW a \in Openers, Buy(a), task[a].symbol \in crossed
  PROVE  AccountInv'
<1>1. PICK s, n : s = task[a].symbol /\ n = task[a].amount
  OBVIOUS
<1>2. a \in Tasks /\ task[a].pc = "priced" /\ task[a] \in Priced
  BY TaskKinds DEF Buy, Openers, AccountInv
<1>3. s \in Symbols /\ n \in Volume
  BY <1>1, <1>2 DEF Priced
<1> DEFINE old == IF s \in DOMAIN positions THEN positions[s]
                  ELSE [side |-> "long", amount |-> 0, entry |-> 0, order |-> 0, fee |-> 0]
<1>4. PICK price \in Prices :
        /\ Fill(a, price, TRUE)
        /\ positions' = Put(positions, s,
             [old EXCEPT !.side = "long", !.amount = @ + n,
                         !.entry = (@ * old.amount + price * n) \div (old.amount + n)])
  BY <1>1 DEF Buy
<1>5. /\ old.side \in Sides /\ old.entry \in Int /\ old.amount \in Nat /\ old.order \in Nat
      /\ old.fee \in Int /\ DOMAIN old = {"side", "amount", "entry", "order", "fee"}
      /\ old = [f \in DOMAIN old |-> old[f]]
  <2>1. CASE s \in DOMAIN positions
    <3>1. positions[s] \in Holding
      BY <2>1 DEF AccountInv, Typed
    <3> QED
      BY <2>1, <3>1 DEF Holding, Volume
  <2>2. CASE s \notin DOMAIN positions
    BY <2>2 DEF Sides
  <2> QED
    BY <2>1, <2>2
<1>6. price \in Nat
  BY PaperAssumption
<1> HIDE DEF old
<1>7. PICK v \in Holding : positions' = Put(positions, s, v)
  BY <1>3, <1>4, <1>5, <1>6, Bought
<1>8. PICK t \in TaskRecord : task' = [task EXCEPT ![a] = t] /\ t.symbol = s
  BY <1>1, <1>2, <1>4, FilledTask DEF AccountInv
<1>9. UNCHANGED <<tracked, db, failures, crossed>>
  BY DEF Buy, marks
<1> QED
  BY <1>1, <1>2, <1>3, <1>7, <1>8, <1>9, PutAt, NothingMoved, CrossedTables

LEMMA CrossedSellShort ==
  ASSUME AccountInv, NEW a \in Openers, SellShort(a), task[a].symbol \in crossed
  PROVE  AccountInv'
<1>1. PICK s, n : s = task[a].symbol /\ n = task[a].amount
  OBVIOUS
<1>2. a \in Tasks /\ task[a].pc = "priced" /\ task[a] \in Priced
  BY TaskKinds DEF SellShort, Openers, AccountInv
<1>3. s \in Symbols /\ n \in Volume
  BY <1>1, <1>2 DEF Priced
<1>4. PICK price \in Prices :
        /\ Fill(a, price, TRUE)
        /\ positions' = Put(positions, s, [side |-> "short", amount |-> n, entry |-> price,
                                           order |-> 0, fee |-> 0])
  BY <1>1 DEF SellShort
<1>5. price \in Nat
  BY PaperAssumption
<1>6. [side |-> "short", amount |-> n, entry |-> price, order |-> 0, fee |-> 0] \in Holding
  BY <1>3, <1>5 DEF Holding, Sides
<1>7. PICK t \in TaskRecord : task' = [task EXCEPT ![a] = t] /\ t.symbol = s
  BY <1>1, <1>2, <1>4, FilledTask DEF AccountInv
<1>8. UNCHANGED <<tracked, db, failures, crossed>>
  BY DEF SellShort, marks
<1> QED
  BY <1>1, <1>2, <1>3, <1>4, <1>6, <1>7, <1>8, PutAt, NothingMoved, CrossedTables

\* Less of a position, but not nothing.
LEMMA LessOf ==
  ASSUME NEW f, NEW s \in DOMAIN f, f[s] \in Holding, NEW n \in Nat, f[s].amount > n
  PROVE  OnlyAt(f, [f EXCEPT ![s].amount = @ - n], s, Holding)
<1>1. PICK p : p = f[s]
  OBVIOUS
<1> DEFINE m == p.amount - n
           v == [p EXCEPT !.amount = m]
<1>2. m \in Volume
  BY <1>1 DEF Holding, Volume
<1> HIDE DEF m
<1>3. v \in Holding
  BY <1>1, <1>2 DEF Holding
<1>4. [f EXCEPT ![s].amount = @ - n] = [f EXCEPT ![s] = v]
  BY <1>1 DEF m
<1> HIDE DEF v
<1> QED
  BY <1>3, <1>4, ChangedAt

LEMMA CrossedSellLong ==
  ASSUME AccountInv, NEW a \in Openers, SellLong(a), task[a].symbol \in crossed
  PROVE  AccountInv'
<1>1. PICK s, n : s = task[a].symbol /\ n = task[a].amount
  OBVIOUS
<1>2. a \in Tasks /\ task[a].pc = "priced" /\ task[a] \in Priced
  BY TaskKinds DEF SellLong, Openers, AccountInv
<1>3. s \in Symbols /\ n \in Volume /\ n \in Nat
  BY <1>1, <1>2 DEF Priced, Volume
<1>4. /\ s \in DOMAIN positions /\ positions[s].amount >= n
      /\ \E price \in Prices : Fill(a, price, FALSE)
      /\ positions' = IF positions[s].amount = n THEN Without(positions, s)
                      ELSE [positions EXCEPT ![s].amount = @ - n]
  BY <1>1 DEF SellLong
<1>5. positions[s] \in Holding /\ positions[s].amount \in Int
  BY <1>4 DEF AccountInv, Typed, Holding, Volume
<1>6. OnlyAt(positions, positions', s, Holding)
  <2>1. CASE positions[s].amount = n
    BY <1>4, <2>1, WithoutAt
  <2>2. CASE positions[s].amount # n
    <3>1. positions[s].amount > n
      BY <1>3, <1>4, <1>5, <2>2
    <3> QED
      BY <1>3, <1>4, <1>5, <2>2, <3>1, LessOf
  <2> QED
    BY <2>1, <2>2
<1>7. PICK t \in TaskRecord : task' = [task EXCEPT ![a] = t] /\ t.symbol = s
  BY <1>1, <1>2, <1>4, FilledTask DEF AccountInv
<1>8. UNCHANGED <<tracked, db, failures, crossed>>
  BY DEF SellLong, marks
<1> QED
  BY <1>1, <1>2, <1>3, <1>6, <1>7, <1>8, NothingMoved, CrossedTables

LEMMA CrossedInsert ==
  ASSUME AccountInv, NEW a \in Openers, InsertOrder(a), task[a].symbol \in crossed
  PROVE  AccountInv'
<1>1. PICK t : t = task[a]
  OBVIOUS
<1>2. PICK id : id = Len(orders) + 1
  OBVIOUS
<1>3. PICK s : s = t.symbol
  OBVIOUS
<1> DEFINE r == [symbol |-> s, way |-> t.way, amount |-> t.amount, price |-> t.price]
           u == [pc |-> "register", symbol |-> s, way |-> t.way, amount |-> t.amount,
                 price |-> t.price, order |-> id]
           fee == FeeRate * t.amount
<1>4. a \in Tasks /\ t.pc = "insert" /\ t \in Inserting
  BY <1>1, TaskKinds DEF InsertOrder, Openers, AccountInv
<1>5. /\ s \in Symbols /\ t.amount \in Volume /\ t.amount \in Nat /\ t.way \in Ways
      /\ t.price \in Nat
  BY <1>3, <1>4 DEF Inserting, Volume
<1>6. id \in Nat
  BY <1>2, SoundRows DEF AccountInv, Typed
<1>7. fee \in Int
  BY <1>5, PaperAssumption
<1>8. u \in TaskRecord /\ u.symbol = s /\ r \in OrderRow /\ r.symbol = s
  <2>1. u \in Registering /\ u.symbol = s
    BY <1>5, <1>6 DEF Registering
  <2> QED
    BY <1>5, <2>1 DEF TaskRecord, OrderRow, Ways
<1>9. /\ orders' = Append(orders, r) /\ UNCHANGED <<tracked, trades, failures, crossed>>
      /\ task' = [task EXCEPT ![a] = u]
      /\ \/ positions' = positions
         \/ s \in DOMAIN positions /\ positions' = [positions EXCEPT ![s].order = id, ![s].fee = fee]
  BY <1>1, <1>2, <1>3 DEF InsertOrder, marks
<1> HIDE DEF r, u, fee
<1>10. OnlyAt(positions, positions', s, Holding)
  <2>1. CASE s \in DOMAIN positions /\ positions' = [positions EXCEPT ![s].order = id, ![s].fee = fee]
    <3>1. PICK p \in Holding : p = positions[s]
      BY <2>1 DEF AccountInv, Typed
    <3> DEFINE v == [p EXCEPT !.order = id, !.fee = fee]
    <3>2. v \in Holding
      BY <1>6, <1>7 DEF Holding
    <3>3. positions' = [positions EXCEPT ![s] = v]
      BY <2>1, <3>1
    <3> HIDE DEF v
    <3>4. s \in DOMAIN positions
      BY <2>1
    <3> QED
      BY <3>2, <3>3, <3>4, ChangedAt
  <2>2. CASE positions' = positions
    BY <2>2, NothingMoved
  <2> QED
    BY <1>9, <2>1, <2>2
<1>11. /\ Sound(orders', trades')
       /\ \A i \in 1..Len(orders) : /\ orders'[i] = orders[i]
                                    /\ Left(orders', trades', i) = Left(orders, trades, i)
       /\ \A k : k # s => Opens(orders', trades', k) = Opens(orders, trades, k)
  BY <1>8, <1>9, OrderAdded DEF AccountInv, Typed
<1>12. \A k : Opens(orders, trades, k) \subseteq 1..Len(orders)
  BY SoundRows DEF AccountInv, Typed
<1>13. failures' \in Nat
  BY <1>9 DEF AccountInv, Typed
<1> QED
  BY <1>1, <1>3, <1>4, <1>5, <1>8, <1>9, <1>10, <1>11, <1>12, <1>13, NothingMoved, CrossedMoves

LEMMA CrossedRegister ==
  ASSUME AccountInv, NEW a \in Openers, Register(a), task[a].symbol \in crossed
  PROVE  AccountInv'
<1>1. PICK t : t = task[a]
  OBVIOUS
<1>2. PICK s : s = t.symbol
  OBVIOUS
<1>3. a \in Tasks /\ t.pc = "register" /\ t \in Registering
  BY <1>1, TaskKinds DEF Register, Openers, AccountInv
<1>4. /\ s \in Symbols /\ t.amount \in Int /\ t.way \in Ways /\ t.price \in Int /\ t.order \in Nat
  BY <1>2, <1>3 DEF Registering, Volume
<1> DEFINE p == IF a = "signal" /\ s \in DOMAIN positions THEN positions[s]
                ELSE [amount |-> t.amount, entry |-> t.price]
           fee == FeeRate * t.amount
           v == [side |-> SideOf(t.way), amount |-> p.amount, entry |-> p.entry,
                 order |-> t.order, fee |-> fee]
<1>5. p.amount \in Int /\ p.entry \in Int
  <2>1. CASE a = "signal" /\ s \in DOMAIN positions
    <3>1. positions[s] \in Holding
      BY <2>1 DEF AccountInv, Typed
    <3> QED
      BY <2>1, <3>1 DEF Holding, Volume
  <2>2. CASE ~(a = "signal" /\ s \in DOMAIN positions)
    BY <1>4, <2>2
  <2> QED
    BY <2>1, <2>2
<1>6. fee \in Int
  BY <1>4, PaperAssumption
<1>7. tracked' = Put(tracked, s, v)
  BY <1>1, <1>2 DEF Register
<1> HIDE DEF p, fee
<1>8. v \in Tracking
  BY <1>4, <1>5, <1>6 DEF Tracking, Sides, SideOf
<1> HIDE DEF v
<1>9. /\ UNCHANGED <<positions, db, failures, crossed>> /\ task' = [task EXCEPT ![a] = Idle]
  BY DEF Register, memory, marks
<1>10. OnlyAt(tracked, tracked', s, Tracking)
  BY <1>7, <1>8, PutAt
<1> QED
  BY <1>1, <1>2, <1>3, <1>4, <1>9, <1>10, NothingMoved, CrossedTables

LEMMA CrossedCloseStarts ==
  ASSUME AccountInv, NEW a \in Closers, NEW s \in Symbols, Starts(a, s), s \in crossed',
         UNCHANGED <<memory, db, failures>>, OnlyAt(tracked, tracked', s, Tracking),
         NEW p, p.side \in Sides, p.entry \in Int, p.order \in Nat,
         NEW amount \in Volume, NEW fee \in Int, NEW partial \in BOOLEAN,
         StartClose(a, s, p, amount, fee, partial)
  PROVE  AccountInv'
<1>1. PICK price \in Prices :
        task' = [task EXCEPT ![a] = [pc |-> "record", symbol |-> s, side |-> p.side,
                                     entry |-> p.entry, amount |-> amount, fee |-> fee,
                                     order |-> p.order, price |-> price,
                                     partial |-> partial]]
  BY DEF StartClose
<1> DEFINE t == [pc |-> "record", symbol |-> s, side |-> p.side,
                 entry |-> p.entry, amount |-> amount, fee |-> fee,
                 order |-> p.order, price |-> price, partial |-> partial]
<1>2. a \in Tasks /\ price \in Nat
  BY PaperAssumption DEF Closers
<1>3. t \in Closing /\ t.symbol = s
  BY <1>2 DEF Closing
<1> HIDE DEF t
<1>4. t \in TaskRecord
  BY <1>3 DEF TaskRecord
<1>5. /\ task' = [task EXCEPT ![a] = t] /\ UNCHANGED <<positions, db, failures>>
      /\ crossed \subseteq crossed' /\ task[a].pc = "idle"
  BY <1>1 DEF Starts, memory, t
<1> QED
  BY <1>2, <1>3, <1>4, <1>5, NothingMoved, CrossedTables

LEMMA LargerOf == ASSUME NEW x \in Int, NEW y \in Int PROVE Max({x, y}) \in Int /\ Max({x, y}) >= y
<1>1. \E z \in {x, y} : \A w \in {x, y} : z >= w
  OBVIOUS
<1> QED
  BY <1>1 DEF Max

LEMMA CrossedStarts ==
  ASSUME AccountInv, NEW s \in Symbols, LoopStartsClose(s) \/ ApiStartsClose(s), s \in crossed'
  PROVE  AccountInv'
<1>1. CASE LoopStartsClose(s)
  <2>1. PICK q : q = tracked[s]
    OBVIOUS
  <2>2. PICK m : m = Max({q.amount, positions[s].amount})
    OBVIOUS
  <2> DEFINE p == [q EXCEPT !.amount = m]
  <2>3. /\ "loop" \in Closers /\ Starts("loop", s) /\ s \in DOMAIN tracked /\ s \in DOMAIN positions
        /\ UNCHANGED <<memory, db, failures>> /\ tracked' = [tracked EXCEPT ![s] = p]
        /\ \/ StartClose("loop", s, p, p.amount, p.fee, FALSE)
           \/ /\ p.amount % 2 = 0
              /\ StartClose("loop", s, p, p.amount \div 2, p.fee \div 2, TRUE)
    BY <1>1, <2>1, <2>2 DEF LoopStartsClose, Closers
  <2>4. q \in Tracking /\ positions[s] \in Holding
    BY <2>1, <2>3 DEF AccountInv, Typed
  <2>5. m \in Volume
    <3>1. q.amount \in Int /\ positions[s].amount \in Int /\ positions[s].amount > 0
      BY <2>4 DEF Tracking, Holding, Volume
    <3>2. m \in Int /\ m >= positions[s].amount
      BY <2>2, <3>1, LargerOf
    <3> QED
      BY <3>1, <3>2 DEF Volume
  <2>6. p \in Tracking /\ p.amount = m /\ p.side \in Sides /\ p.entry \in Int /\ p.order \in Nat
        /\ p.fee \in Int
    BY <2>4, <2>5 DEF Tracking, Volume
  <2> HIDE DEF p
  <2>7. OnlyAt(tracked, tracked', s, Tracking)
    BY <2>3, <2>6, ChangedAt
  <2>8. CASE StartClose("loop", s, p, p.amount, p.fee, FALSE)
    BY <2>3, <2>5, <2>6, <2>7, <2>8, CrossedCloseStarts
  <2>9. CASE p.amount % 2 = 0 /\ StartClose("loop", s, p, p.amount \div 2, p.fee \div 2, TRUE)
    <3>1. p.amount \div 2 \in Volume /\ p.fee \div 2 \in Int
      BY <2>5, <2>6, <2>9 DEF Volume
    <3> QED
      BY <2>3, <2>6, <2>7, <2>9, <3>1, CrossedCloseStarts
  <2> QED
    BY <2>3, <2>8, <2>9
<1>2. CASE ApiStartsClose(s)
  <2>1. PICK q : q = positions[s]
    OBVIOUS
  <2>2. /\ "api" \in Closers /\ Starts("api", s) /\ s \in DOMAIN positions
        /\ UNCHANGED <<memory, db, failures>> /\ tracked' = tracked
        /\ StartClose("api", s, q, q.amount, q.fee, FALSE)
    BY <1>2, <2>1 DEF ApiStartsClose, Closers
  <2>3. q.amount \in Volume /\ q.fee \in Int /\ q.side \in Sides /\ q.entry \in Int /\ q.order \in Nat
    BY <2>1, <2>2 DEF AccountInv, Typed, Holding
  <2>4. OnlyAt(tracked, tracked', s, Tracking)
    BY <2>2, NothingMoved
  <2> QED
    BY <2>2, <2>3, <2>4, CrossedCloseStarts
<1> QED
  BY <1>1, <1>2

\* The trade of a close is of an order of its own symbol, or of none.
LEMMA CrossedRecord ==
  ASSUME AccountInv, EntriesInv, NEW a \in Closers, RecordClose(a), task[a].symbol \in crossed
  PROVE  AccountInv'
<1>1. PICK t : t = task[a]
  OBVIOUS
<1>2. PICK s, o, pnl : s = t.symbol /\ o = t.order /\ pnl = PnlOf(t)
  OBVIOUS
<1> DEFINE r == [symbol |-> s, way |-> IF t.side = "long" THEN "sell" ELSE "buy",
                 amount |-> t.amount, price |-> t.price]
           x == [open |-> o, close |-> Len(orders) + 1, amount |-> t.amount, pnl |-> pnl]
           u == [t EXCEPT !.pc = "apply"]
<1>3. t.pc = "record" /\ Exists(o)
  BY <1>1, <1>2 DEF RecordClose
<1>4. a \in Tasks /\ t \in Closing
  BY <1>1, <1>3, TaskKinds DEF AccountInv, Closers
<1>5. /\ s \in Symbols /\ t.amount \in Nat /\ t.entry \in Int /\ t.fee \in Int /\ t.price \in Nat
      /\ o \in Nat
  BY <1>2, <1>4 DEF Closing, Volume
<1>6. pnl \in Int
  <2> HIDE DEF r, x, u
  <2> QED
    BY <1>2, <1>5, PaperAssumption DEF PnlOf
<1>7. o \in 0..Len(orders) /\ (o = 0 \/ orders[o].symbol = s) /\ Len(orders) \in Nat
  <2>1. Of(o, s)
    BY <1>1, <1>2, <1>3, <1>4 DEF EntriesInv, TasksInv, Carries
  <2> QED
    BY <1>3, <2>1, SoundRows DEF Of, Entry, Exists, AccountInv, Typed
<1>8. /\ r \in OrderRow /\ x \in TradeRow
      /\ x.open = o /\ x.close = Len(orders) + 1 /\ x.amount = t.amount
  <2>1. r \in OrderRow
    BY <1>5 DEF OrderRow
  <2> QED
    BY <1>5, <1>6, <1>7, <2>1 DEF TradeRow
<1>9. u \in TaskRecord /\ u.symbol = s
  BY <1>2, <1>4 DEF Closing, TaskRecord
<1>10. /\ orders' = Append(orders, r) /\ trades' = trades \cup {x}
       /\ UNCHANGED <<positions, tracked, failures, crossed>> /\ task' = [task EXCEPT ![a] = u]
  BY <1>1, <1>2 DEF RecordClose, memory
<1> HIDE DEF r, x, u
<1>11. Reduced(orders, trades, orders', trades', o, t.amount)
  <2>1. Reduced(orders, trades, Append(orders, r), trades \cup {x}, o, x.amount)
    BY <1>7, <1>8, CloseAdded DEF AccountInv, Typed
  <2> QED
    BY <1>8, <1>10, <2>1
<1>12. ASSUME NEW k \in Symbols, k # s
       PROVE  /\ Opens(orders', trades', k) = Opens(orders, trades, k)
              /\ \A id \in Opens(orders, trades, k) :
                   orders'[id] = orders[id] /\ Left(orders', trades', id) = Left(orders, trades, id)
  <2>1. \A id \in Opens(orders, trades, k) :
          id \in 1..Len(orders) /\ Left(orders, trades, id) > 0 /\ orders[id].symbol = k
    BY SoundRows DEF Opens, AccountInv, Typed
  <2>2. \A id \in Opens(orders, trades, k) : id # o
    BY <1>7, <1>12, <2>1
  <2>3. \A id \in Opens(orders, trades, k) :
          orders'[id] = orders[id] /\ Left(orders', trades', id) = Left(orders, trades, id)
    BY <1>11, <2>1, <2>2 DEF Reduced
  <2>4. \A id : id \in Opens(orders', trades', k) <=> id \in Opens(orders, trades, k)
    BY <1>11, <2>1, <2>3 DEF Reduced
  <2> QED
    BY <2>3, <2>4 DEF Opens
<1>13. Sound(orders', trades')
  BY <1>11 DEF Reduced
<1> QED
  BY <1>1, <1>2, <1>4, <1>5, <1>9, <1>10, <1>12, <1>13, NothingMoved, CrossedMoves

LEMMA CrossedApply ==
  ASSUME AccountInv, NEW a \in Closers, ApplyClose(a), task[a].symbol \in crossed
  PROVE  AccountInv'
<1>1. PICK t : t = task[a]
  OBVIOUS
<1>2. PICK s, n : s = t.symbol /\ n = t.amount
  OBVIOUS
<1> DEFINE u == IF a = "loop" THEN [t EXCEPT !.pc = "forget"] ELSE Idle
<1>3. a \in Tasks /\ t.pc = "apply" /\ t \in Closing
  BY <1>1, TaskKinds DEF ApplyClose, AccountInv, Closers
<1>4. s \in Symbols /\ n \in Nat
  BY <1>2, <1>3 DEF Closing, Volume
<1>5. u \in TaskRecord /\ (u.pc # "idle" => u.symbol = s)
  BY <1>2, <1>3 DEF Closing, TaskRecord, Idle
<1>6. /\ UNCHANGED <<tracked, db, failures, crossed>> /\ task' = [task EXCEPT ![a] = u]
      /\ positions' = IF s \notin DOMAIN positions THEN positions
                      ELSE IF positions[s].amount <= n THEN Without(positions, s)
                      ELSE [positions EXCEPT ![s].amount = @ - n]
  BY <1>1, <1>2 DEF ApplyClose, marks
<1> HIDE DEF u
<1>7. OnlyAt(positions, positions', s, Holding)
  <2>1. CASE s \notin DOMAIN positions
    BY <1>6, <2>1, NothingMoved
  <2>2. CASE s \in DOMAIN positions /\ positions[s].amount <= n
    BY <1>6, <2>2, WithoutAt
  <2>3. CASE s \in DOMAIN positions /\ ~(positions[s].amount <= n)
    <3>1. positions[s] \in Holding /\ positions[s].amount \in Int
      BY <2>3 DEF AccountInv, Typed, Holding, Volume
    <3>2. positions[s].amount > n
      BY <1>4, <2>3, <3>1
    <3> QED
      BY <1>4, <1>6, <2>3, <3>1, <3>2, LessOf
  <2> QED
    BY <2>1, <2>2, <2>3
<1> QED
  BY <1>1, <1>2, <1>3, <1>4, <1>5, <1>6, <1>7, NothingMoved, CrossedTables

LEMMA CrossedSettles ==
  ASSUME AccountInv, LoopSettles, task["loop"].symbol \in crossed
  PROVE  AccountInv'
<1>0. PICK a : a = "loop"
  OBVIOUS
<1>1. PICK t : t = task[a]
  OBVIOUS
<1>2. PICK s, n, fee : s = t.symbol /\ n = t.amount /\ fee = t.fee
  OBVIOUS
<1>3. a \in Tasks /\ t.pc = "forget" /\ t \in Closing
  BY <1>0, <1>1, TaskKinds DEF LoopSettles, AccountInv
<1>4. s \in Symbols /\ n \in Int /\ fee \in Int
  BY <1>2, <1>3 DEF Closing, Volume
<1>5. /\ UNCHANGED <<positions, db, failures, crossed>> /\ task' = [task EXCEPT ![a] = Idle]
      /\ \/ tracked' = Without(tracked, s) \/ tracked' = tracked
         \/ s \in DOMAIN tracked /\ tracked' = [tracked EXCEPT ![s].amount = @ - n, ![s].fee = @ - fee]
  BY <1>0, <1>1, <1>2 DEF LoopSettles, memory, marks
<1>6. OnlyAt(tracked, tracked', s, Tracking)
  <2>1. CASE s \in DOMAIN tracked /\ tracked' = [tracked EXCEPT ![s].amount = @ - n, ![s].fee = @ - fee]
    <3>1. PICK q \in Tracking : q = tracked[s]
      BY <2>1 DEF AccountInv, Typed
    <3> DEFINE m == q.amount - n
               f == q.fee - fee
               v == [q EXCEPT !.amount = m, !.fee = f]
    <3>2. m \in Int /\ f \in Int
      BY <1>4 DEF Tracking
    <3>3. tracked' = [tracked EXCEPT ![s] = v]
      BY <2>1, <3>1
    <3> HIDE DEF m, f
    <3>4. v \in Tracking
      BY <3>2 DEF Tracking
    <3> HIDE DEF v
    <3>5. s \in DOMAIN tracked
      BY <2>1
    <3> QED
      BY <3>3, <3>4, <3>5, ChangedAt
  <2>2. CASE tracked' = Without(tracked, s)
    BY <2>2, WithoutAt
  <2>3. CASE tracked' = tracked
    BY <2>3, NothingMoved
  <2> QED
    BY <1>5, <2>1, <2>2, <2>3
<1> QED
  BY <1>0, <1>1, <1>2, <1>3, <1>4, <1>5, <1>6, NothingMoved, CrossedTables

-----------------------------------------------------------------------------
(* Resets and restarts.                                                    *)

\* After a reset nothing is known of the symbols some task is at work on, and the others are empty.
LEMMA ResetKeeps ==
  ASSUME AccountInv, ResetPaperAccount \/ ClearTestData
  PROVE  AccountInv'
<1>1. /\ crossed' = {s \in Symbols : Busy(s)}
      /\ orders' = [id \in DOMAIN orders |-> Deleted] /\ trades' = {}
      /\ positions' = Nothing /\ task' = task /\ failures' = failures
      /\ tracked' = tracked \/ tracked' = Nothing
  BY DEF ResetPaperAccount, ClearTestData, DeleteHistory
<1>2. Sound(orders', trades') /\ \A s : Opens(orders', trades', s) = {}
  BY <1>1, TablesEmptied DEF AccountInv, Typed
<1>3. DOMAIN positions' = {} /\ (tracked' = tracked \/ DOMAIN tracked' = {})
  BY <1>1 DEF Nothing
<1>4. Typed'
  BY <1>1, <1>2, <1>3 DEF AccountInv, Typed
<1>5. ASSUME NEW s \in Symbols \ crossed' PROVE SymbolInv(s)'
  <2>1. BookInv(s)' /\ TrackInv(s)'
    BY <1>2, <1>3 DEF BookInv, Quiet, TrackInv
  <2>2. \A a \in Tasks : ~On(a, s)'
    BY <1>1 DEF On, Busy
  <2> QED
    BY <2>1, <2>2 DEF SymbolInv, AloneAt
<1> QED
  BY <1>4, <1>5 DEF AccountInv

\* Sums over open orders.
LEMMA RemainingSum ==
  ASSUME NEW S, IsFiniteSet(S), NEW f, \A id \in S : f[id] \in Int /\ f[id] = Remaining(id)
  PROVE  MapThenSumSet(Remaining, S) = SumOf(f, S)
<1> DEFINE B(h) == [T \in SUBSET S |-> IF T = {} THEN 0
                      ELSE LET x == CHOOSE x \in T : TRUE IN Remaining(x) + h[T \ {x}]]
           c == CHOOSE h : h = B(h)
<1>1. MapThenSumSet(Remaining, S) = c[S]
  BY DEF MapThenSumSet, MapThenFoldSet
<1>2. PICK g : Additive(g, f, S)
  BY AdditiveExists
<1>3. ASSUME NEW h PROVE h = B(h) <=> Fold(h, f, S)
  <2> DEFINE F == [T \in SUBSET S |-> IF T = {} THEN 0
                      ELSE LET x == CHOOSE x \in T : TRUE IN f[x] + h[T \ {x}]]
  <2>1. \A T \in SUBSET S : T # {} => (CHOOSE x \in T : TRUE) \in S
    OBVIOUS
  <2>2. F = B(h)
    BY <2>1
  <2> QED
    BY <2>2 DEF Fold
<1>4. g = B(g)
  BY <1>2, <1>3, AdditiveFolds
<1> HIDE DEF B
<1>5. c = B(c)
  BY <1>4, Zenon
<1> HIDE DEF c
<1>6. c = g
  BY <1>2, <1>3, <1>5, FoldIsAdditive
<1> QED
  BY <1>1, <1>2, <1>6, SumIs

LEMMA ValueSum ==
  ASSUME NEW S, IsFiniteSet(S), NEW f,
         \A id \in S : f[id] \in Int /\ f[id] = Remaining(id) * orders[id].price
  PROVE  MapThenSumSet(LAMBDA id : Remaining(id) * orders[id].price, S) = SumOf(f, S)
<1> DEFINE B(h) == [T \in SUBSET S |-> IF T = {} THEN 0
                      ELSE LET x == CHOOSE x \in T : TRUE
                           IN Remaining(x) * orders[x].price + h[T \ {x}]]
           c == CHOOSE h : h = B(h)
<1>1. MapThenSumSet(LAMBDA id : Remaining(id) * orders[id].price, S) = c[S]
  BY DEF MapThenSumSet, MapThenFoldSet
<1>2. PICK g : Additive(g, f, S)
  BY AdditiveExists
<1>3. ASSUME NEW h PROVE h = B(h) <=> Fold(h, f, S)
  <2> DEFINE F == [T \in SUBSET S |-> IF T = {} THEN 0
                      ELSE LET x == CHOOSE x \in T : TRUE IN f[x] + h[T \ {x}]]
  <2>1. \A T \in SUBSET S : T # {} => (CHOOSE x \in T : TRUE) \in S
    OBVIOUS
  <2>2. F = B(h)
    BY <2>1
  <2> QED
    BY <2>2 DEF Fold
<1>4. g = B(g)
  BY <1>2, <1>3, AdditiveFolds
<1> HIDE DEF B
<1>5. c = B(c)
  BY <1>4, Zenon
<1> HIDE DEF c
<1>6. c = g
  BY <1>2, <1>3, <1>5, FoldIsAdditive
<1> QED
  BY <1>1, <1>2, <1>6, SumIs

VolumeOf(S) == MapThenSumSet(Remaining, S)
ValueOf(S) == MapThenSumSet(LAMBDA id : Remaining(id) * orders[id].price, S)

LEMMA OneTerm ==
  ASSUME NEW o, NEW n \in Int, NEW price \in Int, Remaining(o) = n, orders[o].price = price
  PROVE  VolumeOf({o}) = n /\ ValueOf({o}) = n * price
<1> DEFINE f == [x \in {o} |-> n]
           h == [x \in {o} |-> n * price]
           S == {o}
<1>1. IsFiniteSet({}) /\ IsFiniteSet(S)
  BY FS_EmptySet, FS_Singleton
<1>2. \A x \in S : f[x] \in Int /\ f[x] = Remaining(x)
  OBVIOUS
<1>3. \A x \in S : h[x] \in Int /\ h[x] = Remaining(x) * orders[x].price
  OBVIOUS
<1>4. f[o] = n /\ h[o] = n * price /\ n * price \in Int
  OBVIOUS
<1>5. S = {} \cup {o}
  OBVIOUS
<1> HIDE DEF f, h, S
<1>6. SumOf(f, {} \cup {o}) = f[o] + SumOf(f, {}) /\ SumOf(h, {} \cup {o}) = h[o] + SumOf(h, {})
  BY <1>1, <1>4, SumWith
<1>7. SumOf(f, S) = n /\ SumOf(h, S) = n * price
  BY <1>4, <1>5, <1>6, SumOfNothing
<1>8. MapThenSumSet(Remaining, S) = n
  BY <1>1, <1>2, <1>7, RemainingSum
<1>9. MapThenSumSet(LAMBDA id : Remaining(id) * orders[id].price, S) = n * price
  BY <1>1, <1>3, <1>7, ValueSum
<1> QED
  BY <1>8, <1>9 DEF S, VolumeOf, ValueOf

\* However many open orders a symbol has, a restart makes a position of them.
LEMMA RestoredIsHolding ==
  ASSUME Typed, EntriesInv, NEW s \in Symbols, Opens(orders, trades, s) # {}
  PROVE  RestoredPosition(s) \in Holding
<1>1. PICK ids : ids = OpenIds(s)
  OBVIOUS
<1>2. /\ ids # {} /\ ids \in SUBSET (1..Len(orders)) /\ Len(orders) \in Nat
      /\ \A id \in ids : /\ Remaining(id) \in Int /\ Remaining(id) > 0
                         /\ orders[id].price \in Int /\ orders[id].way \in {"buy", "sell"}
  <2>1. ids = Opens(orders, trades, s) /\ \A id : Remaining(id) = Left(orders, trades, id)
    BY <1>1, OpensIsOpenIds
  <2>2. ids # {} /\ ids \in SUBSET (1..Len(orders)) /\ Len(orders) \in Nat
    BY <2>1, SoundRows DEF Typed
  <2>3. \A id \in ids : Remaining(id) \in Int /\ Remaining(id) > 0 /\ orders[id] \in OrderRow
    BY <2>1, <2>2, SoundRows DEF Typed, Opens
  <2> QED
    BY <2>2, <2>3 DEF OrderRow
<1>3. IsFiniteSet(ids)
  <2>1. IsFiniteSet(1..Len(orders))
    BY <1>2, FS_Interval
  <2> QED
    BY <1>2, <2>1, FS_Subset
<1>4. Max(ids) \in ids
  BY <1>2 DEF Max, EntriesInv, HasNewest
<1>5. VolumeOf(ids) \in Volume
  <2> DEFINE f == [id \in ids |-> Remaining(id)]
  <2>1. \A id \in ids : f[id] \in Int /\ f[id] > 0 /\ f[id] = Remaining(id)
    BY <1>2
  <2> HIDE DEF f
  <2>2. MapThenSumSet(Remaining, ids) = SumOf(f, ids)
    BY <1>3, <2>1, RemainingSum
  <2>3. SumOf(f, ids) \in Int /\ SumOf(f, ids) > 0
    BY <1>2, <1>3, <2>1, SumIsPositive
  <2> QED
    BY <2>2, <2>3 DEF VolumeOf, Volume
<1>6. ValueOf(ids) \in Int
  <2> DEFINE f == [id \in ids |-> Remaining(id) * orders[id].price]
  <2>1. \A id \in ids : f[id] \in Int /\ f[id] = Remaining(id) * orders[id].price
    BY <1>2
  <2> HIDE DEF f
  <2>2. MapThenSumSet(LAMBDA id : Remaining(id) * orders[id].price, ids) = SumOf(f, ids)
    BY <1>3, <2>1, ValueSum
  <2>3. SumOf(f, ids) \in Int
    BY <1>3, <2>1, SumIsInt
  <2> QED
    BY <2>2, <2>3 DEF ValueOf
<1>7. PICK n, v, m : n = VolumeOf(ids) /\ v = ValueOf(ids) /\ m = Max(ids)
  OBVIOUS
<1>8. RestoredPosition(s) = [side |-> SideOf(orders[m].way), amount |-> n, entry |-> v \div n,
                             order |-> m, fee |-> FeeRate * Remaining(m)]
  BY <1>1, <1>7 DEF RestoredPosition, VolumeOf, ValueOf
<1>9. v \div n \in Int /\ n \in Volume
  BY <1>5, <1>6, <1>7 DEF Volume
<1>10. m \in Nat /\ orders[m].way \in {"buy", "sell"} /\ FeeRate * Remaining(m) \in Int
  <2>1. m \in ids
    BY <1>4, <1>7
  <2>2. PICK left : left = Remaining(m)
    OBVIOUS
  <2>3. left \in Int /\ orders[m].way \in {"buy", "sell"}
    BY <1>2, <2>1, <2>2
  <2>4. FeeRate * left \in Int
    BY <2>3, PaperAssumption
  <2> QED
    BY <1>2, <2>1, <2>2, <2>3, <2>4
<1> QED
  BY <1>8, <1>9, <1>10 DEF Holding, Sides, SideOf

\* What a restart reads back of a symbol with one open order is that order.
LEMMA RestoredIsInBook ==
  ASSUME Typed, NEW s \in Symbols, NEW o, Opens(orders, trades, s) = {o}
  PROVE  /\ RestoredPosition(s) \in Holding
         /\ InBook(orders, trades, s, RestoredPosition(s), RestoredPosition(s).amount)
         /\ RestoredPosition(s).fee = FeeRate * RestoredPosition(s).amount
<1>1. Opens(orders, trades, s) = {o}
  OBVIOUS
<1>2. PICK n : n = Left(orders, trades, o)
  OBVIOUS
<1>3. PICK price : price = orders[o].price
  OBVIOUS
<1>4. /\ o \in Nat /\ n \in Volume /\ n \in Int /\ price \in Nat
      /\ orders[o].way \in {"buy", "sell"}
  <2>1. o \in 1..Len(orders) /\ Left(orders, trades, o) > 0
    BY <1>1, SoundRows DEF AccountInv, Typed, Opens
  <2>2. orders[o] \in OrderRow /\ Left(orders, trades, o) \in Nat
    BY <2>1, SoundRows DEF AccountInv, Typed
  <2> QED
    BY <1>2, <1>3, <2>1, <2>2 DEF OrderRow, Volume
<1>5. OpenIds(s) = {o} /\ Remaining(o) = n
  BY <1>1, <1>2, OpensIsOpenIds
<1>6. VolumeOf({o}) = n /\ ValueOf({o}) = n * price
  <2>1. n \in Int /\ price \in Int /\ Remaining(o) = n /\ orders[o].price = price
    BY <1>3, <1>4, <1>5
  <2> HIDE <1>1
  <2> QED
    BY <2>1, OneTerm, ZenonT(30)
<1>7. (n * price) \div n = price
  BY <1>4 DEF Volume
<1>8. Max({o}) = o
  BY <1>4 DEF Max
<1>9. RestoredPosition(s) = [side |-> SideOf(orders[o].way), amount |-> n, entry |-> price,
                             order |-> o, fee |-> FeeRate * n]
  BY <1>5, <1>6, <1>7, <1>8 DEF RestoredPosition, VolumeOf, ValueOf
<1>10. FeeRate * n \in Int
  BY <1>4, PaperAssumption
<1>11. RestoredPosition(s) \in Holding
  BY <1>4, <1>9, <1>10 DEF Holding, Sides, SideOf
<1> QED
  BY <1>1, <1>2, <1>3, <1>9, <1>11 DEF InBook

\* A restart makes memory what the database says, and nobody is at work after it.
LEMMA RestartKeeps ==
  ASSUME AccountInv, EntriesInv, Restart
  PROVE  AccountInv'
<1>1. /\ positions' = RestoredPositions /\ tracked' = RestoredPositions
      /\ task' = [a \in Tasks |-> Idle] /\ UNCHANGED <<db, failures>>
      /\ crossed' = {s \in Symbols : \E id, other \in OpenIds(s) : id # other}
  BY DEF Restart
<1>2. PICK R : R = RestoredPositions
  OBVIOUS
<1>3. /\ \A s : s \in DOMAIN R <=> s \in Symbols /\ Opens(orders, trades, s) # {}
      /\ \A s \in DOMAIN R : R[s] = RestoredPosition(s)
  <2>1. R = [s \in {s \in Symbols : OpenIds(s) # {}} |-> RestoredPosition(s)]
    BY <1>2 DEF RestoredPositions
  <2>2. \A s : OpenIds(s) = Opens(orders, trades, s)
    BY OpensIsOpenIds
  <2> QED
    BY <2>1, <2>2
<1>4. \A s \in DOMAIN R : R[s] \in Holding
  BY <1>3, RestoredIsHolding DEF AccountInv
<1>5. Idle.pc = "idle" /\ \A a \in Tasks : task'[a] = Idle
  BY <1>1 DEF Idle
<1>6. Typed'
  <2>1. \A s \in DOMAIN R : s \in Symbols /\ R[s] \in Tracking
    BY <1>3, <1>4 DEF Holding, Tracking, Volume
  <2> QED
    BY <1>1, <1>2, <1>3, <1>4, <1>5, <2>1, SameTables DEF AccountInv, Typed
<1>7. ASSUME NEW s \in Symbols \ crossed' PROVE BookInv(s)' /\ TrackInv(s)'
  <2>1. Opens(orders', trades', s) = Opens(orders, trades, s)
    BY <1>1, SameTables
  <2>2. \A p, n : InBook(orders', trades', s, p, n) <=> InBook(orders, trades, s, p, n)
    BY <1>1, SameTables
  <2>3. CASE s \in DOMAIN R
    <3>1. PICK o : o \in Opens(orders, trades, s)
      BY <1>3, <2>3
    <3>2. \A id \in Opens(orders, trades, s) : id = o
      BY <1>1, <1>7, <3>1, OpensIsOpenIds
    <3>3. Opens(orders, trades, s) = {o}
      BY <3>1, <3>2
    <3>4. R[s] = RestoredPosition(s)
      BY <1>3, <2>3
    <3>5. InBook(orders, trades, s, R[s], R[s].amount)
      BY <3>3, <3>4, RestoredIsInBook DEF AccountInv
    <3> QED
      BY <1>1, <1>2, <2>2, <2>3, <3>5 DEF BookInv, Quiet, TrackInv, Copies
  <2>4. CASE s \notin DOMAIN R
    BY <1>1, <1>2, <1>3, <2>1, <2>4 DEF BookInv, Quiet, TrackInv
  <2> QED
    BY <2>3, <2>4
<1>8. \A a \in Tasks : \A s : ~On(a, s)'
  BY <1>5 DEF On
<1> QED
  BY <1>6, <1>7, <1>8 DEF AccountInv, SymbolInv, AloneAt

\* What could not be read is nowhere in memory, which is right of the symbols without open orders.
LEMMA UnreadKeeps ==
  ASSUME AccountInv, RestartUnread
  PROVE  AccountInv'
<1>1. /\ positions' = Nothing /\ tracked' = Nothing /\ task' = [a \in Tasks |-> Idle]
      /\ UNCHANGED db /\ failures' = failures + 1
      /\ crossed' = {s \in Symbols : OpenIds(s) # {}}
  BY DEF RestartUnread
<1>2. DOMAIN positions' = {} /\ DOMAIN tracked' = {}
  BY <1>1 DEF Nothing
<1>3. Idle.pc = "idle" /\ \A a \in Tasks : task'[a] = Idle
  BY <1>1 DEF Idle
<1>4. Typed'
  <2>1. failures' \in Nat
    BY <1>1 DEF AccountInv, Typed
  <2> QED
    BY <1>1, <1>2, <1>3, <2>1, SameTables DEF AccountInv, Typed
<1>5. ASSUME NEW s \in Symbols \ crossed' PROVE BookInv(s)' /\ TrackInv(s)'
  <2>1. Opens(orders, trades, s) = {}
    BY <1>1, <1>5, OpensIsOpenIds
  <2>2. Opens(orders', trades', s) = {}
    BY <1>1, <2>1, SameTables
  <2> QED
    BY <1>2, <2>2 DEF BookInv, Quiet, TrackInv
<1>6. \A a \in Tasks : \A s : ~On(a, s)'
  BY <1>3 DEF On
<1> QED
  BY <1>4, <1>5, <1>6 DEF AccountInv, SymbolInv, AloneAt

LEMMA AccountInit == Init => AccountInv
<1> SUFFICES ASSUME Init PROVE AccountInv
  OBVIOUS
<1>1. /\ positions = Nothing /\ tracked = Nothing /\ orders = <<>> /\ trades = {}
      /\ task = [a \in Tasks |-> Idle] /\ failures = 0
  BY DEF Init
<1>2. DOMAIN positions = {} /\ DOMAIN tracked = {}
  BY <1>1 DEF Nothing
<1>3. Len(orders) = 0 /\ orders \in Seq(OrderRow) /\ DOMAIN orders = {} /\ 1..Len(orders) = {}
  BY <1>1
<1>4. Sound(orders, trades)
  BY <1>1, <1>3, FS_EmptySet DEF Sound
<1>5. Idle.pc = "idle" /\ \A a \in Tasks : task[a] = Idle
  BY <1>1 DEF Idle
<1>6. Typed
  BY <1>1, <1>2, <1>4, <1>5 DEF Typed
<1>7. \A s \in Symbols : BookInv(s) /\ TrackInv(s)
  BY <1>2, <1>3 DEF BookInv, Quiet, TrackInv, Opens
<1>8. \A a \in Tasks : \A s : ~On(a, s)
  BY <1>5 DEF On
<1> QED
  BY <1>6, <1>7, <1>8 DEF AccountInv, SymbolInv, AloneAt

LEMMA AccountStutter == ASSUME AccountInv, UNCHANGED vars PROVE AccountInv'
<1>1. /\ positions' = positions /\ tracked' = tracked /\ orders' = orders /\ trades' = trades
      /\ task' = task /\ failures' = failures /\ crossed' = crossed
  BY DEF vars, memory, db, marks
<1>2. Typed'
  BY <1>1 DEF AccountInv, Typed
<1>3. \A k : SameAt(k)
  BY <1>1 DEF SameAt
<1>4. ASSUME NEW s \in Symbols \ crossed' PROVE SymbolInv(s)'
  <2>1. SymbolInv(s)
    BY <1>1, <1>4 DEF AccountInv
  <2>2. \A b, k : On(b, k) <=> On(b, k)'
    BY <1>1 DEF On
  <2>3. BookInv(s)' /\ TrackInv(s)'
    BY <1>1, <1>3, <2>1, <2>2, SymbolInvStays DEF SymbolInv
  <2>4. \A a \in Tasks : TaskInv(a) => TaskInv(a)'
    BY <1>1, <1>3, TaskInvStays
  <2> QED
    BY <2>1, <2>2, <2>3, <2>4 DEF SymbolInv, AloneAt
<1> QED
  BY <1>2, <1>4 DEF AccountInv

LEMMA AccountStep ==
  ASSUME EntriesInv, AccountInv, [Next]_vars
  PROVE  AccountInv'
<1>1. ASSUME NEW a \in Openers, Open(a) PROVE AccountInv'
  <2>0. a \in Tasks /\ "idle" \notin {"priced", "insert", "register"}
    BY DEF Openers
  <2>1. ASSUME NEW s \in Symbols, CheckFree(a, s) PROVE AccountInv'
    BY <2>1, CheckFreeKeeps, CrossedCheckFree
  <2>2. CASE Buy(a) \/ SellShort(a)
    BY <2>2, FillKeeps, CrossedBuy, CrossedSellShort
  <2>3. CASE SellLong(a)
    BY <2>3, GiveUpKeeps, CrossedSellLong
  <2>4. CASE PriceUnknown(a) \/ RejectSell(a)
    <3>1. task[a].pc # "idle" /\ crossed' = crossed
      BY <2>4 DEF PriceUnknown, RejectSell, marks
    <3> QED
      BY <2>0, <2>4, <3>1, GiveUpKeeps, CrossedGivesUp
  <2>5. CASE InsertFails(a)
    <3>1. task[a].pc # "idle" /\ crossed' = crossed \cup {task[a].symbol}
      BY <2>5 DEF InsertFails
    <3> QED
      BY <2>0, <2>5, <3>1, CrossedGivesUp
  <2>6. CASE InsertOrder(a)
    BY <2>6, InsertOrderKeeps, CrossedInsert
  <2>7. CASE Register(a)
    BY <2>7, RegisterKeeps, CrossedRegister
  <2> QED
    BY <1>1, <2>1, <2>2, <2>3, <2>4, <2>5, <2>6, <2>7 DEF Open
<1>2. ASSUME NEW s \in Symbols, LoopDrops(s) \/ LoopStartsClose(s) \/ ApiStartsClose(s)
      PROVE  AccountInv'
  BY <1>2, LoopDropsKeeps, StartsKeep, CrossedStarts
<1>3. ASSUME NEW a \in Closers, Close(a) PROVE AccountInv'
  <2>1. CASE RecordClose(a)
    BY <2>1, RecordCloseKeeps, CrossedRecord
  <2>2. CASE RecordFails(a)
    <3>1. a \in Tasks /\ task[a].pc # "idle" /\ crossed' = crossed
      BY <2>2 DEF RecordFails, Closers, marks
    <3> QED
      BY <2>2, <3>1, RecordFailsKeeps, CrossedGivesUp
  <2>3. CASE ApplyClose(a)
    BY <2>3, ApplyCloseKeeps, CrossedApply
  <2> QED
    BY <1>3, <2>1, <2>2, <2>3 DEF Close
<1>4. CASE LoopSettles
  BY <1>4, LoopSettlesKeeps, CrossedSettles
<1>5. CASE ResetPaperAccount \/ ClearTestData
  BY <1>5, ResetKeeps
<1>6. CASE Restart \/ RestartUnread
  BY <1>6, RestartKeeps, UnreadKeeps
<1>7. CASE UNCHANGED vars
  BY <1>7, AccountStutter
<1> QED
  BY <1>1, <1>2, <1>3, <1>4, <1>5, <1>6, <1>7 DEF Next

LEMMA AccountAlways == Spec => [](EntriesInv /\ AccountInv)
<1>1. EntriesInv /\ AccountInv /\ [Next]_vars => EntriesInv' /\ AccountInv'
  BY EntriesStep, AccountStep
<1> QED
  BY <1>1, EntriesInit, AccountInit, PTL DEF Spec

\* Memory and database tell the same positions, with side, volume, entry price and order, for every
\* symbol that no task is in the middle of: a restart finds what was there
\* (_load_open_positions_from_db).  Nothing is assumed of the tasks, the writes or the restarts; the
\* symbols where two tasks met or a write failed are left out until the next restart that reads them.
THEOREM PositionsStayBooked == Spec => []PositionsAreBooked
<1>1. AccountInv => PositionsAreBooked
  <2> SUFFICES ASSUME AccountInv, NEW s \in Symbols \ crossed,
                      \A a \in Tasks : Unsettled(a) => task[a].symbol # s
               PROVE  /\ s \in DOMAIN positions <=> OpenIds(s) # {}
                      /\ s \in DOMAIN positions =>
                           LET r == RestoredPosition(s)
                           IN \A f \in {"side", "amount", "entry", "order"} : positions[s][f] = r[f]
    BY DEF PositionsAreBooked
  <2>1. Quiet(s)
    BY DEF AccountInv, SymbolInv, BookInv
  <2>2. OpenIds(s) = Opens(orders, trades, s)
    BY OpensIsOpenIds
  <2>3. CASE s \in DOMAIN positions
    <3>1. PICK p : p = positions[s]
      OBVIOUS
    <3>2. PICK r : r = RestoredPosition(s)
      OBVIOUS
    <3>3. InBook(orders, trades, s, p, p.amount) /\ p \in Holding
      BY <2>1, <2>3, <3>1 DEF Quiet, AccountInv, Typed
    <3>4. Opens(orders, trades, s) = {p.order}
      BY <3>3 DEF InBook
    <3>5. InBook(orders, trades, s, r, r.amount)
      BY <3>2, <3>4, RestoredIsInBook DEF AccountInv
    <3>6. p.order = r.order /\ p.side = r.side /\ p.entry = r.entry /\ p.amount = r.amount
      <4>1. {p.order} = {r.order}
        BY <3>3, <3>5 DEF InBook
      <4>2. p.order = r.order
        BY <4>1
      <4> QED
        BY <3>3, <3>5, <4>2 DEF InBook
    <3>7. \A f \in {"side", "amount", "entry", "order"} : p[f] = r[f]
      BY <3>6
    <3> QED
      BY <2>2, <2>3, <3>1, <3>2, <3>4, <3>7
  <2>4. CASE s \notin DOMAIN positions
    BY <2>1, <2>2, <2>4 DEF Quiet
  <2> QED
    BY <2>3, <2>4
<1> QED
  BY <1>1, AccountAlways, PTL

\* What one step closes of an order, where no two tasks have met.
LEMMA ClosesWithin ==
  ASSUME EntriesInv, AccountInv, NEW a \in Closers, RecordClose(a), NEW id \in DOMAIN orders,
         orders[id].symbol \notin crossed,
         Closed(trades', id) > Closed(trades, id)
  PROVE  Closed(trades', id) <= orders[id].amount
<1>1. PICK t : t = task[a]
  OBVIOUS
<1>2. PICK s, o, pnl : s = t.symbol /\ o = t.order /\ pnl = PnlOf(t)
  OBVIOUS
<1> DEFINE x == [open |-> o, close |-> Len(orders) + 1, amount |-> t.amount, pnl |-> pnl]
<1>3. t.pc = "record" /\ Exists(o) /\ trades' = trades \cup {x}
  BY <1>1, <1>2 DEF RecordClose
<1>4. a \in Tasks /\ t \in Closing
  BY <1>1, <1>3, TaskKinds DEF AccountInv, Closers
<1>5. /\ s \in Symbols /\ t.amount \in Nat /\ t.entry \in Int /\ t.fee \in Int /\ t.price \in Nat
      /\ o \in Nat
  BY <1>2, <1>4 DEF Closing, Volume
<1>6. pnl \in Int
  <2> HIDE DEF x
  <2> QED
    BY <1>2, <1>5, PaperAssumption DEF PnlOf
<1>7. o \in 0..Len(orders) /\ (o = 0 \/ orders[o].symbol = s) /\ Len(orders) \in Nat
  <2>1. Of(o, s)
    BY <1>1, <1>2, <1>3, <1>4 DEF EntriesInv, TasksInv, Carries
  <2> QED
    BY <1>3, <2>1, SoundRows DEF Of, Entry, Exists, AccountInv, Typed
<1>8. x \in TradeRow /\ x.open = o /\ x.amount = t.amount /\ x.close = Len(orders) + 1
  BY <1>5, <1>6, <1>7 DEF TradeRow
<1> HIDE DEF x
<1>9. Sound(orders, trades)
  BY DEF AccountInv, Typed
<1>10. x \notin trades
  BY <1>7, <1>8, <1>9 DEF Sound
<1>11. /\ Closed(trades, id) \in Int
       /\ Closed(trades', id) = IF o = id THEN Closed(trades, id) + t.amount ELSE Closed(trades, id)
  BY <1>3, <1>8, <1>9, <1>10, ClosedByOneMore DEF Sound
<1>12. o = id
  BY <1>11
<1>13. s \notin crossed /\ id \in 1..Len(orders)
  BY <1>7, <1>9, <1>12, SoundRows
<1>14. /\ CloseInv(a, t) /\ Quiet(s) /\ s \in DOMAIN positions /\ positions[s] \in Holding
       /\ t.amount \in Nat
  BY <1>1, <1>2, <1>3, <1>13, ClosingTask
<1>15. PICK p : p = positions[s]
  OBVIOUS
<1>16. p.amount >= t.amount /\ p.amount \in Int /\ Left(orders, trades, o) = p.amount
  <2>1. p.order = o /\ p.amount = IF t.partial THEN 2 * t.amount ELSE t.amount
    BY <1>2, <1>14, <1>15 DEF CloseInv, Concerns
  <2>2. Left(orders, trades, p.order) = p.amount
    BY <1>14, <1>15 DEF Quiet, InBook
  <2>3. t.partial \in BOOLEAN
    BY <1>4 DEF Closing
  <2> QED
    BY <1>14, <2>1, <2>2, <2>3
<1>17. orders[id].amount \in Int
  BY <1>9, <1>13, SoundRows DEF OrderRow
<1> QED
  BY <1>11, <1>12, <1>14, <1>16, <1>17 DEF Left

\* Only closes and resets change the trades.
LEMMA TradesMove ==
  ASSUME [Next]_vars, trades' # trades
  PROVE  \/ ResetPaperAccount \/ ClearTestData
         \/ \E a \in Closers : RecordClose(a)
<1>1. ~UNCHANGED db
  BY DEF db
<1>2. ~UNCHANGED vars
  BY DEF vars, db
<1>3. ASSUME NEW a \in Openers PROVE ~Open(a)
  BY DEF Open, CheckFree, Buy, SellShort, SellLong, PriceUnknown, RejectSell, InsertOrder,
         InsertFails, Register, db
<1>4. ASSUME NEW s \in Symbols PROVE ~(LoopDrops(s) \/ LoopStartsClose(s) \/ ApiStartsClose(s))
  BY <1>1 DEF LoopDrops, LoopStartsClose, ApiStartsClose
<1>5. ASSUME NEW a \in Closers, Close(a) PROVE RecordClose(a)
  BY <1>1, <1>5 DEF Close, RecordFails, ApplyClose
<1>6. ~LoopSettles /\ ~Restart /\ ~RestartUnread
  BY <1>1 DEF LoopSettles, Restart, RestartUnread
<1> QED
  BY <1>2, <1>3, <1>4, <1>5, <1>6 DEF Next

LEMMA ClosedNext == \A id : ClosedOf(id)' = Closed(trades', id)
<1>1. (\A id : ClosedOf(id) = Closed(trades, id))'
  <2>1. \A id : ClosedOf(id) = Closed(trades, id)
    BY OpensIsOpenIds
  <2> QED
    BY <2>1, PTL
<1> QED
  BY <1>1

LEMMA CloseFits ==
  ASSUME EntriesInv, AccountInv, [Next]_vars,
         NEW id \in DOMAIN orders, Closed(trades', id) > Closed(trades, id),
         orders[id].symbol \notin crossed
  PROVE  Closed(trades', id) <= orders[id].amount
<1>1. Closed(trades, id) \in Int
  BY ClosedIsInt DEF AccountInv, Typed, Sound
<1>2. trades' # trades
  BY <1>1
<1>3. CASE ResetPaperAccount \/ ClearTestData
  <2>1. trades' = {}
    BY <1>3 DEF ResetPaperAccount, ClearTestData, DeleteHistory
  <2>2. Closed(trades', id) = 0
    BY <2>1, ClosedByNone
  <2>3. orders[id].amount \in Nat
    BY SoundRows DEF AccountInv, Typed, OrderRow
  <2> QED
    BY <2>2, <2>3
<1>4. ASSUME NEW a \in Closers, RecordClose(a) PROVE Closed(trades', id) <= orders[id].amount
  BY <1>4, ClosesWithin
<1> QED
  BY <1>2, <1>3, <1>4, TradesMove

\* No close takes more from an order than is left of it, whatever parts the loop and the dashboard
\* close it in (execute_close_order), where no two tasks have met on the symbol.
THEOREM ClosesStayWithin == Spec => ClosesFitTheOrder
<1>1. ASSUME EntriesInv, AccountInv, [Next]_vars
      PROVE  \A id \in DOMAIN orders :
               ClosedOf(id)' > ClosedOf(id) /\ orders[id].symbol \notin crossed =>
                 ClosedOf(id)' <= orders[id].amount
  <2>1. ASSUME NEW id \in DOMAIN orders, ClosedOf(id)' > ClosedOf(id),
               orders[id].symbol \notin crossed
        PROVE  ClosedOf(id)' <= orders[id].amount
    <3>1. ClosedOf(id) = Closed(trades, id)
      BY OpensIsOpenIds
    <3>2. ClosedOf(id)' = Closed(trades', id)
      BY ClosedNext
    <3> QED
      BY <1>1, <2>1, <3>1, <3>2, CloseFits
  <2> QED
    BY <2>1
<1> QED
  BY <1>1, AccountAlways, PTL DEF Spec, ClosesFitTheOrder

-----------------------------------------------------------------------------
(* Money.                                                                  *)

\* What the tables O and T say of the cash: the open longs took it, and every trade added its part.
Held(O, T) == {id \in DOMAIN O : /\ O[id].symbol \in Symbols /\ O[id].way = "buy"
                                 /\ \A t \in T : t.close # id
                                 /\ Left(O, T, id) > 0}
Dues(O, T) == [id \in DOMAIN O |-> Left(O, T, id) * (O[id].price + FeeRate)]
Cost(O, T) == SumOf(Dues(O, T), Held(O, T))
Gains(T) == SumOf([t \in TradeRow |-> t.pnl], T)
Books(O, T) == Capital + Gains(T) - Cost(O, T)

LEMMA CostSum ==
  ASSUME NEW S, IsFiniteSet(S), NEW f,
         \A id \in S : f[id] \in Int /\ f[id] = Remaining(id) * (orders[id].price + FeeRate)
  PROVE  MapThenSumSet(LAMBDA id : Remaining(id) * (orders[id].price + FeeRate), S) = SumOf(f, S)
<1> DEFINE B(h) == [T \in SUBSET S |-> IF T = {} THEN 0
                      ELSE LET x == CHOOSE x \in T : TRUE
                           IN Remaining(x) * (orders[x].price + FeeRate) + h[T \ {x}]]
           c == CHOOSE h : h = B(h)
<1>1. MapThenSumSet(LAMBDA id : Remaining(id) * (orders[id].price + FeeRate), S) = c[S]
  BY DEF MapThenSumSet, MapThenFoldSet
<1>2. PICK g : Additive(g, f, S)
  BY AdditiveExists
<1>3. ASSUME NEW h PROVE h = B(h) <=> Fold(h, f, S)
  <2> DEFINE F == [T \in SUBSET S |-> IF T = {} THEN 0
                      ELSE LET x == CHOOSE x \in T : TRUE IN f[x] + h[T \ {x}]]
  <2>1. \A T \in SUBSET S : T # {} => (CHOOSE x \in T : TRUE) \in S
    OBVIOUS
  <2>2. F = B(h)
    BY <2>1
  <2> QED
    BY <2>2 DEF Fold
<1>4. g = B(g)
  BY <1>2, <1>3, AdditiveFolds
<1> HIDE DEF B
<1>5. c = B(c)
  BY <1>4
<1> HIDE DEF c
<1>6. c = g
  BY <1>2, <1>3, <1>5, FoldIsAdditive
<1> QED
  BY <1>1, <1>2, <1>6, SumIs

LEMMA HeldIsFinite ==
  ASSUME NEW O, NEW T, Sound(O, T)
  PROVE  /\ IsFiniteSet(Held(O, T)) /\ Held(O, T) \subseteq 1..Len(O)
         /\ \A id \in 1..Len(O) : /\ Dues(O, T)[id] \in Int
                                  /\ Dues(O, T)[id] = Left(O, T, id) * (O[id].price + FeeRate)
<1>1. Len(O) \in Nat /\ DOMAIN O = 1..Len(O) /\ 1 \in Int
  BY SoundRows
<1>2. Held(O, T) \subseteq 1..Len(O)
  BY <1>1 DEF Held
<1>3. IsFiniteSet(1..Len(O))
  BY <1>1, FS_Interval
<1>4. ASSUME NEW id \in 1..Len(O)
      PROVE  /\ Dues(O, T)[id] \in Int
             /\ Dues(O, T)[id] = Left(O, T, id) * (O[id].price + FeeRate)
  <2>1. Left(O, T, id) \in Int /\ O[id].price \in Int /\ FeeRate \in Int
    BY SoundRows, PaperAssumption DEF OrderRow
  <2>2. Dues(O, T)[id] = Left(O, T, id) * (O[id].price + FeeRate)
    BY <1>1 DEF Dues
  <2> QED
    BY <2>1, <2>2
<1> QED
  BY <1>2, <1>3, <1>4, FS_Subset

LEMMA GainsAreInt ==
  ASSUME NEW T, IsFiniteSet(T), T \subseteq TradeRow
  PROVE  Gains(T) \in Int
<1> DEFINE f == [t \in TradeRow |-> t.pnl]
<1>1. \A t \in T : f[t] \in Int
  BY DEF TradeRow
<1> HIDE DEF f
<1>2. SumOf(f, T) \in Int
  BY <1>1, SumIsInt
<1> QED
  BY <1>2 DEF Gains, f

LEMMA BooksAreInt ==
  ASSUME NEW O, NEW T, Sound(O, T)
  PROVE  Gains(T) \in Int /\ Cost(O, T) \in Int /\ Books(O, T) \in Int
<1>1. Gains(T) \in Int
  BY GainsAreInt DEF Sound
<1>2. Cost(O, T) \in Int
  <2> DEFINE f == Dues(O, T)
             S == Held(O, T)
  <2>1. IsFiniteSet(S) /\ \A id \in S : f[id] \in Int
    BY HeldIsFinite
  <2> HIDE DEF f, S
  <2>2. SumOf(f, S) \in Int
    BY <2>1, SumIsInt
  <2> QED
    BY <2>2 DEF f, S, Cost
<1> QED
  BY <1>1, <1>2, PaperAssumption DEF Books

LEMMA BooksAreRestored ==
  ASSUME Sound(orders, trades)
  PROVE  RestoredBalance = Books(orders, trades)
<1>1. RealizedPnl = Gains(trades)
  <2> DEFINE f == [t \in TradeRow |-> t.pnl]
  <2>1. \A t \in trades : f[t] \in Int /\ f[t] = t.pnl
    BY DEF Sound, TradeRow
  <2>2. IsFiniteSet(trades)
    BY DEF Sound
  <2> HIDE DEF f
  <2>3. MapThenSumSet(LAMBDA t : t.pnl, trades) = SumOf(f, trades)
    BY <2>1, <2>2, PnlSum
  <2> QED
    BY <2>3 DEF RealizedPnl, Gains, f
<1>2. CostBasis = Cost(orders, trades)
  <2> DEFINE f == Dues(orders, trades)
             S == Held(orders, trades)
  <2>1. /\ IsFiniteSet(S)
        /\ \A id \in S : f[id] \in Int /\ f[id] = Remaining(id) * (orders[id].price + FeeRate)
    BY HeldIsFinite, OpensIsOpenIds
  <2>2. {id \in UNION {OpenIds(s) : s \in Symbols} : orders[id].way = "buy"} = S
    <3>1. \A s : OpenIds(s) = Opens(orders, trades, s)
      BY OpensIsOpenIds
    <3>2. \A id : id \in UNION {OpenIds(s) : s \in Symbols}
                  <=> \E s \in Symbols : id \in Opens(orders, trades, s)
      BY <3>1
    <3>3. \A id : (\E s \in Symbols : id \in Opens(orders, trades, s)) /\ orders[id].way = "buy"
                  <=> id \in S
      BY DEF Held, Opens
    <3> HIDE DEF S
    <3> QED
      BY <3>2, <3>3
  <2> HIDE DEF f, S
  <2>3. MapThenSumSet(LAMBDA id : Remaining(id) * (orders[id].price + FeeRate), S) = SumOf(f, S)
    BY <2>1, CostSum
  <2> QED
    BY <2>2, <2>3 DEF CostBasis, Cost, f, S
<1> QED
  BY <1>1, <1>2 DEF RestoredBalance, Books

\* A new open order is paid for.
LEMMA OrderPaid ==
  ASSUME NEW O, NEW T, Sound(O, T), NEW r \in OrderRow, r.symbol \in Symbols, r.amount > 0
  PROVE  Books(Append(O, r), T)
           = Books(O, T) - (IF r.way = "buy" THEN r.amount * (r.price + FeeRate) ELSE 0)
<1>1. PICK N : N = Append(O, r)
  OBVIOUS
<1>2. PICK n : n = Len(O) + 1
  OBVIOUS
<1>3. /\ Sound(N, T) /\ Len(N) = n /\ N[n] = r /\ Left(N, T, n) = r.amount
      /\ \A id \in 1..Len(O) : N[id] = O[id] /\ Left(N, T, id) = Left(O, T, id)
  BY <1>1, <1>2, OrderAdded
<1>4. Len(O) \in Nat /\ DOMAIN O = 1..Len(O) /\ DOMAIN N = 1..n
  BY <1>3, SoundRows
<1>5. PICK S : S = Held(O, T)
  OBVIOUS
<1>6. PICK f : f = Dues(O, T)
  OBVIOUS
<1>7. PICK g : g = Dues(N, T)
  OBVIOUS
<1>8. /\ IsFiniteSet(S) /\ S \subseteq 1..Len(O) /\ \A id \in S : f[id] \in Int /\ f[id] = g[id]
      /\ g[n] = r.amount * (r.price + FeeRate) /\ g[n] \in Int
  <2>1. IsFiniteSet(S) /\ S \subseteq 1..Len(O) /\ \A id \in 1..Len(O) : f[id] \in Int
    BY <1>5, <1>6, HeldIsFinite
  <2>2. \A id \in 1..Len(O) : id \in DOMAIN N /\ id \in DOMAIN O
    BY <1>2, <1>4
  <2>3. \A id \in 1..Len(O) : f[id] = g[id]
    BY <1>3, <1>6, <1>7, <2>2 DEF Dues
  <2>4. n \in 1..Len(N)
    BY <1>2, <1>3, <1>4
  <2>5. g[n] = Left(N, T, n) * (N[n].price + FeeRate) /\ g[n] \in Int
    BY <1>3, <1>7, <2>4, HeldIsFinite
  <2>6. g[n] = r.amount * (r.price + FeeRate)
    BY <1>3, <2>5
  <2> QED
    BY <2>1, <2>3, <2>5, <2>6
<1>9. Held(N, T) = IF r.way = "buy" THEN S \cup {n} ELSE S
  <2>1. \A id \in 1..n : id \in 1..Len(O) \/ id = n
    BY <1>2, <1>4
  <2>2. \A id \in 1..Len(O) : id \in Held(N, T) <=> id \in S
    BY <1>2, <1>3, <1>4, <1>5 DEF Held
  <2>3. \A t \in T : t.close # n
    BY <1>2, <1>4 DEF Sound
  <2>4. n \in Held(N, T) <=> r.way = "buy"
    BY <1>2, <1>3, <1>4, <2>3 DEF Held
  <2>5. Held(N, T) \subseteq 1..n
    BY <1>4 DEF Held
  <2>6. CASE r.way = "buy"
    BY <1>8, <2>1, <2>2, <2>4, <2>5, <2>6
  <2>7. CASE r.way # "buy"
    <3>1. \A id : id \in Held(N, T) <=> id \in S
      BY <1>8, <2>1, <2>2, <2>4, <2>5, <2>7
    <3>2. Held(N, T) = S
      BY <3>1
    <3> QED
      BY <2>7, <3>2
  <2> QED
    BY <2>6, <2>7
<1>10. n \notin S
  BY <1>2, <1>4, <1>8
<1>11. SumOf(g, S) = SumOf(f, S) /\ SumOf(f, S) \in Int
  BY <1>8, SumOfSame, SumIsInt
<1>12. SumOf(g, S \cup {n}) = g[n] + SumOf(g, S)
  <2>1. \A id \in S : g[id] \in Int
    BY <1>8
  <2> QED
    BY <1>8, <1>10, <2>1, SumWith
<1>13. Cost(O, T) = SumOf(f, S) /\ Cost(N, T) = SumOf(g, Held(N, T))
  BY <1>5, <1>6, <1>7 DEF Cost
<1>14. Gains(T) \in Int /\ Capital \in Int
  BY BooksAreInt, PaperAssumption
<1>15. CASE r.way = "buy"
  <2>1. Cost(N, T) = g[n] + Cost(O, T)
    BY <1>9, <1>11, <1>12, <1>13, <1>15
  <2>2. Books(N, T) = Books(O, T) - g[n]
    BY <1>8, <1>11, <1>13, <1>14, <2>1 DEF Books
  <2> QED
    BY <1>1, <1>8, <1>15, <2>2
<1>16. CASE r.way # "buy"
  <2>1. Cost(N, T) = Cost(O, T)
    BY <1>9, <1>11, <1>13, <1>16
  <2>2. Books(N, T) = Books(O, T) - 0
    BY <1>11, <1>13, <1>14, <2>1 DEF Books
  <2> QED
    BY <1>1, <1>16, <2>2
<1> QED
  BY <1>15, <1>16

\* A close books its result, and frees its part of what the order has cost.
LEMMA ClosePaid ==
  ASSUME NEW O, NEW T, Sound(O, T), NEW r \in OrderRow, NEW x \in TradeRow,
         NEW s \in Symbols, NEW o \in Opens(O, T, s),
         x.open = o, x.close = Len(O) + 1, x.amount <= Left(O, T, o)
  PROVE  Books(Append(O, r), T \cup {x})
           = Books(O, T) + x.pnl + (IF O[o].way = "buy" THEN x.amount * (O[o].price + FeeRate) ELSE 0)
<1>1. PICK N : N = Append(O, r)
  OBVIOUS
<1>2. PICK U : U = T \cup {x}
  OBVIOUS
<1>3. o \in 1..Len(O) /\ Len(O) \in Nat /\ DOMAIN O = 1..Len(O) /\ O[o].symbol = s
  BY SoundRows DEF Opens
<1>4. x \notin T /\ Reduced(O, T, N, U, o, x.amount)
  <2>1. o \in 0..Len(O)
    BY <1>3
  <2> QED
    BY <1>1, <1>2, <2>1, CloseAdded
<1>5. /\ Sound(N, U) /\ \A id \in 1..Len(O) : N[id] = O[id]
      /\ Left(N, U, o) = Left(O, T, o) - x.amount
      /\ \A id \in 1..Len(O) : id # o => Left(N, U, id) = Left(O, T, id)
      /\ \A k : \A id : id \in Opens(N, U, k) <=> id \in Opens(O, T, k) /\ Left(N, U, id) > 0
  BY <1>3, <1>4 DEF Reduced
<1>6. x.pnl \in Int /\ x.amount \in Int /\ Capital \in Int /\ FeeRate \in Int /\ O[o].price \in Int
      /\ Left(O, T, o) \in Int
  BY <1>3, SoundRows, PaperAssumption DEF TradeRow, OrderRow
<1>7. Gains(U) = x.pnl + Gains(T) /\ Gains(T) \in Int
  <2> DEFINE f == [t \in TradeRow |-> t.pnl]
  <2>1. IsFiniteSet(T) /\ (\A t \in T : f[t] \in Int) /\ f[x] = x.pnl /\ f[x] \in Int
    BY DEF Sound, TradeRow
  <2> HIDE DEF f
  <2>2. SumOf(f, T \cup {x}) = f[x] + SumOf(f, T) /\ SumOf(f, T) \in Int
    BY <1>4, <2>1, SumWith
  <2> QED
    BY <1>2, <2>1, <2>2 DEF Gains, f
<1>8. PICK S : S = Held(O, T)
  OBVIOUS
<1>9. PICK R : R = Held(N, U)
  OBVIOUS
<1>10. PICK f : f = Dues(O, T)
  OBVIOUS
<1>11. PICK g : g = Dues(N, U)
  OBVIOUS
<1>12. /\ \A id : id \in S <=> (\E k \in Symbols : id \in Opens(O, T, k)) /\ O[id].way = "buy"
       /\ \A id : id \in R <=> (\E k \in Symbols : id \in Opens(N, U, k)) /\ N[id].way = "buy"
  BY <1>8, <1>9 DEF Held, Opens
<1>13. /\ IsFiniteSet(S) /\ S \subseteq 1..Len(O) /\ IsFiniteSet(R)
       /\ \A id \in S : f[id] \in Int
       /\ \A id \in R : g[id] \in Int
  <2>1. IsFiniteSet(S) /\ S \subseteq 1..Len(O) /\ \A id \in 1..Len(O) : f[id] \in Int
    BY <1>8, <1>10, HeldIsFinite
  <2>2. IsFiniteSet(R) /\ R \subseteq 1..Len(N) /\ \A id \in 1..Len(N) : g[id] \in Int
    BY <1>5, <1>9, <1>11, HeldIsFinite
  <2> QED
    BY <2>1, <2>2
<1>14. \A id : id \in R <=> id \in S /\ Left(N, U, id) > 0
  <2>1. \A id \in 1..Len(O) : N[id].way = O[id].way
    BY <1>5
  <2>2. \A k : Opens(O, T, k) \subseteq 1..Len(O)
    BY SoundRows
  <2> QED
    BY <1>5, <1>12, <2>1, <2>2
<1>15. \A id \in S : id # o => id \in R /\ g[id] = f[id]
  <2>1. ASSUME NEW id \in S, id # o PROVE id \in R /\ g[id] = f[id]
    <3>1. Left(N, U, id) = Left(O, T, id) /\ N[id] = O[id] /\ Left(O, T, id) > 0 /\ id \in DOMAIN O
      BY <1>3, <1>5, <1>8, <1>13, <2>1 DEF Held
    <3>2. id \in R
      BY <1>14, <3>1
    <3>3. id \in DOMAIN N
      BY <1>9, <3>2 DEF Held
    <3> QED
      BY <1>10, <1>11, <3>1, <3>2, <3>3 DEF Dues
  <2> QED
    BY <2>1
<1>16. Cost(O, T) = SumOf(f, S) /\ Cost(N, U) = SumOf(g, R)
  BY <1>8, <1>9, <1>10, <1>11 DEF Cost
<1>17. CASE O[o].way # "buy"
  <2>1. o \notin S
    BY <1>12, <1>17
  <2>2. R = S
    BY <1>14, <1>15, <2>1
  <2>3. SumOf(g, S) = SumOf(f, S) /\ SumOf(f, S) \in Int
    BY <1>13, <1>15, <2>1, SumOfSame, SumIsInt
  <2>4. Cost(N, U) = Cost(O, T) /\ Cost(O, T) \in Int
    BY <1>16, <2>2, <2>3
  <2>5. Books(N, U) = Books(O, T) + x.pnl + 0
    BY <1>6, <1>7, <2>4 DEF Books
  <2> QED
    BY <1>1, <1>2, <1>17, <2>5
<1>18. CASE O[o].way = "buy"
  <2>1. o \in S
    BY <1>12, <1>18
  <2>2. PICK W : W = S \ {o}
    OBVIOUS
  <2>3. IsFiniteSet(W) /\ W = R \ {o} /\ \A id \in W : f[id] \in Int /\ f[id] = g[id]
    <3>1. IsFiniteSet(W)
      BY <1>13, <2>2, FS_RemoveElement
    <3>2. W = R \ {o}
      BY <1>14, <1>15, <2>2
    <3> QED
      BY <1>13, <1>15, <2>2, <3>1, <3>2
  <2>4. SumOf(f, S) = f[o] + SumOf(f, W) /\ SumOf(f, W) \in Int
    BY ZenonT(40), <1>13, <2>1, <2>2, SumWithout
  <2>5. SumOf(g, W) = SumOf(f, W)
    BY <2>3, SumOfSame
  <2>6. PICK c : c = O[o].price + FeeRate
    OBVIOUS
  <2>7. PICK l : l = Left(O, T, o)
    OBVIOUS
  <2>8. f[o] = l * c /\ c \in Int /\ l \in Int
    BY <1>3, <1>6, <1>10, <2>6, <2>7 DEF Dues
  <2>9. SumOf(g, R) = (l - x.amount) * c + SumOf(f, W)
    <3>1. CASE o \in R
      <4>1. SumOf(g, R) = g[o] + SumOf(g, R \ {o})
        BY <1>13, <3>1, SumWithout
      <4>2. g[o] = (l - x.amount) * c
        <5>1. o \in DOMAIN N /\ N[o] = O[o] /\ Left(N, U, o) = l - x.amount
          BY <1>3, <1>5, <1>9, <2>7, <3>1 DEF Held
        <5> QED
          BY <1>11, <2>6, <5>1 DEF Dues
      <4> QED
        BY <2>3, <2>5, <4>1, <4>2
    <3>2. CASE o \notin R
      <4>1. l - x.amount = 0
        <5>1. ~(Left(N, U, o) > 0) /\ Left(N, U, o) = l - x.amount
          BY <1>5, <1>14, <2>1, <2>7, <3>2
        <5> QED
          BY <1>6, <2>7, <5>1
      <4>2. R = W
        BY <2>3, <3>2
      <4>3. (l - x.amount) * c = 0
        BY <2>8, <4>1
      <4> QED
        BY <2>4, <2>5, <4>2, <4>3
    <3> QED
      BY <3>1, <3>2
  <2>10. PICK m : m = x.amount
    OBVIOUS
  <2>11. m * c \in Int /\ l * c \in Int /\ (l - m) * c = l * c - m * c
    BY <1>6, <2>8, <2>10
  <2>12. PICK w : w = SumOf(f, W)
    OBVIOUS
  <2>13. Cost(O, T) = l * c + w /\ Cost(N, U) = l * c - m * c + w /\ w \in Int
    BY <1>16, <2>4, <2>8, <2>9, <2>10, <2>11, <2>12
  <2>14. PICK y : y = l * c
    OBVIOUS
  <2>15. PICK z : z = m * c
    OBVIOUS
  <2>16. Cost(O, T) = y + w /\ Cost(N, U) = y - z + w /\ y \in Int /\ z \in Int /\ w \in Int
    BY <2>11, <2>13, <2>14, <2>15
  <2>17. Books(N, U) = Books(O, T) + x.pnl + z
    BY <1>6, <1>7, <2>16 DEF Books
  <2> QED
    BY <1>1, <1>2, <1>18, <2>6, <2>10, <2>15, <2>17
<1> QED
  BY <1>17, <1>18

\* Without rows the account has its capital.
LEMMA NothingBooked ==
  ASSUME NEW O, NEW T, Sound(O, T), T = {}, \A id \in 1..Len(O) : O[id] = Deleted
  PROVE  Books(O, T) = Capital
<1>1. Held(O, T) = {}
  <2>1. DOMAIN O = 1..Len(O) /\ Deleted.amount = 0
    BY SoundRows DEF Deleted
  <2>2. \A id \in 1..Len(O) : Left(O, T, id) = 0
    <3>1. \A id : Closed(T, id) = 0
      BY ClosedByNone
    <3> QED
      BY <2>1, <3>1 DEF Left
  <2> QED
    BY <2>1, <2>2 DEF Held
<1>2. Cost(O, T) = 0 /\ Gains(T) = 0
  BY <1>1, SumOfNothing DEF Cost, Gains
<1> QED
  BY <1>2, PaperAssumption DEF Books

\* What a task between its two halves will still do to the cash, by its record.
Owed(t) ==
  IF t.pc = "insert" /\ t.way = "buy" THEN t.amount * t.price + t.amount * FeeRate
  ELSE IF t.pc = "apply" THEN IF t.side = "long" THEN t.amount * t.price - FeeRate * t.amount
                              ELSE PnlOf(t)
  ELSE 0
Owes(a) == IF a \in Tasks THEN Owed(task[a]) ELSE 0

\* The share of the entry fee follows the volume, in the loop's closes and in its copies of what is
\* held, once whoever opens it has told the loop.  (The dashboard's closes take what the engine has.)
Charged(p) == p.fee = FeeRate * p.amount
IsClosing(t) == t.pc \in {"record", "apply", "forget"}
FeesInv == /\ \A s : s \in DOMAIN tracked /\ s \in DOMAIN positions /\ ~Opening(s)
                    => Charged(tracked[s])
           /\ \A a \in Tasks : a # "api" /\ IsClosing(task[a]) => Charged(task[a])

CashInv == balance = Books(orders, trades) - Owes("signal") - Owes("manual") - Owes("loop")
                       - Owes("api")

MoneyInv == FeesInv /\ CashInv

LEMMA OwedIsInt ==
  ASSUME NEW t \in TaskRecord
  PROVE  Owed(t) \in Int /\ (t.pc \notin {"insert", "apply"} => Owed(t) = 0)
<1>1. CASE t = Idle
  BY <1>1 DEF Owed, Idle
<1>2. CASE t \in Priced \cup Registering
  BY <1>2 DEF Owed, Priced, Registering
<1>3. CASE t \in Inserting
  <2>1. t.pc = "insert" /\ t.amount \in Int /\ t.price \in Int /\ FeeRate \in Int
    BY <1>3, PaperAssumption DEF Inserting, Volume
  <2> QED
    BY <2>1 DEF Owed
<1>4. CASE t \in Closing
  <2>1. /\ t.pc \in {"record", "apply", "forget"} /\ t.amount \in Int /\ t.price \in Int
        /\ t.entry \in Int /\ t.fee \in Int /\ FeeRate \in Int
    BY <1>4, PaperAssumption DEF Closing, Volume
  <2>2. PnlOf(t) \in Int
    BY <2>1 DEF PnlOf
  <2>3. t.amount * t.price - FeeRate * t.amount \in Int
    BY <2>1
  <2> QED
    BY <2>1, <2>2, <2>3 DEF Owed
<1> QED
  BY <1>1, <1>2, <1>3, <1>4 DEF TaskRecord

LEMMA CashIsInt == ASSUME AccountInv, CashInv PROVE balance \in Int /\ Books(orders, trades) \in Int
<1>1. \A b \in Tasks : Owed(task[b]) \in Int
  BY OwedIsInt DEF AccountInv, Typed, TaskRecord
<1>2. /\ Owes("signal") \in Int /\ Owes("manual") \in Int /\ Owes("loop") \in Int
      /\ Owes("api") \in Int
  BY <1>1 DEF Owes
<1>3. Books(orders, trades) \in Int
  BY BooksAreInt DEF AccountInv, Typed
<1> QED
  BY <1>2, <1>3 DEF CashInv

\* One task moves on, and what it has done to the cash is what it owes the less.
LEMMA CashMoves ==
  ASSUME AccountInv, AccountInv', CashInv, NEW a \in Tasks,
         \A b \in Tasks : b # a => task'[b] = task[b],
         NEW d \in Int, NEW e \in Int, balance' = balance + d,
         Books(orders', trades') = Books(orders, trades) + e,
         Owed(task'[a]) = Owed(task[a]) + e - d
  PROVE  CashInv'
<1>1. PICK x : x = Books(orders, trades)
  OBVIOUS
<1>2. x \in Int
  BY <1>1, BooksAreInt DEF AccountInv, Typed
<1>3. PICK o : o = Owed(task[a])
  OBVIOUS
<1>4. \A b \in Tasks : Owed(task[b]) \in Int
  BY OwedIsInt DEF AccountInv, Typed, TaskRecord
<1>5. /\ Owes("signal") \in Int /\ Owes("manual") \in Int /\ Owes("loop") \in Int
      /\ Owes("api") \in Int
  BY <1>4 DEF Owes
<1>6. Owes(a) = o /\ o \in Int /\ Owes(a)' = o + e - d
  BY <1>3, <1>4 DEF Owes
<1>7. \A b : b # a => Owes(b)' = Owes(b)
  BY DEF Owes
<1>8. a \in {"signal", "manual", "loop", "api"}
  BY PaperAssumption
<1>9. balance = x - Owes("signal") - Owes("manual") - Owes("loop") - Owes("api")
  BY <1>1 DEF CashInv
<1>10. balance' = (x + e) - Owes("signal")' - Owes("manual")' - Owes("loop")' - Owes("api")'
  <2>1. CASE a = "signal"
    <3>1. Owes("manual")' = Owes("manual") /\ Owes("loop")' = Owes("loop") /\ Owes("api")' = Owes("api")
      BY <1>7, <2>1
    <3> QED
      BY <1>2, <1>5, <1>6, <1>9, <2>1, <3>1
  <2>2. CASE a = "manual"
    <3>1. Owes("signal")' = Owes("signal") /\ Owes("loop")' = Owes("loop") /\ Owes("api")' = Owes("api")
      BY <1>7, <2>2
    <3> QED
      BY <1>2, <1>5, <1>6, <1>9, <2>2, <3>1
  <2>3. CASE a = "loop"
    <3>1. Owes("manual")' = Owes("manual") /\ Owes("signal")' = Owes("signal") /\ Owes("api")' = Owes("api")
      BY <1>7, <2>3
    <3> QED
      BY <1>2, <1>5, <1>6, <1>9, <2>3, <3>1
  <2>4. CASE a = "api"
    <3>1. Owes("manual")' = Owes("manual") /\ Owes("signal")' = Owes("signal") /\ Owes("loop")' = Owes("loop")
      BY <1>7, <2>4
    <3> QED
      BY <1>2, <1>5, <1>6, <1>9, <2>4, <3>1
  <2> QED
    BY <1>8, <2>1, <2>2, <2>3, <2>4
<1>11. Books(orders', trades') = x + e
  BY <1>1
<1> QED
  BY <1>10, <1>11 DEF CashInv

\* A step that moves no money.
LEMMA NoCashMoves ==
  ASSUME AccountInv, AccountInv', CashInv, NEW a \in Tasks,
         \A b \in Tasks : b # a => task'[b] = task[b],
         UNCHANGED <<balance, db>>,
         Owed(task'[a]) = Owed(task[a])
  PROVE  CashInv'
<1>1. Owed(task[a]) \in Int
  BY OwedIsInt DEF AccountInv, Typed, TaskRecord
<1>2. balance \in Int /\ Books(orders, trades) \in Int
  BY CashIsInt
<1>3. Books(orders', trades') = Books(orders, trades)
  BY DEF db
<1>4. /\ balance' = balance + 0 /\ Books(orders', trades') = Books(orders, trades) + 0
      /\ Owed(task'[a]) = Owed(task[a]) + 0 - 0
  BY <1>1, <1>2, <1>3
<1> QED
  BY <1>4, CashMoves

\* One task moves on, at one symbol.
LEMMA FeesStay ==
  ASSUME FeesInv, NEW a \in Tasks, NEW s, \A b \in Tasks : b # a => task'[b] = task[b],
         task[a].pc # "idle" => task[a].symbol = s,
         a # "api" /\ IsClosing(task'[a]) => Charged(task'[a]),
         \A k : k # s => (k \in DOMAIN positions' => k \in DOMAIN positions),
         \A k : k # s => (k \in DOMAIN tracked' => k \in DOMAIN tracked /\ tracked'[k] = tracked[k]),
         s \in DOMAIN tracked' /\ s \in DOMAIN positions' /\ ~Opening(s)' => Charged(tracked'[s])
  PROVE  FeesInv'
<1>1. \A b \in Tasks : b # "api" /\ IsClosing(task'[b]) => Charged(task'[b])
  BY DEF FeesInv
<1>2. ASSUME NEW k, k # s, k \in DOMAIN tracked', k \in DOMAIN positions', ~Opening(k)'
      PROVE  Charged(tracked'[k])
  <2>1. ~Opening(k)
    BY <1>2 DEF Opening, Openers, On
  <2>2. k \in DOMAIN tracked /\ k \in DOMAIN positions /\ tracked'[k] = tracked[k]
    BY <1>2
  <2>3. Charged(tracked[k])
    BY <2>1, <2>2 DEF FeesInv
  <2> QED
    BY <2>2, <2>3
<1>3. \A k : k \in DOMAIN tracked' /\ k \in DOMAIN positions' /\ ~Opening(k)' => Charged(tracked'[k])
  BY <1>2
<1> QED
  BY <1>1, <1>3 DEF FeesInv, IsClosing, Charged

\* What all openers' steps have in common.
LEMMA OpensMove ==
  ASSUME AccountInv, NEW a \in Openers, Open(a)
  PROVE  /\ a \in Tasks /\ \A b \in Tasks : b # a => task'[b] = task[b]
<1>1. a \in Tasks
  BY DEF Openers
<1>2. \E t : task' = [task EXCEPT ![a] = t]
  BY DEF Open, CheckFree, Buy, SellShort, SellLong, Fill, PriceUnknown, RejectSell, InsertOrder,
         InsertFails, Register
<1> QED
  BY <1>1, <1>2 DEF AccountInv, Typed

LEMMA ClosesMove ==
  ASSUME AccountInv, NEW a \in Closers, Close(a)
  PROVE  /\ a \in Tasks /\ \A b \in Tasks : b # a => task'[b] = task[b]
<1>1. a \in Tasks
  BY DEF Closers
<1>2. \E t : task' = [task EXCEPT ![a] = t]
  BY DEF Close, RecordClose, RecordFails, ApplyClose
<1> QED
  BY <1>1, <1>2 DEF AccountInv, Typed

\* The record an opener goes on with is of no close.
LEMMA OpenersMoney ==
  ASSUME AccountInv, AccountInv', MoneyInv, crossed = {}, crossed' = {},
         NEW a \in Openers, Open(a)
  PROVE  MoneyInv'
<1>1. a \in Tasks /\ \A b \in Tasks : b # a => task'[b] = task[b]
  BY OpensMove
<1>2. PICK t : t = task[a]
  OBVIOUS
<1>3. PICK u : u = task'[a]
  OBVIOUS
<1>4. t \in TaskRecord /\ u \in TaskRecord /\ Owed(t) \in Int /\ Owed(u) \in Int
  BY <1>1, <1>2, <1>3, OwedIsInt DEF AccountInv, Typed, TaskRecord
<1>5. /\ t.pc \notin {"insert", "apply"} => Owed(t) = 0
      /\ u.pc \notin {"insert", "apply"} => Owed(u) = 0
  BY <1>4, OwedIsInt
<1>6. DOMAIN task = Tasks /\ "priced" # "idle" /\ "insert" # "idle" /\ "register" # "idle"
  BY DEF AccountInv, Typed
<1>60. ASSUME NEW s, On(a, s)', t.pc # "idle" => t.symbol = s, ~IsClosing(u), tracked' = tracked,
              \A k : k # s => (k \in DOMAIN positions' => k \in DOMAIN positions)
       PROVE  FeesInv'
  <2>1. Opening(s)'
    BY <1>60 DEF Opening
  <2> QED
    BY <1>1, <1>2, <1>3, <1>60, <2>1, FeesStay DEF MoneyInv
<1>61. ASSUME NEW s \in Symbols, CheckFree(a, s) PROVE FeesInv'
  <2>1. u.pc = "priced" /\ u.symbol = s
    BY <1>1, <1>3, <1>6, <1>61 DEF CheckFree
  <2>2. t.pc = "idle" /\ positions' = positions /\ tracked' = tracked
    BY <1>2, <1>61 DEF CheckFree, Starts, memory
  <2>3. On(a, s)'
    BY <1>3, <2>1 DEF On
  <2>4. ~IsClosing(u)
    BY <2>1 DEF IsClosing
  <2> QED
    BY <1>60, <2>2, <2>3, <2>4
<1>62. ASSUME PriceUnknown(a) \/ RejectSell(a) PROVE FeesInv'
  <2>1. t.pc = "priced" /\ positions' = positions /\ tracked' = tracked
    BY <1>2, <1>62 DEF PriceUnknown, RejectSell, memory
  <2>2. u = Idle /\ Idle.pc = "idle" /\ ~IsClosing(Idle)
    BY <1>1, <1>3, <1>6, <1>62 DEF PriceUnknown, RejectSell, Idle, IsClosing
  <2>3. PricedInv(a, t)
    BY <1>1, <1>2, <2>1, AtWork DEF TaskInv
  <2>4. PICK s : s = t.symbol
    OBVIOUS
  <2>5. s \notin DOMAIN positions'
    BY <2>1, <2>3, <2>4 DEF PricedInv
  <2> QED
    BY <1>1, <1>2, <1>3, <2>1, <2>2, <2>4, <2>5, FeesStay DEF MoneyInv
<1>63. ASSUME Buy(a) \/ SellShort(a) PROVE FeesInv'
  <2>1. PICK price \in Prices : Fill(a, price, TRUE)
    BY <1>63 DEF Buy, SellShort
  <2>2. u.pc = "insert" /\ u.symbol = t.symbol
    BY <1>1, <1>2, <1>3, <1>6, <2>1 DEF Fill
  <2>3. PICK s : s = t.symbol
    OBVIOUS
  <2>4. tracked' = tracked /\ \E p : positions' = Put(positions, s, p)
    BY <1>2, <1>63, <2>3 DEF Buy, SellShort
  <2>5. \A k : k # s => (k \in DOMAIN positions' => k \in DOMAIN positions)
    BY <2>4 DEF Put
  <2>6. On(a, s)' /\ ~IsClosing(u)
    BY <1>3, <2>2, <2>3 DEF On, IsClosing
  <2> QED
    BY <1>60, <2>3, <2>4, <2>5, <2>6
<1>64. ASSUME InsertOrder(a) PROVE FeesInv'
  <2>1. u.pc = "register" /\ u.symbol = t.symbol
    BY <1>1, <1>2, <1>3, <1>6, <1>64 DEF InsertOrder
  <2>2. tracked' = tracked
    BY <1>64 DEF InsertOrder
  <2>3. DOMAIN positions' = DOMAIN positions
    BY <1>64 DEF InsertOrder
  <2>4. PICK s : s = t.symbol
    OBVIOUS
  <2>5. On(a, s)' /\ ~IsClosing(u)
    BY <1>3, <2>1, <2>4 DEF On, IsClosing
  <2> QED
    BY <1>60, <2>2, <2>3, <2>4, <2>5
<1>7. CASE \/ \E s \in Symbols : CheckFree(a, s)
           \/ PriceUnknown(a) \/ RejectSell(a)
  <2>1. UNCHANGED <<balance, db>> /\ t.pc \notin {"insert", "apply"} /\ u.pc \notin {"insert", "apply"}
    BY <1>1, <1>2, <1>3, <1>6, <1>7 DEF CheckFree, Starts, PriceUnknown, RejectSell, Idle, memory
  <2>2. FeesInv'
    BY <1>7, <1>61, <1>62
  <2>3. Owed(task'[a]) = Owed(task[a])
    BY <1>2, <1>3, <1>5, <2>1
  <2> QED
    BY <1>1, <2>1, <2>2, <2>3, NoCashMoves DEF MoneyInv
<1>8. CASE Buy(a) \/ SellShort(a)
  <2>1. PICK price \in Prices :
          /\ Fill(a, price, TRUE)
          /\ Buy(a) => balance' = balance - t.amount * price - t.amount * FeeRate
    BY <1>2, <1>8 DEF Buy, SellShort
  <2>2. t.pc = "priced" /\ t.way \in Ways /\ (Buy(a) => t.way = "buy") /\ (SellShort(a) => t.way = "sell")
    BY <1>2, <1>8 DEF Buy, SellShort, Ways
  <2>3. t \in Priced
    BY <1>1, <1>2, <2>2, TaskKinds DEF AccountInv
  <2>4. t.amount \in Int /\ price \in Int /\ FeeRate \in Int
    BY <2>3, PaperAssumption DEF Priced, Volume
  <2>5. u = [pc |-> "insert", symbol |-> t.symbol, way |-> t.way, amount |-> t.amount,
             price |-> price, opening |-> TRUE]
    BY <1>1, <1>2, <1>3, <2>1 DEF Fill, AccountInv, Typed
  <2>6. Owed(u) = IF t.way = "buy" THEN t.amount * price + t.amount * FeeRate ELSE 0
    BY <2>5 DEF Owed
  <2>7. UNCHANGED db /\ Books(orders', trades') = Books(orders, trades)
    BY <1>8 DEF Buy, SellShort, db
  <2>8. Books(orders, trades) \in Int
    BY BooksAreInt DEF AccountInv, Typed
  <2>9. balance \in Int
    BY CashIsInt DEF MoneyInv
  <2>10. CASE Buy(a)
    <3>1. PICK d : d = 0 - (t.amount * price + t.amount * FeeRate)
      OBVIOUS
    <3>2. t.amount * price \in Int /\ t.amount * FeeRate \in Int
      BY <2>4
    <3>3. d \in Int /\ balance' = balance + d
      BY <2>1, <2>9, <2>10, <3>1, <3>2
    <3>4. Owed(u) = Owed(t) + 0 - d
      BY <1>5, <2>2, <2>6, <2>10, <3>1, <3>2
    <3>5. Books(orders', trades') = Books(orders, trades) + 0
      BY <2>7, <2>8
    <3>6. Owed(task'[a]) = Owed(task[a]) + 0 - d
      BY <1>2, <1>3, <3>4
    <3>7. CashInv'
      BY <1>1, <3>3, <3>5, <3>6, CashMoves DEF MoneyInv
    <3> QED
      BY <1>63, <2>10, <3>7 DEF MoneyInv
  <2>11. CASE SellShort(a)
    <3>1. Owed(task'[a]) = Owed(task[a]) /\ UNCHANGED <<balance, db>>
      BY <1>2, <1>3, <1>5, <2>2, <2>6, <2>11 DEF SellShort
    <3>2. CashInv'
      BY <1>1, <3>1, NoCashMoves DEF MoneyInv
    <3> QED
      BY <1>63, <2>11, <3>2 DEF MoneyInv
  <2> QED
    BY <1>8, <2>10, <2>11
<1>9. CASE InsertOrder(a)
  <2>1. t.pc = "insert" /\ t \in Inserting
    BY <1>1, <1>2, <1>9, TaskKinds DEF InsertOrder, AccountInv
  <2>2. /\ t.symbol \in Symbols /\ t.amount \in Nat /\ t.amount > 0 /\ t.way \in Ways
        /\ t.price \in Nat /\ FeeRate \in Int
    BY <2>1, PaperAssumption DEF Inserting, Volume
  <2> DEFINE r == [symbol |-> t.symbol, way |-> t.way, amount |-> t.amount, price |-> t.price]
  <2>3. /\ orders' = Append(orders, r) /\ trades' = trades /\ balance' = balance
        /\ u.pc = "register"
    BY <1>1, <1>2, <1>3, <1>9 DEF InsertOrder, AccountInv, Typed
  <2>4. r \in OrderRow /\ r.symbol \in Symbols /\ r.amount > 0
    BY <2>2 DEF OrderRow, Ways
  <2>5. Books(Append(orders, r), trades)
          = Books(orders, trades) - (IF r.way = "buy" THEN r.amount * (r.price + FeeRate) ELSE 0)
    <3> HIDE DEF r
    <3> QED
      BY <2>4, OrderPaid DEF AccountInv, Typed
  <2>6. PICK e : e = 0 - Owed(t)
    OBVIOUS
  <2>7. Owed(t) = IF t.way = "buy" THEN t.amount * (t.price + FeeRate) ELSE 0
    <3>1. t.amount * (t.price + FeeRate) = t.amount * t.price + t.amount * FeeRate
      BY <2>2
    <3> QED
      BY <2>1, <3>1 DEF Owed
  <2>8. Books(orders, trades) \in Int
    BY BooksAreInt DEF AccountInv, Typed
  <2>9. Books(orders', trades') = Books(orders, trades) + e
    <3>1. Books(orders', trades') = Books(orders, trades) - Owed(t)
      BY <2>3, <2>5, <2>7
    <3> QED
      BY <1>4, <2>6, <2>8, <3>1
  <2>10. Owed(u) = 0 /\ Owed(t) + e - 0 = 0 /\ e \in Int
    BY <1>4, <1>5, <2>3, <2>6
  <2>11. balance \in Int
    BY CashIsInt DEF MoneyInv
  <2>12. CashInv'
    <3>1. balance' = balance + 0
      BY <2>3, <2>11
    <3>2. Owed(task'[a]) = Owed(task[a]) + e - 0
      BY <1>2, <1>3, <2>10
    <3> HIDE DEF r
    <3> QED
      BY <1>1, <2>9, <2>10, <3>1, <3>2, CashMoves DEF MoneyInv
  <2> QED
    BY <1>9, <1>64, <2>12 DEF MoneyInv
<1>10. CASE Register(a)
  <2>1. t.pc = "register" /\ t \in Registering
    BY <1>1, <1>2, <1>10, TaskKinds DEF Register, AccountInv
  <2>2. /\ t.symbol \in DOMAIN positions /\ positions[t.symbol].amount = t.amount
    <3>1. RegisterInv(a, t)
      BY <1>1, <1>2, <2>1, AtWork DEF TaskInv
    <3> QED
      BY <3>1 DEF RegisterInv, Opened
  <2>3. u = Idle /\ Idle.pc = "idle" /\ UNCHANGED <<balance, db>>
    BY <1>1, <1>3, <1>10 DEF Register, AccountInv, Typed, Idle, memory
  <2>4. PICK s : s = t.symbol
    OBVIOUS
  <2>5. FeesInv'
    <3> DEFINE h == IF a = "signal" /\ t.symbol \in DOMAIN positions THEN positions[t.symbol]
                    ELSE [amount |-> t.amount, entry |-> t.price]
               q == [side |-> SideOf(t.way), amount |-> h.amount, entry |-> h.entry,
                     order |-> t.order, fee |-> FeeRate * t.amount]
    <3>1. h.amount = t.amount
      BY <2>2
    <3>2. tracked' = Put(tracked, t.symbol, q) /\ positions' = positions
      BY <1>2, <1>10 DEF Register, memory
    <3> HIDE DEF h
    <3>3. Charged(q)
      BY <3>1 DEF Charged
    <3> HIDE DEF q
    <3>4. /\ tracked'[s] = q
          /\ \A k : k # s => (k \in DOMAIN tracked' => k \in DOMAIN tracked /\ tracked'[k] = tracked[k])
      BY <2>4, <3>2 DEF Put
    <3>5. ~IsClosing(u)
      BY <2>3 DEF IsClosing
    <3> QED
      BY <1>1, <1>2, <1>3, <2>4, <3>2, <3>3, <3>4, <3>5, FeesStay DEF MoneyInv
  <2>6. Owed(task'[a]) = Owed(task[a])
    BY <1>2, <1>3, <1>5, <2>1, <2>3
  <2>7. CashInv'
    BY <1>1, <2>3, <2>6, NoCashMoves DEF MoneyInv
  <2> QED
    BY <2>5, <2>7 DEF MoneyInv
<1>11. ~InsertFails(a) /\ ~SellLong(a)
  <2>1. ~InsertFails(a)
    BY DEF InsertFails
  <2>2. task[a].pc = "priced" => PricedInv(a, task[a])
    BY <1>1, AtWork DEF TaskInv
  <2>3. ~SellLong(a)
    BY <2>2 DEF SellLong, PricedInv
  <2> QED
    BY <2>1, <2>3
<1> QED
  BY <1>7, <1>8, <1>9, <1>10, <1>11 DEF Open

LEMMA HalfOfFee == ASSUME NEW m \in Int, m % 2 = 0, NEW r \in Int, NEW fee, fee = r * m
                   PROVE fee \div 2 = r * (m \div 2)
<1>1. PICK k \in Int : k = m \div 2
  OBVIOUS
<1>2. m = 2 * k
  BY <1>1
<1>3. PICK y \in Int : y = r * k
  BY <1>1
<1>4. r * (2 * k) = 2 * (r * k)
  BY <1>1
<1>5. fee = 2 * y
  BY <1>2, <1>3, <1>4
<1>6. (2 * y) \div 2 = y
  BY <1>3
<1> QED
  BY <1>1, <1>3, <1>5, <1>6

\* The loop or the dashboard begins a close, or the loop drops a symbol: no money moves.
LEMMA LoopMoney ==
  ASSUME AccountInv, AccountInv', MoneyInv, crossed = {}, crossed' = {}, NEW s \in Symbols,
         LoopDrops(s) \/ LoopStartsClose(s) \/ ApiStartsClose(s)
  PROVE  MoneyInv'
<1>1. CASE LoopDrops(s)
  <2>1. /\ "loop" \in Tasks /\ task' = task /\ UNCHANGED <<balance, positions, db>>
        /\ tracked' = Without(tracked, s)
    BY <1>1 DEF LoopDrops, memory
  <2>2. FeesInv'
    <3>1. \A k : Opening(k)' <=> Opening(k)
      BY <2>1 DEF Opening, On
    <3>2. \A k : k \in DOMAIN tracked' => k \in DOMAIN tracked /\ tracked'[k] = tracked[k]
      BY <2>1 DEF Without
    <3> QED
      BY <2>1, <3>1, <3>2 DEF MoneyInv, FeesInv, IsClosing, Charged
  <2>3. CashInv'
    BY <2>1, NoCashMoves DEF MoneyInv
  <2> QED
    BY <2>2, <2>3 DEF MoneyInv
<1>2. CASE LoopStartsClose(s)
  <2>1. PICK q : q = tracked[s]
    OBVIOUS
  <2>2. /\ "loop" \in Tasks /\ Starts("loop", s) /\ s \in DOMAIN tracked /\ s \in DOMAIN positions
        /\ UNCHANGED <<balance, positions, db>> /\ task["loop"].pc = "idle"
    BY <1>2 DEF LoopStartsClose, memory, Starts
  <2>3. Copies(q, positions[s]) /\ q \in Tracking /\ q.amount \in Int /\ Charged(q)
    <3>1. \A b \in Tasks : ~On(b, s)
      BY <2>2, AtStart
    <3>2. Copies(q, positions[s])
      BY <2>1, <2>2, <3>1, CopyHolds DEF Settling, Openers
    <3>3. ~Opening(s)
      BY <3>1 DEF Opening, Openers
    <3>4. q \in Tracking /\ Charged(q)
      BY <2>1, <2>2, <3>3 DEF AccountInv, Typed, MoneyInv, FeesInv
    <3> QED
      BY <3>2, <3>4 DEF Tracking
  <2> DEFINE p == [q EXCEPT !.amount = Max({@, positions[s].amount})]
  <2>4. p = q
    <3>1. Max({q.amount, positions[s].amount}) = q.amount
      BY <2>3, LargerOfSame DEF Copies
    <3>2. [q EXCEPT !.amount = q.amount] = q
      BY <2>3 DEF Tracking
    <3> QED
      BY <3>1, <3>2
  <2>5. /\ tracked' = [tracked EXCEPT ![s] = p]
        /\ \/ StartClose("loop", s, p, p.amount, p.fee, FALSE)
           \/ /\ p.amount % 2 = 0
              /\ StartClose("loop", s, p, p.amount \div 2, p.fee \div 2, TRUE)
    BY <1>2, <2>1 DEF LoopStartsClose
  <2> HIDE DEF p
  <2>6. tracked'[s] = q /\ \A k : k # s => (k \in DOMAIN tracked' => k \in DOMAIN tracked /\ tracked'[k] = tracked[k])
    BY <2>2, <2>4, <2>5
  <2>7. PICK u : u = task'["loop"]
    OBVIOUS
  <2>8. u.pc = "record" /\ Charged(u) /\ \A b \in Tasks : b # "loop" => task'[b] = task[b]
    <3>1. task = [b \in Tasks |-> task[b]]
      BY DEF AccountInv, Typed
    <3>2. CASE StartClose("loop", s, q, q.amount, q.fee, FALSE)
      BY <2>2, <2>3, <2>7, <3>1, <3>2 DEF StartClose, Charged
    <3>3. CASE q.amount % 2 = 0 /\ StartClose("loop", s, q, q.amount \div 2, q.fee \div 2, TRUE)
      <4>1. q.fee \div 2 = FeeRate * (q.amount \div 2)
        BY <2>3, <3>3, HalfOfFee, PaperAssumption DEF Charged
      <4> QED
        BY <2>2, <2>7, <3>1, <3>3, <4>1 DEF StartClose, Charged
    <3> QED
      BY <2>4, <2>5, <3>2, <3>3
  <2>9. FeesInv'
    BY <2>2, <2>3, <2>6, <2>7, <2>8, FeesStay DEF MoneyInv
  <2>10. Owed(task'["loop"]) = Owed(task["loop"])
    BY <2>2, <2>7, <2>8 DEF Owed
  <2>11. CashInv'
    BY <2>2, <2>8, <2>10, NoCashMoves DEF MoneyInv
  <2> QED
    BY <2>9, <2>11 DEF MoneyInv
<1>3. CASE ApiStartsClose(s)
  <2>1. PICK u : u = task'["api"]
    OBVIOUS
  <2>2. /\ "api" \in Tasks /\ Starts("api", s)
        /\ UNCHANGED <<balance, positions, tracked, db>> /\ task["api"].pc = "idle"
        /\ StartClose("api", s, positions[s], positions[s].amount, positions[s].fee, FALSE)
    BY <1>3 DEF ApiStartsClose, memory, Starts
  <2>3. u.pc = "record" /\ \A b \in Tasks : b # "api" => task'[b] = task[b]
    <3>1. task = [b \in Tasks |-> task[b]]
      BY DEF AccountInv, Typed
    <3> QED
      BY <2>1, <2>2, <3>1 DEF StartClose
  <2>4. s \in DOMAIN tracked /\ s \in DOMAIN positions => Charged(tracked[s])
    <3>1. \A b \in Tasks : ~On(b, s)
      BY <2>2, AtStart
    <3>2. ~Opening(s)
      BY <3>1 DEF Opening, Openers
    <3> QED
      BY <3>2 DEF MoneyInv, FeesInv
  <2>5. FeesInv'
    BY <2>2, <2>3, <2>4, FeesStay DEF MoneyInv
  <2>6. Owed(task'["api"]) = Owed(task["api"])
    BY <2>1, <2>2, <2>3 DEF Owed
  <2>7. CashInv'
    BY <2>2, <2>3, <2>6, NoCashMoves DEF MoneyInv
  <2> QED
    BY <2>5, <2>7 DEF MoneyInv
<1> QED
  BY <1>1, <1>2, <1>3

\* What a close of m at price makes, and frees of what it had cost, is what it is paid.
LEMMA LongPays ==
  ASSUME NEW m \in Int, NEW price \in Int, NEW entry \in Int, NEW rate \in Int
  PROVE  (price - entry) * m - rate * m - rate * m + m * (entry + rate) = m * price - rate * m
<1>1. (price - entry) * m = price * m - entry * m /\ m * (entry + rate) = entry * m + rate * m
      /\ m * price = price * m
  OBVIOUS
<1>2. PICK x, y, z \in Int : x = price * m /\ y = entry * m /\ z = rate * m
  OBVIOUS
<1>3. (x - y) - z - z + (y + z) = x - z
  BY <1>2
<1> QED
  BY <1>1, <1>2, <1>3

LEMMA ClosersMoney ==
  ASSUME AccountInv, AccountInv', MoneyInv, crossed = {}, crossed' = {}, ~skewed',
         NEW a \in Closers, Close(a)
  PROVE  MoneyInv'
<1>1. a \in Tasks /\ a \in {"loop", "api"} /\ \A b \in Tasks : b # a => task'[b] = task[b]
  BY ClosesMove DEF Closers
<1>2. PICK t : t = task[a]
  OBVIOUS
<1>3. PICK u : u = task'[a]
  OBVIOUS
<1>4. t \in TaskRecord /\ u \in TaskRecord /\ Owed(t) \in Int /\ Owed(u) \in Int
  BY <1>1, <1>2, <1>3, OwedIsInt DEF AccountInv, Typed, TaskRecord
<1>5. /\ t.pc \notin {"insert", "apply"} => Owed(t) = 0
      /\ u.pc \notin {"insert", "apply"} => Owed(u) = 0
  BY <1>4, OwedIsInt
<1>6. balance \in Int /\ Books(orders, trades) \in Int
  BY CashIsInt DEF MoneyInv
<1>7. tracked' = tracked /\ task = [b \in Tasks |-> task[b]]
  BY DEF Close, RecordClose, RecordFails, ApplyClose, AccountInv, Typed
<1>8. t.pc \in {"record", "apply"} /\ t \in Closing /\ (a # "api" => Charged(t))
  <2>1. t.pc \in {"record", "apply"}
    BY <1>2 DEF Close, RecordClose, RecordFails, ApplyClose
  <2>2. t \in Closing
    BY <1>1, <1>2, <2>1, TaskKinds DEF AccountInv
  <2>3. a # "api" => Charged(t)
    BY <1>1, <1>2, <2>1 DEF MoneyInv, FeesInv, IsClosing
  <2> QED
    BY <2>1, <2>2, <2>3
<1>9. /\ t.amount \in Nat /\ t.amount > 0 /\ t.price \in Nat /\ t.entry \in Int /\ t.fee \in Int
      /\ FeeRate \in Int /\ t.side \in Sides
  BY <1>8, PaperAssumption DEF Closing, Volume
<1>90. PICK s : s = t.symbol
  OBVIOUS
<1>91. ASSUME a # "api" /\ IsClosing(u) => Charged(u),
              \A k : k \in DOMAIN positions' => k \in DOMAIN positions
       PROVE  FeesInv'
  <2>1. ~Opening(s)
    <3>1. \A b \in Tasks : b # a => ~On(b, s)
      BY <1>2, <1>8, <1>90, ClosingTask
    <3>2. a \notin Openers
      BY <1>1 DEF Openers
    <3> QED
      BY <3>1, <3>2 DEF Opening, Openers
  <2>2. s \in DOMAIN tracked /\ s \in DOMAIN positions => Charged(tracked[s])
    BY <2>1 DEF MoneyInv, FeesInv
  <2>3. s \in DOMAIN tracked' /\ s \in DOMAIN positions' => Charged(tracked'[s])
    BY <1>7, <1>91, <2>2
  <2> QED
    BY <1>1, <1>2, <1>3, <1>7, <1>90, <1>91, <2>3, FeesStay DEF MoneyInv
<1>92. Idle.pc = "idle" /\ ~IsClosing(Idle)
  BY DEF Idle, IsClosing
<1>101. RecordFails(a) => u.pc = "idle" /\ FeesInv'
  <2> SUFFICES ASSUME RecordFails(a) PROVE u.pc = "idle" /\ FeesInv'
    OBVIOUS
  <2>1. u = Idle /\ positions' = positions
    BY <1>1, <1>3, <1>7 DEF RecordFails, memory
  <2> QED
    BY <1>91, <1>92, <2>1
<1>102. RecordClose(a) => FeesInv' /\ u.pc = "apply" /\ Owed(u) = Owed([t EXCEPT !.pc = "apply"])
  <2> SUFFICES ASSUME RecordClose(a)
               PROVE  FeesInv' /\ u.pc = "apply" /\ Owed(u) = Owed([t EXCEPT !.pc = "apply"])
    OBVIOUS
  <2>1. u = [t EXCEPT !.pc = "apply"] /\ positions' = positions
    BY <1>1, <1>2, <1>3, <1>7 DEF RecordClose, memory
  <2>2. u.pc = "apply" /\ u.fee = t.fee /\ u.amount = t.amount
    BY <1>8, <2>1 DEF Closing
  <2>3. a # "api" => Charged(u)
    BY <1>8, <2>2 DEF Charged
  <2> QED
    BY <1>91, <2>1, <2>2, <2>3
<1>103. ApplyClose(a) => u.pc \in {"forget", "idle"} /\ FeesInv'
  <2> SUFFICES ASSUME ApplyClose(a) PROVE u.pc \in {"forget", "idle"} /\ FeesInv'
    OBVIOUS
  <2>1. u = IF a = "loop" THEN [t EXCEPT !.pc = "forget"] ELSE Idle
    BY <1>1, <1>2, <1>3, <1>7 DEF ApplyClose
  <2>2. \A k : k \in DOMAIN positions' => k \in DOMAIN positions
    BY DEF ApplyClose, Without
  <2>3. CASE a = "loop"
    <3>1. u = [t EXCEPT !.pc = "forget"]
      BY <2>1, <2>3
    <3>2. u.pc = "forget" /\ u.fee = t.fee /\ u.amount = t.amount
      BY <1>8, <3>1 DEF Closing
    <3>3. Charged(u)
      BY <1>8, <2>3, <3>2 DEF Charged
    <3> QED
      BY <1>91, <2>2, <3>2, <3>3
  <2>4. CASE a # "loop"
    <3>1. u = Idle
      BY <2>1, <2>4
    <3> QED
      BY <1>91, <1>92, <2>2, <3>1
  <2> QED
    BY <2>3, <2>4
<1>11. CASE RecordFails(a)
  <2>1. t.pc = "record" /\ UNCHANGED <<balance, db>>
    BY <1>2, <1>11 DEF RecordFails, memory
  <2>2. Owed(task'[a]) = Owed(task[a])
    BY <1>2, <1>3, <1>5, <1>101, <1>11, <2>1
  <2>3. CashInv'
    BY <1>1, <2>1, <2>2, NoCashMoves DEF MoneyInv
  <2> QED
    BY <1>11, <1>101, <2>3 DEF MoneyInv
<1>12. CASE ApplyClose(a)
  <2>1. t.pc = "apply" /\ UNCHANGED db
        /\ balance' = balance + (IF t.side = "long" THEN t.amount * t.price - FeeRate * t.amount
                                 ELSE PnlOf(t))
    BY <1>2, <1>12 DEF ApplyClose
  <2>2. balance' = balance + Owed(t)
    BY <2>1 DEF Owed
  <2>3. Owed(u) = 0
    BY <1>5, <1>103, <1>12
  <2>4. PICK d : d = Owed(t)
    OBVIOUS
  <2> DEFINE e == 0
  <2>5. /\ d \in Int /\ e \in Int /\ balance' = balance + d
        /\ Books(orders', trades') = Books(orders, trades) + e
        /\ Owed(task'[a]) = Owed(task[a]) + e - d
    BY <1>2, <1>3, <1>4, <1>6, <2>1, <2>2, <2>3, <2>4 DEF db
  <2> HIDE DEF e
  <2>6. CashInv'
    BY <1>1, <2>5, CashMoves DEF MoneyInv
  <2> QED
    BY <1>12, <1>103, <2>6 DEF MoneyInv
<1>13. CASE RecordClose(a)
  <2>1. PICK pnl : pnl = PnlOf(t)
    OBVIOUS
  <2>2. PICK p : p = positions[t.symbol]
    OBVIOUS
  <2>3. PICK o : o = p.order
    OBVIOUS
  <2> DEFINE r == [symbol |-> t.symbol, way |-> IF t.side = "long" THEN "sell" ELSE "buy",
                   amount |-> t.amount, price |-> t.price]
             x == [open |-> o, close |-> Len(orders) + 1, amount |-> t.amount, pnl |-> pnl]
  <2>4. t.pc = "record"
    BY <1>2, <1>13 DEF RecordClose
  <2>5. /\ t.symbol \in Symbols /\ CloseInv(a, t) /\ Quiet(t.symbol)
        /\ t.symbol \in DOMAIN positions /\ p \in Holding
    BY <1>2, <2>2, <2>4, ClosingTask
  <2>6. /\ t.side = p.side /\ t.entry = p.entry /\ t.order = o
        /\ p.amount = IF t.partial THEN 2 * t.amount ELSE t.amount
    BY <2>2, <2>3, <2>5 DEF CloseInv, Concerns
  <2>7. /\ Opens(orders, trades, t.symbol) = {o} /\ Left(orders, trades, o) = p.amount
        /\ SideOf(orders[o].way) = p.side /\ orders[o].price = p.entry
    BY <2>2, <2>3, <2>5 DEF Quiet, InBook
  <2>8. o \in 1..Len(orders) /\ Len(orders) \in Nat /\ orders[o].way \in {"buy", "sell"}
    <3>1. Sound(orders, trades)
      BY DEF AccountInv, Typed
    <3>2. o \in 1..Len(orders) /\ orders[o] \in OrderRow /\ Len(orders) \in Nat
      BY <2>7, <3>1, SoundRows
    <3> QED
      BY <3>2 DEF OrderRow
  <2>9. orders' = Append(orders, r) /\ trades' = trades \cup {x} /\ balance' = balance
    BY <1>2, <1>13, <2>1, <2>6 DEF RecordClose, memory
  <2>10. pnl \in Int
    BY <1>9, <2>1 DEF PnlOf
  <2>11. r \in OrderRow /\ x \in TradeRow
    BY <1>9, <2>5, <2>8, <2>10 DEF OrderRow, TradeRow
  <2>12. t.amount <= Left(orders, trades, o)
    BY <1>9, <2>6, <2>7
  <2>13. /\ x.open = o /\ x.close = Len(orders) + 1 /\ x.amount = t.amount /\ x.pnl = pnl
    OBVIOUS
  <2> HIDE DEF r, x
  <2>14. PICK freed : freed = IF orders[o].way = "buy" THEN t.amount * (orders[o].price + FeeRate) ELSE 0
    OBVIOUS
  <2>15. Books(orders', trades') = Books(orders, trades) + pnl + freed
    <3>1. o \in Opens(orders, trades, t.symbol) /\ Sound(orders, trades)
      BY <2>7 DEF AccountInv, Typed
    <3>2. Books(Append(orders, r), trades \cup {x})
            = Books(orders, trades) + x.pnl
                + (IF orders[o].way = "buy" THEN x.amount * (orders[o].price + FeeRate) ELSE 0)
      BY <2>5, <2>11, <2>12, <2>13, <3>1, ClosePaid
    <3> QED
      BY <2>9, <2>13, <2>14, <3>2
  <2>16. freed = IF t.side = "long" THEN t.amount * (t.entry + FeeRate) ELSE 0
    BY <2>6, <2>7, <2>8, <2>14 DEF SideOf
  <2>17. PICK e : e = pnl + freed
    OBVIOUS
  <2>18. e \in Int /\ Books(orders', trades') = Books(orders, trades) + e
    <3>1. freed \in Int
      BY <1>9, <2>16
    <3> QED
      BY <1>6, <2>10, <2>15, <2>17, <3>1
  <2>19. Owed(u) = e
    <3>1. PICK v : v = [t EXCEPT !.pc = "apply"]
      OBVIOUS
    <3>2. /\ v.pc = "apply" /\ v.side = t.side /\ v.amount = t.amount /\ v.price = t.price
          /\ v.entry = t.entry /\ v.fee = t.fee
      BY <1>8, <3>1 DEF Closing
    <3>3. PnlOf(v) = pnl
      BY <2>1, <3>2 DEF PnlOf
    <3>4. Owed(v) = IF t.side = "long" THEN t.amount * t.price - FeeRate * t.amount ELSE pnl
      BY <3>2, <3>3 DEF Owed
    <3>5. CASE t.side = "long"
      <4>1. pnl = (t.price - t.entry) * t.amount - FeeRate * t.amount - FeeRate * t.amount
        <5>1. t.fee = FeeRate * t.amount
          <6>1. ~Overcharges(a)
            BY <1>13 DEF RecordClose
          <6>2. CASE a = "api"
            BY <1>2, <3>5, <6>1, <6>2 DEF Overcharges
          <6>3. CASE a # "api"
            BY <1>8, <6>3 DEF Charged
          <6> QED
            BY <6>2, <6>3
        <5> QED
          BY <1>9, <2>1, <3>5, <5>1 DEF PnlOf
      <4>2. (t.price - t.entry) * t.amount - FeeRate * t.amount - FeeRate * t.amount
              + t.amount * (t.entry + FeeRate) = t.amount * t.price - FeeRate * t.amount
        BY <1>9, LongPays
      <4> QED
        BY <1>102, <1>13, <2>16, <2>17, <3>1, <3>4, <3>5, <4>1, <4>2
    <3>6. CASE t.side # "long"
      <4>1. freed = 0 /\ pnl + 0 = pnl
        BY <2>10, <2>16, <3>6
      <4> QED
        BY <1>102, <1>13, <2>17, <3>1, <3>4, <3>6, <4>1
    <3> QED
      BY <3>5, <3>6
  <2>20. /\ balance' = balance + 0
         /\ Owed(task'[a]) = Owed(task[a]) + e - 0
    BY <1>2, <1>3, <1>5, <1>6, <2>4, <2>9, <2>18, <2>19
  <2>21. CashInv'
    BY <1>1, <2>18, <2>20, CashMoves DEF MoneyInv
  <2> QED
    BY <1>13, <1>102, <2>21 DEF MoneyInv
<1> QED
  BY <1>11, <1>12, <1>13 DEF Close

LEMMA SettlesMoney ==
  ASSUME AccountInv, AccountInv', MoneyInv, crossed = {}, LoopSettles
  PROVE  MoneyInv'
<1>1. PICK a : a = "loop"
  OBVIOUS
<1>2. PICK t : t = task[a]
  OBVIOUS
<1>3. /\ a \in Tasks /\ t.pc = "forget" /\ UNCHANGED <<balance, positions, db>>
      /\ task' = [task EXCEPT ![a] = Idle]
  BY <1>1, <1>2 DEF LoopSettles, memory
<1>4. Idle \in TaskRecord /\ Idle.pc = "idle" /\ t \in Closing /\ Charged(t)
  <2>1. t \in Closing
    BY <1>2, <1>3, TaskKinds DEF AccountInv
  <2>2. Charged(t)
    BY <1>1, <1>2, <1>3 DEF MoneyInv, FeesInv, IsClosing
  <2> QED
    BY <2>1, <2>2 DEF TaskRecord, Idle
<1>5. task'[a] = Idle /\ \A b \in Tasks : b # a => task'[b] = task[b]
  BY <1>3, <1>4, TaskChanges DEF AccountInv
<1>6. ForgetInv(a, t) /\ \A b \in Tasks : b # a => ~On(b, t.symbol)
  BY <1>2, <1>3, AtWork DEF TaskInv
<1>60. ~Opening(t.symbol)
  BY <1>1, <1>6 DEF Opening, Openers
<1>7. /\ t.symbol \in DOMAIN tracked' => Charged(tracked'[t.symbol])
      /\ \A k : k # t.symbol =>
                (k \in DOMAIN tracked' => k \in DOMAIN tracked /\ tracked'[k] = tracked[k])
  <2>1. CASE ~t.partial
    <3>1. tracked' = Without(tracked, t.symbol)
      BY <1>1, <1>2, <2>1 DEF LoopSettles
    <3> QED
      BY <3>1 DEF Without
  <2>2. CASE t.partial
    <3>1. PICK s : s = t.symbol
      OBVIOUS
    <3>2. s \in DOMAIN positions /\ s \in DOMAIN tracked /\ tracked[s].order = t.order
      BY <1>6, <2>2, <3>1 DEF ForgetInv
    <3>3. PICK q : q = tracked[s]
      OBVIOUS
    <3> DEFINE m == q.amount - t.amount
               f == q.fee - t.fee
               v == [q EXCEPT !.amount = m, !.fee = f]
    <3>4. tracked' = [tracked EXCEPT ![s].amount = @ - t.amount, ![s].fee = @ - t.fee]
      BY <1>1, <1>2, <2>2, <3>1, <3>2 DEF LoopSettles
    <3>5. q \in Tracking /\ Charged(q)
      BY <1>60, <3>1, <3>2, <3>3 DEF AccountInv, Typed, MoneyInv, FeesInv
    <3>6. f = FeeRate * m
      <4>1. q.amount \in Int /\ t.amount \in Int /\ FeeRate \in Int
        BY <1>4, <3>5, PaperAssumption DEF Tracking, Closing, Volume
      <4>2. FeeRate * (q.amount - t.amount) = FeeRate * q.amount - FeeRate * t.amount
        BY <4>1
      <4> QED
        BY <1>4, <3>5, <4>2 DEF Charged
    <3>7. tracked'[s] = v /\ \A k \in DOMAIN tracked' : k # s => k \in DOMAIN tracked /\ tracked'[k] = tracked[k]
      BY <3>2, <3>3, <3>4
    <3> HIDE DEF m, f
    <3>8. v.amount = m /\ v.fee = f
      BY <3>5 DEF Tracking
    <3>9. Charged(v)
      BY <3>6, <3>8 DEF Charged
    <3> HIDE DEF v
    <3> QED
      BY <3>1, <3>2, <3>7, <3>9
  <2> QED
    BY <2>1, <2>2
<1>8. FeesInv'
  <2>1. PICK s : s = t.symbol
    OBVIOUS
  <2>2. ~IsClosing(task'[a])
    BY <1>4, <1>5 DEF IsClosing
  <2> QED
    BY <1>2, <1>3, <1>5, <1>7, <2>1, <2>2, FeesStay DEF MoneyInv
<1>9. Owed(task'[a]) = Owed(task[a])
  BY <1>2, <1>3, <1>4, <1>5 DEF Owed
<1>10. CashInv'
  BY <1>3, <1>5, <1>9, NoCashMoves DEF MoneyInv
<1> QED
  BY <1>8, <1>10 DEF MoneyInv

\* Nobody owes anything when nobody is at work.
LEMMA NobodyOwes ==
  ASSUME NEW f, \A a \in Tasks : f[a] = Idle
  PROVE  \A a : (IF a \in Tasks THEN Owed(f[a]) ELSE 0) = 0
BY DEF Owed, Idle

LEMMA ResetMoney ==
  ASSUME AccountInv, AccountInv', crossed' = {}, ResetPaperAccount \/ ClearTestData
  PROVE  MoneyInv'
<1>1. /\ crossed' = {s \in Symbols : Busy(s)} /\ task' = task
      /\ orders' = [id \in DOMAIN orders |-> Deleted] /\ trades' = {} /\ balance' = Capital
      /\ DOMAIN positions' = {}
  BY DEF ResetPaperAccount, ClearTestData, DeleteHistory, Nothing
<1>2. \A a \in Tasks : task'[a] = Idle
  <2>1. \A s \in Symbols : ~Busy(s)
    BY <1>1
  <2>2. ASSUME NEW a \in Tasks PROVE task[a] = Idle
    <3>1. CASE task[a].pc # "idle"
      BY <2>1, <3>1, TaskKinds DEF Busy, AccountInv
    <3>2. CASE task[a].pc = "idle"
      BY <3>2, TaskKinds DEF AccountInv
    <3> QED
      BY <3>1, <3>2
  <2> QED
    BY <1>1, <2>2
<1>3. FeesInv'
  <2>1. ~IsClosing(Idle)
    BY DEF IsClosing, Idle
  <2> QED
    BY <1>1, <1>2, <2>1 DEF FeesInv, IsClosing
<1>4. Books(orders', trades') = Capital
  <2>1. Sound(orders', trades')
    BY DEF AccountInv, Typed
  <2>2. DOMAIN orders' = 1..Len(orders')
    BY <2>1, SoundRows
  <2>3. \A id \in 1..Len(orders') : orders'[id] = Deleted
    BY <1>1, <2>2
  <2> QED
    BY <1>1, <2>1, <2>3, NothingBooked
<1>5. \A a : Owes(a)' = 0
  BY <1>2, NobodyOwes DEF Owes
<1>6. CashInv'
  BY <1>1, <1>4, <1>5, PaperAssumption DEF CashInv
<1> QED
  BY <1>3, <1>6 DEF MoneyInv

LEMMA RestartMoney ==
  ASSUME AccountInv, AccountInv', crossed' = {}, ~skewed', Restart \/ RestartUnread
  PROVE  MoneyInv'
<1>1. UNCHANGED db /\ \A a \in Tasks : task'[a] = Idle
  BY DEF Restart, RestartUnread
<1>2. balance' = RestoredBalance
  BY DEF Restart, RestartUnread
<1>3. ASSUME NEW s, s \in DOMAIN tracked' PROVE Charged(tracked'[s])
  <2>1. CASE Restart
    <3>1. s \in Symbols /\ OpenIds(s) # {} /\ tracked'[s] = RestoredPosition(s)
      BY <1>3, <2>1 DEF Restart, RestoredPositions
    <3>2. PICK o : o \in OpenIds(s)
      BY <3>1
    <3>3. \A id \in OpenIds(s) : id = o
      BY <2>1, <3>1, <3>2 DEF Restart
    <3>4. OpenIds(s) = {o}
      BY <3>2, <3>3
    <3>5. Opens(orders, trades, s) = {o}
      BY <3>4, OpensIsOpenIds
    <3>6. RestoredPosition(s).fee = FeeRate * RestoredPosition(s).amount
      BY <3>1, <3>5, RestoredIsInBook DEF AccountInv
    <3> QED
      BY <3>1, <3>6 DEF Charged
  <2>2. CASE RestartUnread
    BY <1>3, <2>2 DEF RestartUnread, Nothing
  <2> QED
    BY <2>1, <2>2
<1>4. FeesInv'
  <2>1. ~IsClosing(Idle)
    BY DEF IsClosing, Idle
  <2> QED
    BY <1>1, <1>3, <2>1 DEF FeesInv, IsClosing, Charged
<1>5. balance' = Books(orders', trades') /\ balance' \in Int
  <2>1. RestoredBalance = Books(orders, trades) /\ Books(orders, trades) \in Int
    BY BooksAreRestored, BooksAreInt DEF AccountInv, Typed
  <2> QED
    BY <1>1, <1>2, <2>1 DEF db
<1>6. \A a : Owes(a)' = 0
  BY <1>1, NobodyOwes DEF Owes
<1>7. CashInv'
  BY <1>5, <1>6 DEF CashInv
<1> QED
  BY <1>4, <1>7 DEF MoneyInv

\* What is marked stays marked until a reset or a restart.
LEMMA MarksStay ==
  ASSUME [Next]_vars
  PROVE  \/ ResetPaperAccount \/ ClearTestData \/ Restart \/ RestartUnread
         \/ crossed \subseteq crossed' /\ (skewed => skewed')
<1>1. ASSUME NEW a, Open(a) PROVE crossed \subseteq crossed'
  BY <1>1 DEF Open, CheckFree, Starts, Buy, SellShort, SellLong, PriceUnknown, RejectSell,
              InsertOrder, InsertFails, Register, marks
<1>2. ASSUME NEW a, Open(a) PROVE skewed' = skewed
  BY <1>2 DEF Open, CheckFree, Starts, Buy, SellShort, SellLong, PriceUnknown, RejectSell,
              InsertOrder, InsertFails, Register, marks
<1>3. ASSUME NEW s, LoopDrops(s) \/ LoopStartsClose(s) \/ ApiStartsClose(s)
      PROVE  crossed \subseteq crossed'
  BY <1>3 DEF LoopDrops, LoopStartsClose, ApiStartsClose, Starts, marks
<1>4. ASSUME NEW s, LoopDrops(s) \/ LoopStartsClose(s) \/ ApiStartsClose(s)
      PROVE  skewed' = skewed
  BY <1>4 DEF LoopDrops, LoopStartsClose, ApiStartsClose, Starts, marks
<1>5. ASSUME NEW a, Close(a) PROVE crossed \subseteq crossed'
  BY <1>5 DEF Close, RecordClose, RecordFails, ApplyClose, marks
<1>6. ASSUME NEW a, RecordClose(a) PROVE skewed => skewed'
  <2>1. skewed' = (skewed \/ Overcharges(a))
    BY <1>6 DEF RecordClose
  <2> QED
    BY <2>1, Zenon
<1>7. ASSUME NEW a, RecordFails(a) \/ ApplyClose(a) PROVE skewed' = skewed
  BY <1>7 DEF RecordFails, ApplyClose, marks
<1>8. LoopSettles \/ UNCHANGED vars => marks' = marks
  BY DEF LoopSettles, vars
<1>9. marks' = marks => crossed' = crossed /\ skewed' = skewed
  BY DEF marks
<1>10. CASE \E a : Open(a)
  BY <1>1, <1>2, <1>10
<1>11. CASE \E s : LoopDrops(s) \/ LoopStartsClose(s) \/ ApiStartsClose(s)
  BY <1>3, <1>4, <1>11
<1>12. CASE \E a : Close(a)
  <2>1. PICK a : Close(a)
    BY <1>12
  <2>2. RecordClose(a) \/ RecordFails(a) \/ ApplyClose(a)
    BY <2>1 DEF Close
  <2>3. skewed => skewed'
    BY <1>6, <1>7, <2>2
  <2> QED
    BY <1>5, <2>1, <2>3
<1> QED
  BY <1>8, <1>9, <1>10, <1>11, <1>12 DEF Next

BookedInv == crossed = {} /\ ~skewed => MoneyInv

LEMMA MoneyStep ==
  ASSUME EntriesInv, AccountInv, BookedInv, [Next]_vars
  PROVE  BookedInv'
<1> SUFFICES ASSUME crossed' = {}, ~skewed' PROVE MoneyInv'
  BY DEF BookedInv
<1>0. AccountInv'
  BY AccountStep
<1>1. CASE ResetPaperAccount \/ ClearTestData
  BY <1>0, <1>1, ResetMoney
<1>2. CASE Restart \/ RestartUnread
  BY <1>0, <1>2, RestartMoney
<1>3. CASE crossed \subseteq crossed' /\ (skewed => skewed')
  <2>0. crossed = {} /\ MoneyInv
    BY <1>3 DEF BookedInv
  <2>1. ASSUME NEW a \in Openers, Open(a) PROVE MoneyInv'
    BY <1>0, <2>0, <2>1, OpenersMoney
  <2>2. ASSUME NEW s \in Symbols, LoopDrops(s) \/ LoopStartsClose(s) \/ ApiStartsClose(s)
        PROVE  MoneyInv'
    BY <1>0, <2>0, <2>2, LoopMoney
  <2>3. ASSUME NEW a \in Closers, Close(a) PROVE MoneyInv'
    BY <1>0, <2>0, <2>3, ClosersMoney
  <2>4. CASE LoopSettles
    BY <1>0, <2>0, <2>4, SettlesMoney
  <2>5. CASE UNCHANGED vars
    BY <2>0, <2>5 DEF vars, memory, db, MoneyInv, FeesInv, CashInv, Owes, Opening, On
  <2> QED
    BY <1>1, <1>2, <2>1, <2>2, <2>3, <2>4, <2>5 DEF Next
<1> QED
  BY <1>1, <1>2, <1>3, MarksStay

LEMMA MoneyInit == Init => BookedInv
<1> SUFFICES ASSUME Init PROVE MoneyInv
  BY DEF BookedInv
<1>1. /\ balance = Capital /\ orders = <<>> /\ trades = {} /\ \A a \in Tasks : task[a] = Idle
      /\ DOMAIN tracked = {}
  BY DEF Init, Nothing
<1>2. FeesInv
  BY <1>1 DEF FeesInv, IsClosing, Idle
<1>3. Books(orders, trades) = Capital
  <2>1. Sound(orders, trades) /\ Len(orders) = 0
    BY <1>1, AccountInit DEF AccountInv, Typed
  <2> QED
    BY <1>1, <2>1, NothingBooked
<1>4. \A a : Owes(a) = 0
  BY <1>1, NobodyOwes DEF Owes
<1>5. CashInv
  BY <1>1, <1>3, <1>4, PaperAssumption DEF CashInv
<1> QED
  BY <1>2, <1>5 DEF MoneyInv

\* Whenever no task is between the two halves of an order or a close, the balance in memory is the
\* one _restore_paper_state_from_db would work out from orders and trades, for any fees and prices,
\* whoever opens and closes.  It is left open where tasks met on a symbol, a write failed, or the
\* dashboard charged the whole entry fee for what the loop had left, until the next restart.
THEOREM BalanceStaysBooked == Spec => []BalanceIsBooked
<1>1. EntriesInv /\ AccountInv /\ BookedInv /\ [Next]_vars
        => EntriesInv' /\ AccountInv' /\ BookedInv'
  BY EntriesStep, AccountStep, MoneyStep
<1>2. AccountInv /\ BookedInv => BalanceIsBooked
  <2> SUFFICES ASSUME AccountInv, BookedInv, crossed = {}, ~skewed, \A a \in Tasks : ~Unsettled(a)
               PROVE  balance = RestoredBalance
    BY DEF BalanceIsBooked
  <2>1. MoneyInv
    BY DEF BookedInv
  <2>2. \A a \in Tasks : Owed(task[a]) = 0
    BY DEF Unsettled, Owed
  <2>3. \A a : Owes(a) = 0
    BY <2>2 DEF Owes
  <2>4. RestoredBalance = Books(orders, trades)
    BY BooksAreRestored DEF AccountInv, Typed
  <2>5. Books(orders, trades) \in Int
    BY <2>1, CashIsInt DEF MoneyInv
  <2> QED
    BY <2>1, <2>3, <2>4, <2>5 DEF MoneyInv, CashInv
<1> QED
  BY <1>1, <1>2, EntriesInit, AccountInit, MoneyInit, PTL DEF Spec
=============================================================================
