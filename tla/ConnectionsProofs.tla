-------------------------- MODULE ConnectionsProofs ---------------------------
(***************************************************************************)
(* Theorems about Connections, for any exchanges, markets, positions,      *)
(* updates and requests, meeting in any way: but for the strays, every     *)
(* open client is one the engine knows and every market is watched once;   *)
(* and no position is forgotten that the database could tell.              *)
(*                                                                         *)
(* The invariant says that a task that is not crossed is alone: an update  *)
(* within initialize finds only strays where it is going to connect, and a *)
(* request that connects finds no client and no initialize.                *)
(***************************************************************************)
EXTENDS Connections, TLAPS

Tasks == Updates \cup Requests
Client == [n : Nat, exchange : Exchanges, market : Markets]
Within == {"stopping", "closing", "connecting", "restoring", "reading", "others"}
Closing == {"stopping", "closing"}
Before == {"stopping", "closing", "connecting", "restoring", "reading"}

\* What is what.
OfUpdate(t) == \/ t = Idle
               \/ t.pc = "commit"
               \/ /\ t.pc \in Within /\ t.exchange \in Exchanges
                  /\ t.pc = "connecting" => t.market \in Markets
                  /\ t.pc = "others" => \A m \in t.of : m \in Markets
OfRequest(t) == \/ t = Idle
                \/ /\ t.pc \in {"waiting", "asking"} /\ t.market \in Markets
                   /\ t.pc = "asking" => t.exchange \in Exchanges

Typed == /\ task = [a \in Tasks |-> task[a]]
         /\ client = [m \in Markets |-> client[m]] /\ watch = [m \in Markets |-> watch[m]]
         /\ settings.market \in Markets /\ settings.exchange \in Exchanges
         /\ exchangeId \in Exchanges
         /\ made.clients \in Nat
         /\ \A u \in Updates : OfUpdate(task[u])
         /\ \A r \in Requests : OfRequest(task[r])
         /\ \A m \in Markets : client[m] = None \/ client[m] \in Client
         /\ \A m \in Markets : watch[m] = None \/ (watch[m] \in Nat /\ watch[m] <= made.clients)
         /\ \A l \in loops : l.n \in Nat /\ l.n <= made.clients /\ l.market \in Markets

\* The engine knows its clients, and the tasks it can stop.
Known == /\ \A m \in Markets : client[m] # None => client[m] \in open
         /\ \A c \in open : c \in strays \/ \E m \in Markets : c = client[m] /\ c # None
Listed == /\ \A l \in loops : \A m \in Markets : l.n = watch[m] => l.market = m
          /\ \A l \in loops : ~l.stray => l.n = watch[l.market]

\* The client of a market is of that market and of the exchange of now, and is watched.
Right == \A m \in Markets : client[m] # None /\ client[m] \notin strays =>
  /\ client[m].market = m /\ client[m].exchange = exchangeId
  /\ client[m].exchange \in Watchable => \E l \in loops : l.market = m

\* An update that stops the tasks knows those it can stop, and waits for them.
Stops == /\ \A l \in loops : l.cancelled =>
              \E u \in Updates : task[u].pc = "stopping" /\ l.n \in task[u].of
         /\ \A u \in Updates : task[u].pc = "stopping" =>
              \A l \in loops : ~l.stray => l.n \in task[u].of

\* Who is not crossed is alone.
Alone == /\ \A u, v \in Updates : u # v /\ task[u].pc \in Within /\ task[v].pc \in Within => u \in crossed
         /\ \A r \in Requests : task[r].pc = "asking" =>
              lock = r /\ \A u \in Updates : task[u].pc \in Within => r \in crossed

\* What an update that is alone relies on,
Free(m) == client[m] = None \/ client[m] \in strays
Sure(u) ==
  /\ task[u].pc \in Within => task[u].exchange = exchangeId
  /\ task[u].pc = "closing" => \A m \in Markets : Free(m) \/ client[m] \in task[u].of
  /\ task[u].pc = "connecting" => task[u].market = settings.market /\ \A m \in Markets : Free(m)
  /\ task[u].pc \in {"restoring", "reading"} => \A m \in Markets \ {settings.market} : Free(m)
  /\ task[u].pc = "others" => \A m \in task[u].of : Free(m)
\* and a request.
Certain(r) == task[r].pc = "asking" =>
  client[task[r].market] = None /\ task[r].exchange = exchangeId

Relied == /\ \A u \in Updates : u \in crossed \/ Sure(u)
          /\ \A r \in Requests : r \in crossed \/ Certain(r)

TableInv == Typed /\ Known /\ Listed /\ (~Torn => Right) /\ Stops /\ Alone /\ Relied

\* Positions that are in memory, or just being booked.
Covered == booked \subseteq memory \cup {l.books : l \in loops}
HeardInv == /\ memory \subseteq Positions /\ booked \subseteq Positions
            /\ \A l \in loops : l.books \in Positions \cup {None}
CoverInv == ~Restoring /\ ~isPaper /\ ~unread => Covered

Inv == TableInv /\ HeardInv /\ CoverInv

LEMMA Distinct ==
  /\ None \notin Nat /\ None \notin Positions /\ None \notin Client /\ None \notin Requests
  /\ \A u \in Updates : u \notin Requests /\ u \in Tasks
  /\ \A r \in Requests : r \in Tasks /\ r \notin Updates
  /\ Idle.pc = "idle"
BY ConnectionsAssumption DEF Client, Tasks, Idle

LEMMA AtTheStart == Init => Inv
<1> SUFFICES ASSUME Init PROVE Inv
  OBVIOUS
<1> DEFINE first == [n |-> 1, exchange |-> exchangeId, market |-> settings.market]
           loop == [n |-> 1, market |-> settings.market, on |-> first, books |-> None,
                    cancelled |-> FALSE, stray |-> FALSE]
<1>1. settings.market \in Markets /\ settings.exchange \in Exchanges /\ exchangeId \in Exchanges
  BY DEF Init
<1>2. first \in Client /\ first.market = settings.market /\ first.exchange = exchangeId
  BY <1>1 DEF Client
<1>3. /\ loop.n = 1 /\ loop.market = settings.market /\ loop.books = None
      /\ loop.cancelled = FALSE /\ loop.stray = FALSE
  OBVIOUS
<1>4. /\ client = [m \in Markets |-> IF m = settings.market THEN first ELSE None]
      /\ open = {first} /\ strays = {} /\ crossed = {}
      /\ \/ /\ watch = [m \in Markets |-> IF m = settings.market THEN 1 ELSE None]
            /\ loops = {loop}
         \/ /\ exchangeId \notin Watchable
            /\ watch = [m \in Markets |-> None] /\ loops = {}
      /\ memory = Positions /\ booked = Positions
  BY DEF Init
<1>5. task = [a \in Tasks |-> Idle] /\ made.clients = 1
  BY DEF Init, Tasks
<1> HIDE DEF first, loop
<1>6. \A a \in Tasks : task[a] = Idle
  BY <1>5
<1>7. first # None
  BY <1>2, Distinct
<1>8. Typed
  BY <1>1, <1>2, <1>3, <1>4, <1>5, <1>6, Distinct DEF Typed, OfUpdate, OfRequest
<1>9. Alone /\ Relied
  BY <1>6, Distinct DEF Alone, Relied, Sure, Certain, Within
<1>10. Known
  BY <1>1, <1>4, <1>7 DEF Known
<1>14. Listed
  <2>1. CASE loops = {}
    BY <2>1 DEF Listed
  <2>2. CASE /\ watch = [m \in Markets |-> IF m = settings.market THEN 1 ELSE None]
             /\ loops = {loop}
    <3>1. \A m \in Markets : watch[m] = 1 => m = settings.market
      BY <2>2, Distinct
    <3>2. watch[settings.market] = 1
      BY <1>1, <2>2
    <3> QED
      BY <1>3, <2>2, <3>1, <3>2 DEF Listed
  <2> QED
    BY <1>4, <2>1, <2>2
<1>11. Right
  BY <1>1, <1>2, <1>3, <1>4 DEF Right
<1>12. Stops
  BY <1>3, <1>4, <1>6, Distinct DEF Stops
<1>13. HeardInv /\ CoverInv
  BY <1>3, <1>4 DEF HeardInv, CoverInv, Covered
<1> QED
  BY <1>8, <1>9, <1>10, <1>11, <1>12, <1>13, <1>14 DEF Inv, TableInv
-----------------------------------------------------------------------------
(* How the tasks move. *)

LEMMA Becomes ==
  ASSUME Typed, NEW a \in Tasks, NEW t, task' = [task EXCEPT ![a] = t]
  PROVE  /\ task' = [b \in Tasks |-> task'[b]]
         /\ task'[a] = t /\ \A b \in Tasks : b # a => task'[b] = task[b]
BY DEF Typed

LEMMA Changed ==
  ASSUME Typed, NEW a \in Tasks, NEW pc, Goto(a, pc)
  PROVE  \E t : /\ task' = [task EXCEPT ![a] = t] /\ t.pc = pc
                /\ t.exchange = task[a].exchange /\ t.market = task[a].market
<1> DEFINE t == [task[a] EXCEPT !.pc = pc]
<1>1. t.pc = pc /\ t.exchange = task[a].exchange /\ t.market = task[a].market
  OBVIOUS
<1>2. task' = [task EXCEPT ![a] = t]
  BY DEF Goto, Typed
<1> HIDE DEF t
<1> QED
  BY <1>1, <1>2

\* The part of the invariant that says what the tasks are.
LEMMA TypesMove ==
  ASSUME Typed, NEW a \in Tasks, NEW t, task' = [task EXCEPT ![a] = t],
         a \in Updates => OfUpdate(t), a \in Requests => OfRequest(t)
  PROVE  /\ task' = [b \in Tasks |-> task'[b]]
         /\ \A u \in Updates : OfUpdate(task'[u])
         /\ \A r \in Requests : OfRequest(task'[r])
BY Becomes, Distinct DEF Typed

\* Whether something is torn, or has still to be restored.
LEMMA Phases ==
  ASSUME Typed, NEW a \in Tasks, NEW t, task' = [task EXCEPT ![a] = t]
  PROVE  /\ a \in Updates /\ t.pc \in Closing => Torn'
         /\ a \in Updates /\ t.pc \in Before => Restoring'
         /\ (a \in Updates => task[a].pc \notin Closing) => (Torn => Torn')
         /\ (a \in Updates => task[a].pc \notin Before) => (Restoring => Restoring')
<1>1. task'[a] = t /\ \A b \in Tasks : b # a => task'[b] = task[b]
  BY Becomes
<1>2. \A u \in Updates : u \in Tasks
  BY Distinct
<1> QED
  BY <1>1, <1>2 DEF Torn, Restoring, Closing, Before

\* A task that is alone, if it is to be so, after a step of its own.
LEMMA StaysAlone ==
  ASSUME Typed, Alone, NEW a \in Tasks, NEW t, task' = [task EXCEPT ![a] = t],
         \A b \in crossed : b # a => b \in crossed',
         a \in Updates /\ t.pc \in Within => task[a].pc \in Within /\ (a \in crossed => a \in crossed'),
         a \in Requests /\ t.pc = "asking" =>
           lock' = a /\ \A u \in Updates : task[u].pc \in Within => a \in crossed',
         \A q \in Requests : q # a /\ task[q].pc = "asking" => lock' = q
  PROVE  Alone'
<1>1. task'[a] = t /\ \A b \in Tasks : b # a => task'[b] = task[b]
  BY Becomes
<1>2. ASSUME NEW u \in Updates, task'[u].pc \in Within
      PROVE  task[u].pc \in Within /\ (u \in crossed => u \in crossed')
  <2>1. u \in Tasks
    BY Distinct
  <2> QED
    BY <1>1, <1>2, <2>1
<1>3. ASSUME NEW u \in Updates, NEW v \in Updates, u # v,
             task'[u].pc \in Within, task'[v].pc \in Within
      PROVE  u \in crossed'
  BY <1>2, <1>3 DEF Alone
<1>4. ASSUME NEW r \in Requests, task'[r].pc = "asking"
      PROVE  lock' = r /\ \A u \in Updates : task'[u].pc \in Within => r \in crossed'
  <2>1. r \in Tasks
    BY Distinct
  <2>2. CASE r = a
    BY <1>1, <1>2, <1>4, <2>2
  <2>3. CASE r # a
    <3>1. task[r].pc = "asking"
      BY <1>1, <1>4, <2>1, <2>3
    <3> QED
      BY <1>2, <2>3, <3>1 DEF Alone
  <2> QED
    BY <2>2, <2>3
<1> QED
  BY <1>3, <1>4 DEF Alone

\* A step that leaves clients and tasks that watch as they are: what is left
\* to show is what its own task relies on.
LEMMA TaskMoves ==
  ASSUME TableInv, NEW a \in Tasks, NEW t, task' = [task EXCEPT ![a] = t],
         UNCHANGED <<client, open, watch, loops, strays, exchangeId>>,
         made'.clients = made.clients,
         settings'.market \in Markets, settings'.exchange \in Exchanges,
         settings' = settings \/ \A u \in Updates : task[u].pc \in Within => u \in crossed',
         a \in Updates => OfUpdate(t), a \in Requests => OfRequest(t),
         a \in Updates => task[a].pc \notin Closing /\ t.pc \notin Closing,
         \A b \in crossed : b # a => b \in crossed',
         a \in Updates /\ t.pc \in Within => task[a].pc \in Within /\ (a \in crossed => a \in crossed'),
         a \in Requests /\ t.pc = "asking" =>
           lock' = a /\ \A u \in Updates : task[u].pc \in Within => a \in crossed',
         \A q \in Requests : q # a /\ task[q].pc = "asking" => lock' = q,
         a \in Updates => a \in crossed' \/ Sure(a)',
         a \in Requests => a \in crossed' \/ Certain(a)'
  PROVE  TableInv'
<1>1. task'[a] = t /\ \A b \in Tasks : b # a => task'[b] = task[b]
  BY Becomes DEF TableInv
<1>2. Typed'
  <2>1. /\ task' = [b \in Tasks |-> task'[b]]
        /\ \A u \in Updates : OfUpdate(task'[u])
        /\ \A r \in Requests : OfRequest(task'[r])
    BY TypesMove DEF TableInv
  <2> QED
    BY <2>1 DEF TableInv, Typed, OfUpdate, OfRequest
<1>3. Known' /\ Listed'
  BY DEF TableInv, Known, Listed
<1>4. ~Torn' => Right'
  <2>1. Torn => Torn'
    BY Phases DEF TableInv
  <2> QED
    BY <2>1 DEF TableInv, Right
<1>5. Stops'
  <2>1. \A u \in Updates : task'[u].pc = "stopping" <=> task[u].pc = "stopping"
    BY <1>1, Distinct DEF Closing
  <2>2. \A u \in Updates : task[u].pc = "stopping" => task'[u] = task[u]
    BY <1>1, Distinct DEF Closing
  <2> QED
    BY <2>1, <2>2 DEF TableInv, Stops
<1>6. Alone'
  BY StaysAlone DEF TableInv
<1>7. ASSUME NEW u \in Updates PROVE u \in crossed' \/ Sure(u)'
  <2>1. CASE u = a
    BY <2>1
  <2>2. CASE u # a
    <3>1. task'[u] = task[u]
      BY <1>1, <2>2, Distinct
    <3>2. CASE u \in crossed
      BY <2>2, <3>2
    <3>3. CASE task[u].pc \notin Within
      BY <3>1, <3>3 DEF Sure, Within
    <3>4. CASE u \notin crossed /\ task[u].pc \in Within
      BY <3>1, <3>4 DEF TableInv, Relied, Sure, Free
    <3> QED
      BY <3>2, <3>3, <3>4
  <2> QED
    BY <2>1, <2>2
<1>8. ASSUME NEW r \in Requests PROVE r \in crossed' \/ Certain(r)'
  <2>1. CASE r = a
    BY <2>1
  <2>2. CASE r # a
    <3>1. task'[r] = task[r]
      BY <1>1, <2>2, Distinct
    <3> QED
      BY <2>2, <3>1 DEF TableInv, Relied, Certain
  <2> QED
    BY <2>1, <2>2
<1> QED
  BY <1>2, <1>3, <1>4, <1>5, <1>6, <1>7, <1>8 DEF TableInv, Relied

\* The books of the positions stay as they are.
LEMMA StaysHeard ==
  ASSUME HeardInv, UNCHANGED <<memory, booked>>, loops \subseteq loops',
         \A l \in loops' : l \in loops \/ l.books = None
  PROVE  HeardInv' /\ (Covered => Covered')
BY DEF HeardInv, Covered

LEMMA StaysTyped ==
  ASSUME TableInv
  PROVE  /\ settings.market \in Markets /\ settings.exchange \in Exchanges /\ exchangeId \in Exchanges
         /\ made.clients \in Nat
BY DEF TableInv, Typed

\* Requests hold the lock as long as nobody else takes it.
LEMMA StaysLocked ==
  ASSUME TableInv, lock' = lock
  PROVE  \A q \in Requests : task[q].pc = "asking" => lock' = q
BY DEF TableInv, Alone
-----------------------------------------------------------------------------
(* Steps of an update that leave the clients as they are. *)

LEMMA SetsKeeps == ASSUME Inv, NEW u \in Updates, UpdateSets(u) PROVE Inv'
<1> DEFINE t == [pc |-> "commit"]
<1>1. t.pc = "commit"
  OBVIOUS
<1>2. /\ task[u] = Idle /\ task' = [task EXCEPT ![u] = t]
      /\ made' = [made EXCEPT !.updates = @ + 1]
      /\ settings' \in [exchange : Exchanges, market : Markets, paper : BOOLEAN]
      /\ crossed' = crossed \cup Inside
      /\ UNCHANGED <<exchangeId, isPaper, client, open, watch, loops, lock, memory, booked, strays,
                     unread>>
  BY DEF UpdateSets, engine, clients, positions
<1> HIDE DEF t
<1>3. task[u].pc = "idle" /\ u \in Tasks /\ u \notin Requests
  BY <1>2, Distinct
<1>4. \A v \in Updates : task[v].pc \in Within => v \in crossed'
  BY <1>2 DEF Inside, Within
<1>5. Sure(u)'
  <2>1. task'[u].pc = "commit"
    BY <1>1, <1>2, <1>3, Becomes DEF Inv, TableInv
  <2> QED
    BY <2>1 DEF Sure, Within
<1>6. made'.clients = made.clients /\ settings'.market \in Markets /\ settings'.exchange \in Exchanges
  BY <1>2
<1>7. OfUpdate(t)
  BY <1>1 DEF OfUpdate
<1>8. t.pc \notin Closing /\ t.pc \notin Within /\ task[u].pc \notin Closing /\ task[u].pc \notin Before
  BY <1>1, <1>3 DEF Closing, Within, Before
<1>9. TableInv'
  BY <1>2, <1>3, <1>4, <1>5, <1>6, <1>7, <1>8, StaysLocked, TaskMoves DEF Inv
<1>10. HeardInv' /\ CoverInv'
  BY <1>2, <1>3, <1>8, StaysHeard, Phases DEF Inv, CoverInv, TableInv
<1> QED
  BY <1>9, <1>10 DEF Inv

\* An update ends; nobody relies on what it was.
LEMMA EndKeeps ==
  ASSUME TableInv, NEW u \in Updates, Ends(u), task[u].pc \notin Closing,
         UNCHANGED <<settings, exchangeId, client, open, watch, loops, lock, made, strays>>
  PROVE  TableInv'
<1>1. /\ task' = [task EXCEPT ![u] = Idle] /\ crossed' = crossed \ {u}
      /\ u \in Tasks /\ u \notin Requests
  BY Distinct DEF Ends
<1>2. Idle.pc \notin Closing /\ Idle.pc \notin Within /\ OfUpdate(Idle)
  BY Distinct DEF Closing, Within, OfUpdate
<1>3. Sure(u)'
  <2>1. task'[u].pc = "idle"
    BY <1>1, Becomes, Distinct DEF TableInv
  <2> QED
    BY <2>1 DEF Sure, Within
<1> QED
  BY <1>1, <1>2, <1>3, StaysTyped, StaysLocked, TaskMoves

LEMMA ToPaperKeeps == ASSUME Inv, NEW u \in Updates, UpdateToPaper(u) PROVE Inv'
<1>1. /\ task[u].pc = "commit" /\ Ends(u) /\ isPaper' = TRUE
      /\ UNCHANGED <<settings, exchangeId, client, open, watch, loops, lock, made, strays, memory,
                     booked>>
  BY DEF UpdateToPaper, clients, positions
<1>2. TableInv'
  BY <1>1, EndKeeps DEF Inv, Closing
<1> QED
  BY <1>1, <1>2, StaysHeard DEF Inv, CoverInv

LEMMA FailsKeeps == ASSUME Inv, NEW u \in Updates, UpdateFails(u) PROVE Inv'
<1>1. /\ task[u].pc = "connecting" /\ Ends(u) /\ isPaper' = TRUE
      /\ UNCHANGED <<settings, exchangeId, client, open, watch, loops, lock, made, strays, memory,
                     booked>>
  BY DEF UpdateFails, clients, positions
<1>2. TableInv'
  BY <1>1, EndKeeps DEF Inv, Closing
<1> QED
  BY <1>1, <1>2, StaysHeard DEF Inv, CoverInv

LEMMA EndsKeeps == ASSUME Inv, NEW u \in Updates, UpdateEnds(u) PROVE Inv'
<1>1. /\ task[u].pc = "others" /\ Ends(u) /\ isPaper' \in {isPaper, TRUE}
      /\ UNCHANGED <<settings, exchangeId, client, open, watch, loops, lock, made, strays, memory,
                     booked, unread>>
  BY DEF UpdateEnds, clients, positions
<1>2. TableInv'
  BY <1>1, EndKeeps DEF Inv, Closing
<1>3. Restoring => Restoring'
  BY <1>1, Phases, Distinct DEF Inv, TableInv, Ends, Before
<1>4. HeardInv' /\ (Covered => Covered')
  BY <1>1, StaysHeard DEF Inv
<1>5. (isPaper' = isPaper \/ isPaper' = TRUE) /\ unread' = unread
  BY <1>1
<1>6. CoverInv'
  <2> SUFFICES ASSUME ~Restoring', ~isPaper', ~unread' PROVE Covered'
    BY DEF CoverInv
  <2>1. ~isPaper /\ ~unread
    BY <1>5
  <2> QED
    BY <1>3, <1>4, <2>1 DEF Inv, CoverInv
<1> QED
  BY <1>2, <1>4, <1>6 DEF Inv

LEMMA ClearsKeeps == ASSUME Inv, NEW u \in Updates, UpdateClears(u) PROVE Inv'
<1>1. /\ task[u].pc = "restoring" /\ Goto(u, "reading") /\ memory' = {}
      /\ UNCHANGED <<settings, exchangeId, isPaper, client, open, watch, loops, lock, booked, made,
                     crossed, strays>>
      /\ u \in Tasks /\ u \notin Requests
  BY Distinct DEF UpdateClears, engine, clients, meetings
<1>2. PICK t : /\ task' = [task EXCEPT ![u] = t] /\ t.pc = "reading"
               /\ t.exchange = task[u].exchange
  BY <1>1, Changed, Distinct DEF Inv, TableInv
<1>3. task'[u] = t
  BY <1>1, <1>2, Becomes DEF Inv, TableInv
<1>4. OfUpdate(t)
  <2>1. OfUpdate(task[u])
    BY DEF Inv, TableInv, Typed
  <2> QED
    BY <1>1, <1>2, <2>1, Distinct DEF OfUpdate, Within
<1>5. u \in crossed' \/ Sure(u)'
  BY <1>1, <1>2, <1>3 DEF Inv, TableInv, Relied, Sure, Free, Within
<1>6. /\ t.pc \notin Closing /\ task[u].pc \notin Closing /\ task[u].pc \in Within /\ t.pc \in Before
  BY <1>1, <1>2 DEF Closing, Within, Before
<1>7. TableInv'
  BY <1>1, <1>2, <1>4, <1>5, <1>6, StaysTyped, StaysLocked, TaskMoves DEF Inv
<1>8. HeardInv' /\ CoverInv'
  BY <1>1, <1>2, <1>6, Phases DEF Inv, HeardInv, CoverInv, TableInv
<1> QED
  BY <1>7, <1>8 DEF Inv

\* From the memory to the other markets.
LEMMA ProceedKeeps ==
  ASSUME Inv, NEW u \in Updates, task[u].pc = "reading", Proceeds(u), memory' \subseteq Positions,
         UNCHANGED <<settings, exchangeId, client, open, watch, loops, lock, made, crossed, strays>>
  PROVE  TableInv'
<1> DEFINE t == [pc |-> "others", of |-> OtherMarkets(memory'), exchange |-> task[u].exchange]
<1>1. t.pc = "others" /\ t.of = OtherMarkets(memory') /\ t.exchange = task[u].exchange
  OBVIOUS
<1>2. task' = [task EXCEPT ![u] = t] /\ u \in Tasks /\ u \notin Requests
  BY Distinct DEF Proceeds, Inv, TableInv, Typed
<1> HIDE DEF t
<1>3. task'[u] = t
  BY <1>2, Becomes DEF Inv, TableInv
<1>4. \A m \in t.of : m \in Markets \ {settings.market}
  BY <1>1, ConnectionsAssumption DEF OtherMarkets
<1>5. OfUpdate(t)
  <2>1. OfUpdate(task[u])
    BY DEF Inv, TableInv, Typed
  <2> QED
    BY <1>1, <1>4, <2>1, Distinct DEF OfUpdate, Within
<1>6. u \in crossed' \/ Sure(u)'
  BY <1>1, <1>3, <1>4 DEF Inv, TableInv, Relied, Sure, Free, Within
<1>7. /\ t.pc \notin Closing /\ task[u].pc \notin Closing /\ task[u].pc \in Within
  BY <1>1 DEF Closing, Within
<1> QED
  BY <1>2, <1>5, <1>6, <1>7, StaysTyped, StaysLocked, TaskMoves DEF Inv

LEMMA RestoresKeeps == ASSUME Inv, NEW u \in Updates, UpdateRestores(u) PROVE Inv'
<1>1. /\ task[u].pc = "reading" /\ Proceeds(u) /\ memory' = booked
      /\ UNCHANGED <<settings, exchangeId, client, open, watch, loops, lock, booked, made, crossed,
                     strays>>
  BY DEF UpdateRestores, engine, clients, meetings
<1>2. TableInv'
  BY <1>1, ProceedKeeps DEF Inv, HeardInv
<1>3. HeardInv' /\ CoverInv'
  BY <1>1 DEF Inv, HeardInv, CoverInv, Covered
<1> QED
  BY <1>2, <1>3 DEF Inv

LEMMA CannotReadKeeps == ASSUME Inv, NEW u \in Updates, UpdateCannotRead(u) PROVE Inv'
<1>1. /\ task[u].pc = "reading" /\ Proceeds(u) /\ unread' = TRUE
      /\ UNCHANGED <<settings, exchangeId, client, open, watch, loops, lock, memory, booked, made,
                     crossed, strays>>
  BY DEF UpdateCannotRead, engine, clients, meetings
<1>2. TableInv'
  BY <1>1, ProceedKeeps DEF Inv, HeardInv
<1>3. HeardInv' /\ CoverInv'
  BY <1>1 DEF Inv, HeardInv, CoverInv
<1> QED
  BY <1>2, <1>3 DEF Inv
-----------------------------------------------------------------------------
(* The update tears down what there was. *)

LEMMA Cancelled ==
  ASSUME NEW l, NEW k, k = [l EXCEPT !.cancelled = TRUE]
  PROVE  /\ k.n = l.n /\ k.market = l.market /\ k.books = l.books /\ k.stray = l.stray
<1> DEFINE c == [l EXCEPT !.cancelled = TRUE]
<1>1. c.n = l.n /\ c.market = l.market /\ c.books = l.books /\ c.stray = l.stray
  OBVIOUS
<1> HIDE DEF c
<1>2. k = c
  BY DEF c
<1> QED
  BY <1>1, <1>2

\* Every task that is registered is cancelled: all but those of the strays.
LEMMA StopsKeeps == ASSUME Inv, NEW u \in Updates, UpdateStops(u) PROVE Inv'
<1> DEFINE t == [pc |-> "stopping", of |-> Registered, exchange |-> settings.exchange]
<1>1. t.pc = "stopping" /\ t.of = Registered /\ t.exchange = settings.exchange
  OBVIOUS
<1>2. /\ task[u].pc = "commit" /\ task' = [task EXCEPT ![u] = t] /\ Meets(u)
      /\ exchangeId' = settings.exchange
      /\ loops' = {IF l.n \in Registered THEN [l EXCEPT !.cancelled = TRUE] ELSE l : l \in loops}
      /\ UNCHANGED <<settings, client, open, watch, lock, memory, booked, made, strays>>
      /\ u \in Tasks /\ u \notin Requests
  BY Distinct DEF UpdateStops, positions
<1> HIDE DEF t
<1>3. task'[u] = t /\ \A b \in Tasks : b # u => task'[b] = task[b]
  BY <1>2, Becomes DEF Inv, TableInv
<1>4. ASSUME NEW k \in loops'
      PROVE  \E l \in loops : /\ k.n = l.n /\ k.market = l.market /\ k.books = l.books
                              /\ k.stray = l.stray
                              /\ (k.cancelled => l.cancelled \/ l.n \in Registered)
  <2>1. PICK l \in loops : k = IF l.n \in Registered THEN [l EXCEPT !.cancelled = TRUE] ELSE l
    BY <1>2
  <2>2. CASE l.n \in Registered
    BY <2>1, <2>2, Cancelled
  <2>3. CASE l.n \notin Registered
    BY <2>1, <2>3
  <2> QED
    BY <2>2, <2>3
<1>5. Typed'
  <2>1. OfUpdate(t)
    BY <1>1, StaysTyped DEF Inv, OfUpdate, Within
  <2>2. /\ task' = [b \in Tasks |-> task'[b]]
        /\ \A v \in Updates : OfUpdate(task'[v])
        /\ \A r \in Requests : OfRequest(task'[r])
    BY <1>2, <2>1, TypesMove DEF Inv, TableInv
  <2>3. \A l \in loops' : l.n \in Nat /\ l.n <= made'.clients /\ l.market \in Markets
    BY <1>2, <1>4 DEF Inv, TableInv, Typed
  <2>4. exchangeId' \in Exchanges
    BY <1>2, StaysTyped DEF Inv
  <2>5. /\ client' = [m \in Markets |-> client'[m]] /\ watch' = [m \in Markets |-> watch'[m]]
        /\ settings'.market \in Markets /\ settings'.exchange \in Exchanges /\ made'.clients \in Nat
        /\ \A m \in Markets : client'[m] = None \/ client'[m] \in Client
        /\ \A m \in Markets : watch'[m] = None \/ (watch'[m] \in Nat /\ watch'[m] <= made'.clients)
    BY <1>2 DEF Inv, TableInv, Typed
  <2> QED
    BY <2>2, <2>3, <2>4, <2>5 DEF Typed, OfUpdate, OfRequest
<1>6. Known' /\ Listed'
  <2>1. Known'
    BY <1>2 DEF Inv, TableInv, Known
  <2>2. Listed'
    BY <1>2, <1>4 DEF Inv, TableInv, Listed
  <2> QED
    BY <2>1, <2>2
<1>7. Torn' /\ Restoring'
  BY <1>1, <1>2, Phases DEF Inv, TableInv, Closing, Before
<1>8. Stops'
  <2>1. ASSUME NEW k \in loops', k.cancelled
        PROVE  \E v \in Updates : task'[v].pc = "stopping" /\ k.n \in task'[v].of
    <3>1. PICK l \in loops : k.n = l.n /\ (l.cancelled \/ l.n \in Registered)
      BY <1>4, <2>1
    <3>2. CASE l.n \in Registered
      BY <1>1, <1>3, <3>1, <3>2
    <3>3. CASE l.cancelled
      <4>1. PICK v \in Updates : task[v].pc = "stopping" /\ l.n \in task[v].of
        BY <3>3 DEF Inv, TableInv, Stops
      <4>2. v # u /\ v \in Tasks
        BY <1>2, <4>1, Distinct
      <4> QED
        BY <1>3, <3>1, <4>1, <4>2
    <3> QED
      BY <3>1, <3>2, <3>3
  <2>2. ASSUME NEW v \in Updates, task'[v].pc = "stopping", NEW k \in loops', ~k.stray
        PROVE  k.n \in task'[v].of
    <3>1. PICK l \in loops : k.n = l.n /\ ~l.stray
      BY <1>4, <2>2
    <3>2. CASE v = u
      <4>1. l.n = watch[l.market] /\ l.market \in Markets
        BY <3>1 DEF Inv, TableInv, Listed, Typed
      <4> QED
        BY <1>1, <1>3, <3>1, <3>2, <4>1 DEF Registered
    <3>3. CASE v # u
      BY <1>3, <2>2, <3>1, <3>3, Distinct DEF Inv, TableInv, Stops
    <3> QED
      BY <3>2, <3>3
  <2> QED
    BY <2>1, <2>2 DEF Stops
<1>9. /\ \A v \in Updates : task[v].pc \in Within => v \in crossed' /\ u \in crossed'
      /\ \A r \in Requests : task[r].pc = "asking" => r \in crossed'
  BY <1>2 DEF Meets, Inside, Asking, Within
<1>10. Alone'
  <2>1. ASSUME NEW v \in Updates, NEW w \in Updates, v # w,
               task'[v].pc \in Within, task'[w].pc \in Within
        PROVE  v \in crossed'
    <3>1. CASE v # u
      BY <1>3, <1>9, <2>1, <3>1, Distinct
    <3>2. CASE v = u
      BY <1>3, <1>9, <2>1, <3>2, Distinct
    <3> QED
      BY <3>1, <3>2
  <2>2. ASSUME NEW r \in Requests, task'[r].pc = "asking" PROVE lock' = r /\ r \in crossed'
    <3>1. task[r].pc = "asking"
      BY <1>2, <1>3, <2>2, Distinct
    <3> QED
      BY <1>2, <1>9, <3>1 DEF Inv, TableInv, Alone
  <2> QED
    BY <2>1, <2>2 DEF Alone
<1>11. Relied'
  <2>1. ASSUME NEW v \in Updates PROVE v \in crossed' \/ Sure(v)'
    <3>1. CASE v = u
      BY <1>1, <1>2, <1>3, <3>1 DEF Sure
    <3>2. CASE v # u /\ task[v].pc \in Within
      BY <1>9, <3>2
    <3>3. CASE v # u /\ task[v].pc \notin Within
      BY <1>3, <3>3, Distinct DEF Sure, Within
    <3> QED
      BY <3>1, <3>2, <3>3
  <2>2. ASSUME NEW r \in Requests PROVE r \in crossed' \/ Certain(r)'
    BY <1>2, <1>3, <1>9, Distinct DEF Certain
  <2> QED
    BY <2>1, <2>2 DEF Relied
<1>12. HeardInv' /\ CoverInv'
  BY <1>2, <1>4, <1>7 DEF Inv, HeardInv, CoverInv
<1> QED
  BY <1>5, <1>6, <1>7, <1>8, <1>10, <1>11, <1>12 DEF Inv, TableInv

\* The parts that speak of an update's own task, after a step of it within
\* initialize that leaves the others alone.
LEMMA OthersRely ==
  ASSUME TableInv, NEW u \in Updates, task[u].pc \in Within, NEW t, task' = [task EXCEPT ![u] = t],
         UNCHANGED <<settings, exchangeId, lock, crossed>>,
         u \in crossed \/ Sure(u)'
  PROVE  Alone' /\ Relied'
<1>1. u \in Tasks /\ u \notin Requests
  BY Distinct
<1>2. task'[u] = t /\ \A b \in Tasks : b # u => task'[b] = task[b]
  BY <1>1, Becomes DEF TableInv
<1>3. Alone'
  BY <1>1, StaysAlone, StaysLocked DEF TableInv
<1>4. ASSUME NEW v \in Updates PROVE v \in crossed' \/ Sure(v)'
  <2>1. CASE v = u
    BY <2>1
  <2>2. CASE v # u /\ task[v].pc \in Within
    BY <2>2 DEF TableInv, Alone
  <2>3. CASE v # u /\ task[v].pc \notin Within
    BY <1>2, <2>3, Distinct DEF Sure, Within
  <2> QED
    BY <2>1, <2>2, <2>3
<1>5. ASSUME NEW r \in Requests PROVE r \in crossed' \/ Certain(r)'
  <2>1. task'[r] = task[r]
    BY <1>1, <1>2, Distinct
  <2>2. task[r].pc = "asking" => r \in crossed
    BY DEF TableInv, Alone
  <2> QED
    BY <2>1, <2>2 DEF Certain
<1> QED
  BY <1>3, <1>4, <1>5 DEF Relied

\* Only tasks of the strays run when the list of clients is taken.
LEMMA StoppedKeeps == ASSUME Inv, NEW u \in Updates, UpdateStopped(u) PROVE Inv'
<1> DEFINE t == [pc |-> "closing", of |-> Table, exchange |-> task[u].exchange]
<1>1. t.pc = "closing" /\ t.of = Table /\ t.exchange = task[u].exchange
  OBVIOUS
<1>2. /\ task[u].pc = "stopping" /\ \A l \in loops : l.n \notin task[u].of
      /\ task' = [task EXCEPT ![u] = t]
      /\ watch' = [m \in Markets |-> None]
      /\ UNCHANGED <<settings, exchangeId, isPaper, client, open, loops, lock, memory, booked, made,
                     crossed, strays, unread>>
      /\ u \in Tasks /\ u \notin Requests
  BY Distinct DEF UpdateStopped, engine, positions, meetings, Inv, TableInv, Typed
<1> HIDE DEF t
<1>3. task'[u] = t /\ \A b \in Tasks : b # u => task'[b] = task[b]
  BY <1>2, Becomes DEF Inv, TableInv
<1>4. \A l \in loops : l.stray
  BY <1>2 DEF Inv, TableInv, Stops
<1>5. Typed'
  <2>1. OfUpdate(task[u])
    BY DEF Inv, TableInv, Typed
  <2>2. OfUpdate(t)
    BY <1>1, <1>2, <2>1, Distinct DEF OfUpdate, Within
  <2>3. /\ task' = [b \in Tasks |-> task'[b]]
        /\ \A v \in Updates : OfUpdate(task'[v])
        /\ \A r \in Requests : OfRequest(task'[r])
    BY <1>2, <2>2, TypesMove DEF Inv, TableInv
  <2> QED
    BY <1>2, <2>3 DEF Inv, TableInv, Typed, OfUpdate, OfRequest
<1>6. Known' /\ Listed'
  <2>1. Known'
    BY <1>2 DEF Inv, TableInv, Known
  <2>2. \A l \in loops : l.n # None
    BY Distinct DEF Inv, TableInv, Typed
  <2>3. Listed'
    BY <1>2, <1>4, <2>2 DEF Listed
  <2> QED
    BY <2>1, <2>3
<1>7. Torn' /\ Restoring'
  BY <1>1, <1>2, Phases DEF Inv, TableInv, Closing, Before
<1>8. Stops'
  <2>1. ASSUME NEW l \in loops, l.cancelled
        PROVE  \E v \in Updates : task'[v].pc = "stopping" /\ l.n \in task'[v].of
    <3>1. PICK v \in Updates : task[v].pc = "stopping" /\ l.n \in task[v].of
      BY <2>1 DEF Inv, TableInv, Stops
    <3>2. v # u /\ v \in Tasks
      BY <1>2, <3>1, Distinct
    <3> QED
      BY <1>3, <3>1, <3>2
  <2> QED
    BY <1>2, <1>4, <2>1 DEF Stops
<1>9. \A m \in Markets : client[m] = None \/ client[m] \in Table
  BY DEF Table
<1>10. u \in crossed \/ Sure(u)'
  <2>1. u \in crossed \/ task[u].exchange = exchangeId
    BY <1>2 DEF Inv, TableInv, Relied, Sure, Within
  <2>2. Sure(u)' \/ task[u].exchange # exchangeId
    BY <1>1, <1>2, <1>3, <1>9 DEF Sure, Free, Within
  <2> QED
    BY <2>1, <2>2
<1>11. Alone' /\ Relied'
  BY <1>2, <1>10, OthersRely DEF Inv, Within
<1>12. HeardInv' /\ CoverInv'
  BY <1>2, <1>7 DEF Inv, HeardInv, CoverInv
<1> QED
  BY <1>5, <1>6, <1>7, <1>8, <1>11, <1>12 DEF Inv, TableInv

\* Who is not on the list, and is dropped, is a stray.
LEMMA ClosesKeeps == ASSUME Inv, NEW u \in Updates, UpdateCloses(u) PROVE Inv'
<1> DEFINE t == [pc |-> "connecting", market |-> settings.market, exchange |-> task[u].exchange]
<1>1. t.pc = "connecting" /\ t.market = settings.market /\ t.exchange = task[u].exchange
  OBVIOUS
<1>2. /\ task[u].pc = "closing" /\ task' = [task EXCEPT ![u] = t]
      /\ open' = open \ task[u].of /\ client' = [m \in Markets |-> None]
      /\ strays' = (strays \cup IF u \in crossed THEN Table ELSE {}) \ task[u].of
      /\ UNCHANGED <<settings, exchangeId, isPaper, watch, loops, lock, memory, booked, made, crossed,
                     unread>>
      /\ u \in Tasks /\ u \notin Requests
  BY Distinct DEF UpdateCloses, engine, positions, Inv, TableInv, Typed
<1> HIDE DEF t
<1>3. task'[u] = t /\ \A b \in Tasks : b # u => task'[b] = task[b]
  BY <1>2, Becomes DEF Inv, TableInv
<1>4. \A m \in Markets : client'[m] = None
  BY <1>2
<1>5. Typed'
  <2>1. OfUpdate(task[u])
    BY DEF Inv, TableInv, Typed
  <2>2. OfUpdate(t)
    BY <1>1, <1>2, <2>1, StaysTyped, Distinct DEF Inv, OfUpdate, Within
  <2>3. /\ task' = [b \in Tasks |-> task'[b]]
        /\ \A v \in Updates : OfUpdate(task'[v])
        /\ \A r \in Requests : OfRequest(task'[r])
    BY <1>2, <2>2, TypesMove DEF Inv, TableInv
  <2> QED
    BY <1>2, <2>3 DEF Inv, TableInv, Typed, OfUpdate, OfRequest
<1>6. Known' /\ Listed'
  <2>1. ASSUME NEW c \in open' PROVE c \in strays'
    <3>1. c \in open /\ c \notin task[u].of
      BY <1>2
    <3>2. CASE c \in strays
      BY <1>2, <3>1, <3>2
    <3>3. CASE c \notin strays
      <4>1. PICK m \in Markets : c = client[m] /\ c # None
        BY <3>1, <3>3 DEF Inv, TableInv, Known
      <4>2. c \in Table
        BY <4>1 DEF Table
      <4>3. u \in crossed
        BY <1>2, <3>1, <3>3, <4>1 DEF Inv, TableInv, Relied, Sure, Free
      <4> QED
        BY <1>2, <3>1, <4>2, <4>3
    <3> QED
      BY <3>2, <3>3
  <2>2. Known'
    BY <1>4, <2>1 DEF Known
  <2>3. Listed'
    BY <1>2 DEF Inv, TableInv, Listed
  <2> QED
    BY <2>2, <2>3
<1>7. Right' /\ Restoring'
  <2>1. Right'
    BY <1>4 DEF Right
  <2>2. Restoring'
    BY <1>1, <1>2, Phases DEF Inv, TableInv, Before
  <2> QED
    BY <2>1, <2>2
<1>8. Stops'
  <2>1. \A v \in Updates : task[v].pc = "stopping" <=> task'[v].pc = "stopping"
    BY <1>1, <1>2, <1>3, Distinct
  <2>2. \A v \in Updates : task[v].pc = "stopping" => task'[v] = task[v]
    BY <1>2, <1>3, Distinct
  <2> QED
    BY <1>2, <2>1, <2>2 DEF Inv, TableInv, Stops
<1>9. u \in crossed \/ Sure(u)'
  <2>1. u \in crossed \/ task[u].exchange = exchangeId
    BY <1>2 DEF Inv, TableInv, Relied, Sure, Within
  <2>2. Sure(u)' \/ task[u].exchange # exchangeId
    BY <1>1, <1>2, <1>3, <1>4 DEF Sure, Free, Within
  <2> QED
    BY <2>1, <2>2
<1>10. Alone' /\ Relied'
  BY <1>2, <1>9, OthersRely DEF Inv, Within
<1>11. HeardInv' /\ CoverInv'
  BY <1>2, <1>7 DEF Inv, HeardInv, CoverInv
<1> QED
  BY <1>5, <1>6, <1>7, <1>8, <1>10, <1>11 DEF Inv, TableInv
-----------------------------------------------------------------------------
(* A market gets its client. *)

\* A task that is alone finds only strays, and connects what is wanted.
LEMMA ConnectKeeps ==
  ASSUME TableInv, NEW a \in Tasks, NEW market \in Markets, NEW c, c \in Client,
         c.n = made.clients + 1, Connect(a, market, c),
         a \in Updates => task[a].pc \in {"connecting", "others"},
         a \in Requests => task[a].pc = "asking",
         a \in crossed \/ (Free(market) /\ c.market = market /\ c.exchange = exchangeId),
         UNCHANGED <<settings, exchangeId>>,
         NEW t, task' = [task EXCEPT ![a] = t],
         a \in Updates => t.pc \in Within \ Closing /\ OfUpdate(t) /\ lock' = lock /\ crossed' = crossed,
         a \in Requests => t = Idle /\ crossed' = crossed \ {a},
         a \in Updates => a \in crossed \/ Sure(a)'
  PROVE  /\ TableInv' /\ loops \subseteq loops'
         /\ \A l \in loops' : l \in loops \/ l.books = None
<1> DEFINE k == [n |-> c.n, market |-> market, on |-> c, books |-> None, cancelled |-> FALSE,
                 stray |-> a \in crossed]
<1>1. /\ k.n = c.n /\ k.market = market /\ k.books = None /\ k.cancelled = FALSE
      /\ k.stray = (a \in crossed)
  OBVIOUS
<1>2. /\ client' = [client EXCEPT ![market] = c] /\ open' = open \cup {c}
      /\ strays' = strays \cup (IF a \in crossed THEN {c, client[market]} \ {None} ELSE {})
      /\ made' = [made EXCEPT !.clients = @ + 1]
  BY DEF Connect, Made
<1>3. \/ /\ watch' = watch /\ loops' = loops
         /\ c.exchange \notin Watchable \/ Alive(watch[market])
      \/ /\ watch' = [watch EXCEPT ![market] = c.n] /\ loops' = loops \cup {k}
         /\ ~Alive(watch[market])
  BY DEF Connect, Watch
<1> HIDE DEF k
<1>4. /\ client' = [m \in Markets |-> client'[m]] /\ client'[market] = c
      /\ \A m \in Markets : m # market => client'[m] = client[m]
  BY <1>2 DEF TableInv, Typed
<1>5. /\ c # None /\ c.n \in Nat /\ made.clients \in Nat /\ made'.clients = made.clients + 1
  <2>1. c.n \in Nat /\ c # None
    BY Distinct DEF Client
  <2>2. made'.clients = made.clients + 1
    BY <1>2, <2>1
  <2> QED
    BY <2>1, <2>2, StaysTyped
<1>6. a \notin Updates \/ a \notin Requests
  BY Distinct
<1>7. task'[a] = t /\ \A b \in Tasks : b # a => task'[b] = task[b]
  BY Becomes DEF TableInv
<1>8. /\ watch' = [m \in Markets |-> watch'[m]]
      /\ \A m \in Markets : watch'[m] = watch[m] \/ (m = market /\ watch'[m] = c.n)
  BY <1>3 DEF TableInv, Typed
<1>9. /\ loops \subseteq loops' /\ \A l \in loops' : l \in loops \/ l = k
  BY <1>3
<1>10. Typed'
  <2>1. /\ task' = [b \in Tasks |-> task'[b]]
        /\ \A u \in Updates : OfUpdate(task'[u])
        /\ \A r \in Requests : OfRequest(task'[r])
    <3>1. OfRequest(Idle)
      BY DEF OfRequest
    <3> QED
      BY <1>6, <3>1, TypesMove DEF TableInv
  <2>2. \A m \in Markets : client'[m] = None \/ client'[m] \in Client
    BY <1>4 DEF TableInv, Typed
  <2>3. \A m \in Markets : watch'[m] = None \/ (watch'[m] \in Nat /\ watch'[m] <= made'.clients)
    BY <1>5, <1>8 DEF TableInv, Typed
  <2>4. \A l \in loops' : l.n \in Nat /\ l.n <= made'.clients /\ l.market \in Markets
    BY <1>1, <1>5, <1>9 DEF TableInv, Typed
  <2>5. settings'.market \in Markets /\ settings'.exchange \in Exchanges /\ exchangeId' \in Exchanges
    BY StaysTyped
  <2>6. made'.clients \in Nat
    BY <1>5
  <2> QED
    BY <1>4, <1>8, <2>1, <2>2, <2>3, <2>4, <2>5, <2>6 DEF Typed, OfUpdate, OfRequest
<1>11. \A m \in Markets : m # market /\ Free(m) => Free(m)'
  BY <1>2, <1>4 DEF Free
<1>12. a \in crossed => Free(market)'
  BY <1>2, <1>4, <1>5 DEF Free
<1>13. Known'
  <2>1. \A m \in Markets : client'[m] # None => client'[m] \in open'
    BY <1>2, <1>4 DEF TableInv, Known
  <2>2. ASSUME NEW x \in open' PROVE x \in strays' \/ \E m \in Markets : x = client'[m] /\ x # None
    <3>1. CASE x = c
      BY <1>4, <1>5, <3>1
    <3>2. CASE x \in strays
      BY <1>2, <3>2
    <3>3. CASE x # c /\ x \notin strays
      <4>1. PICK m \in Markets : x = client[m] /\ x # None
        BY <1>2, <3>3 DEF TableInv, Known
      <4>2. CASE m # market
        BY <1>4, <4>1, <4>2
      <4>3. CASE m = market
        <5>1. a \in crossed
          BY <3>3, <4>1, <4>3 DEF Free
        <5> QED
          BY <1>2, <4>1, <4>3, <5>1
      <4> QED
        BY <4>2, <4>3
    <3> QED
      BY <3>1, <3>2, <3>3
  <2> QED
    BY <2>1, <2>2 DEF Known
<1>14. Listed'
  <2>1. ASSUME NEW l \in loops', NEW m \in Markets, l.n = watch'[m] PROVE l.market = m
    <3>1. CASE l = k
      <4>1. m = market \/ watch'[m] = watch[m]
        BY <1>8
      <4>2. watch[m] # c.n
        BY <1>5, Distinct DEF TableInv, Typed
      <4> QED
        BY <1>1, <2>1, <3>1, <4>1, <4>2
    <3>2. CASE l \in loops
      <4>1. l.n # c.n
        BY <1>5, <3>2 DEF TableInv, Typed
      <4> QED
        BY <1>8, <2>1, <3>2, <4>1 DEF TableInv, Listed
    <3> QED
      BY <1>9, <3>1, <3>2
  <2>2. ASSUME NEW l \in loops', ~l.stray PROVE l.n = watch'[l.market]
    <3>1. CASE watch' = watch /\ loops' = loops
      BY <2>2, <3>1 DEF TableInv, Listed
    <3>2. CASE watch' = [watch EXCEPT ![market] = c.n] /\ ~Alive(watch[market])
      <4>1. watch'[market] = c.n /\ \A m \in Markets : m # market => watch'[m] = watch[m]
        BY <3>2 DEF TableInv, Typed
      <4>2. CASE l = k
        BY <1>1, <4>1, <4>2
      <4>3. CASE l \in loops
        <5>1. l.n = watch[l.market] /\ l.market \in Markets
          BY <2>2, <4>3 DEF TableInv, Listed, Typed
        <5>2. l.market # market
          BY <3>2, <4>3, <5>1 DEF Alive
        <5> QED
          BY <4>1, <5>1, <5>2
      <4> QED
        BY <1>9, <4>2, <4>3
    <3> QED
      BY <1>3, <3>1, <3>2
  <2> QED
    BY <2>1, <2>2 DEF Listed
<1>15. \A u \in Updates : /\ task'[u].pc = "stopping" <=> task[u].pc = "stopping"
                          /\ task[u].pc = "stopping" => task'[u] = task[u]
  BY <1>6, <1>7, Distinct DEF Within, Closing
<1>16. \A u \in Updates : u # a /\ task[u].pc \in Within => a \in crossed
  <2>1. \A u \in Updates : a \in Updates /\ u # a /\ task[u].pc \in Within => a \in crossed
    BY DEF TableInv, Alone, Within
  <2>2. \A u \in Updates : a \in Requests /\ u # a /\ task[u].pc \in Within => a \in crossed
    BY DEF TableInv, Alone
  <2> QED
    BY <2>1, <2>2 DEF Tasks
<1>17. ~Torn' => Right'
  <2> SUFFICES ASSUME ~Torn', NEW m \in Markets, client'[m] # None, client'[m] \notin strays'
               PROVE  /\ client'[m].market = m /\ client'[m].exchange = exchangeId'
                      /\ client'[m].exchange \in Watchable => \E l \in loops' : l.market = m
    BY DEF Right
  <2>1. CASE m # market
    <3>1. Torn => Torn'
      BY Phases DEF TableInv, Closing
    <3>2. client'[m] = client[m] /\ client[m] \notin strays
      BY <1>2, <1>4, <2>1
    <3> QED
      BY <1>9, <3>1, <3>2 DEF TableInv, Right
  <2>2. CASE m = market
    <3>1. a \notin crossed
      BY <1>12, <2>2 DEF Free
    <3>2. c.exchange \in Watchable => \E l \in loops' : l.market = market
      <4>1. CASE loops' = loops \cup {k}
        BY <1>1, <4>1
      <4>2. CASE c.exchange \notin Watchable
        BY <4>2
      <4>3. CASE Alive(watch[market])
        BY <1>9, <4>3 DEF Alive, TableInv, Listed
      <4> QED
        BY <1>3, <4>1, <4>2, <4>3
    <3> QED
      BY <1>4, <2>2, <3>1, <3>2
  <2> QED
    BY <2>1, <2>2
<1>18. Stops'
  <2>1. \A l \in loops' : l.cancelled => l \in loops
    BY <1>1, <1>9
  <2>2. ASSUME NEW u \in Updates, task'[u].pc = "stopping", NEW l \in loops', ~l.stray
        PROVE  l.n \in task'[u].of
    <3>1. a \in crossed
      <4>1. task[u].pc = "stopping" /\ task[u].pc \in Within
        BY <1>15, <2>2 DEF Within
      <4>2. u # a
        BY <4>1
      <4> QED
        BY <1>16, <4>1, <4>2
    <3>2. l \in loops
      BY <1>1, <1>9, <2>2, <3>1
    <3> QED
      BY <1>15, <2>2, <3>2 DEF TableInv, Stops
  <2> QED
    BY <1>15, <2>1, <2>2 DEF TableInv, Stops
<1>19. Alone'
  <2>1. Idle.pc # "asking"
    BY Distinct
  <2>2. \A q \in Requests : q # a /\ task[q].pc = "asking" => lock' = q
    BY DEF TableInv, Alone, Tasks
  <2> QED
    BY <1>6, <2>1, <2>2, StaysAlone DEF TableInv, Within, Tasks
<1>20. ASSUME NEW u \in Updates PROVE u \in crossed' \/ Sure(u)'
  <2>1. CASE u = a
    BY <2>1
  <2>2. CASE u # a
    <3>1. task'[u] = task[u]
      BY <1>7, <2>2, Distinct
    <3>2. CASE u \in crossed
      BY <1>6, <2>2, <3>2 DEF Tasks
    <3>3. CASE task[u].pc \notin Within
      BY <3>1, <3>3 DEF Sure, Within
    <3>4. CASE u \notin crossed /\ task[u].pc \in Within
      <4>1. a \in crossed
        BY <1>16, <2>2, <3>4
      <4>2. \A m \in Markets : Free(m) => Free(m)'
        BY <1>11, <1>12, <4>1
      <4>3. \A m \in Markets : client'[m] = client[m] \/ Free(m)'
        BY <1>4, <1>12, <4>1
      <4>4. Sure(u) /\ OfUpdate(task[u])
        BY <3>4 DEF TableInv, Relied, Typed
      <4>5. task[u].pc = "others" => \A m \in task[u].of : m \in Markets
        BY <4>4, Distinct DEF OfUpdate
      <4> QED
        BY <3>1, <4>2, <4>3, <4>4, <4>5 DEF Sure
    <3> QED
      BY <3>2, <3>3, <3>4
  <2> QED
    BY <2>1, <2>2
<1>21. ASSUME NEW r \in Requests PROVE r \in crossed' \/ Certain(r)'
  <2>1. CASE r = a
    BY <1>7, <2>1, Distinct DEF Certain
  <2>2. CASE r # a
    <3>1. task'[r] = task[r] /\ (r \in crossed => r \in crossed')
      BY <1>6, <1>7, <2>2, Distinct DEF Tasks
    <3>2. task[r].pc = "asking" => r \in crossed
      <4>1. CASE a \in Updates
        BY <4>1 DEF TableInv, Alone, Within
      <4>2. CASE a \in Requests
        BY <2>2, <4>2 DEF TableInv, Alone
      <4> QED
        BY <4>1, <4>2 DEF Tasks
    <3> QED
      BY <3>1, <3>2 DEF Certain
  <2> QED
    BY <2>1, <2>2
<1>22. \A l \in loops' : l \in loops \/ l.books = None
  BY <1>1, <1>9
<1> QED
  BY <1>9, <1>10, <1>13, <1>14, <1>17, <1>18, <1>19, <1>20, <1>21, <1>22 DEF TableInv, Relied

\* The client of the market of the settings, the first one.
LEMMA ConnectsKeeps == ASSUME Inv, NEW u \in Updates, UpdateConnects(u) PROVE Inv'
<1> DEFINE market == settings.market
           c == [n |-> made.clients + 1, exchange |-> task[u].exchange, market |-> task[u].market]
<1>1. /\ task[u].pc = "connecting" /\ Goto(u, "restoring") /\ Connect(u, market, c)
      /\ UNCHANGED <<settings, exchangeId, isPaper, lock, memory, booked, crossed, unread>>
      /\ u \in Tasks /\ u \notin Requests
  BY Distinct DEF UpdateConnects, NewClient, engine, positions
<1>2. task[u].exchange \in Exchanges /\ task[u].market \in Markets
  <2>1. OfUpdate(task[u])
    BY DEF Inv, TableInv, Typed
  <2> QED
    BY <1>1, <2>1, Distinct DEF OfUpdate
<1>3. /\ c \in Client /\ c.n = made.clients + 1 /\ market \in Markets
  BY <1>2, StaysTyped DEF Inv, Client
<1>4. u \in crossed \/ Sure(u)
  BY DEF Inv, TableInv, Relied
<1>5. u \in crossed \/ (Free(market) /\ c.market = market /\ c.exchange = exchangeId)
  BY <1>1, <1>3, <1>4 DEF Sure, Within
<1>6. client' = [client EXCEPT ![market] = c]
  BY <1>1 DEF Connect
<1> HIDE DEF c
<1>7. PICK t : /\ task' = [task EXCEPT ![u] = t] /\ t.pc = "restoring"
               /\ t.exchange = task[u].exchange
  BY <1>1, Changed, Distinct DEF Inv, TableInv
<1>8. task'[u] = t
  BY <1>1, <1>7, Becomes DEF Inv, TableInv
<1>9. OfUpdate(t) /\ t.pc \in Within \ Closing /\ t.pc \in Before
  BY <1>2, <1>7 DEF OfUpdate, Within, Closing, Before
<1>10. u \in crossed \/ Sure(u)'
  <2>1. \A m \in Markets \ {settings.market} : client'[m] = client[m]
    BY <1>6 DEF Inv, TableInv, Typed
  <2>2. u \in crossed \/ \A m \in Markets \ {settings.market} : Free(m)'
    <3>1. strays \subseteq strays'
      BY <1>1 DEF Connect
    <3> QED
      BY <1>1, <1>4, <2>1, <3>1 DEF Sure, Free
  <2>3. u \in crossed \/ task'[u].exchange = exchangeId'
    BY <1>1, <1>4, <1>7, <1>8 DEF Sure, Within
  <2> QED
    BY <1>1, <1>7, <1>8, <2>2, <2>3 DEF Sure
<1>11. /\ TableInv' /\ loops \subseteq loops'
       /\ \A l \in loops' : l \in loops \/ l.books = None
  BY <1>1, <1>3, <1>5, <1>7, <1>9, <1>10, ConnectKeeps DEF Inv
<1>12. Restoring'
  BY <1>1, <1>7, <1>9, Phases DEF Inv, TableInv
<1>13. HeardInv' /\ CoverInv'
  BY <1>1, <1>11, <1>12, StaysHeard DEF Inv, CoverInv
<1> QED
  BY <1>11, <1>13 DEF Inv

LEMMA OtherKeeps == ASSUME Inv, NEW u \in Updates, UpdateOther(u) PROVE Inv'
<1>1. /\ task[u].pc = "others"
      /\ UNCHANGED <<settings, exchangeId, isPaper, lock, memory, booked, crossed, unread>>
      /\ u \in Tasks /\ u \notin Requests
  BY Distinct DEF UpdateOther, engine, positions
<1>2. PICK market \in task[u].of :
        /\ task' = [task EXCEPT ![u].of = @ \ {market}]
        /\ \/ Connect(u, market, NewClient(task[u].exchange, market))
           \/ UNCHANGED <<clients, made, strays>>
  BY DEF UpdateOther
<1> DEFINE t == [task[u] EXCEPT !.of = @ \ {market}]
<1>3. t.pc = "others" /\ t.of = task[u].of \ {market} /\ t.exchange = task[u].exchange
  BY <1>1
<1>4. task' = [task EXCEPT ![u] = t]
  BY <1>2 DEF Inv, TableInv, Typed
<1> HIDE DEF t
<1>5. task'[u] = t
  BY <1>1, <1>4, Becomes DEF Inv, TableInv
<1>6. (\A m \in task[u].of : m \in Markets) /\ task[u].exchange \in Exchanges
  <2>1. OfUpdate(task[u])
    BY DEF Inv, TableInv, Typed
  <2> QED
    BY <1>1, <2>1, Distinct DEF OfUpdate
<1>7. OfUpdate(t) /\ t.pc \in Within \ Closing /\ task[u].pc \notin Closing /\ task[u].pc \in Within
  BY <1>1, <1>3, <1>6 DEF OfUpdate, Within, Closing
<1>8. u \in crossed \/ Sure(u)
  BY DEF Inv, TableInv, Relied
<1>9. u \in crossed \/ (Free(market) /\ task[u].exchange = exchangeId)
  BY <1>1, <1>7, <1>8 DEF Sure
<1>10. TableInv' /\ loops \subseteq loops' /\ \A l \in loops' : l \in loops \/ l.books = None
  <2>1. CASE UNCHANGED <<clients, made, strays>>
    <3>1. UNCHANGED <<client, open, watch, loops, made, strays>>
      BY <2>1 DEF clients
    <3>2. u \in crossed \/ Sure(u)'
      BY <1>1, <1>3, <1>5, <1>8, <1>9, <3>1 DEF Sure, Free
    <3>3. TableInv'
      BY <1>1, <1>4, <1>7, <3>1, <3>2, StaysTyped, StaysLocked, TaskMoves DEF Inv
    <3> QED
      BY <3>1, <3>3
  <2>2. CASE Connect(u, market, NewClient(task[u].exchange, market))
    <3> DEFINE c == [n |-> made.clients + 1, exchange |-> task[u].exchange, market |-> market]
    <3>1. c.market = market /\ c.exchange = task[u].exchange /\ Connect(u, market, c)
      BY <2>2 DEF NewClient
    <3>2. market \in Markets /\ c \in Client /\ c.n = made.clients + 1
      BY <1>6, StaysTyped DEF Inv, Client
    <3> HIDE DEF c
    <3>3. u \in crossed \/ Sure(u)'
      <4>1. strays \subseteq strays' /\ \A m \in Markets : m # market => client'[m] = client[m]
        BY <3>1 DEF Connect, Inv, TableInv, Typed
      <4>2. u \in crossed \/ \A m \in t.of : Free(m)'
        BY <1>1, <1>3, <1>6, <1>8, <4>1 DEF Sure, Free
      <4> QED
        BY <1>1, <1>3, <1>5, <1>9, <4>2 DEF Sure
    <3> QED
      BY <1>1, <1>4, <1>7, <1>9, <3>1, <3>2, <3>3, ConnectKeeps DEF Inv
  <2> QED
    BY <1>2, <2>1, <2>2
<1>11. Restoring => Restoring'
  BY <1>1, <1>4, Phases DEF Inv, TableInv, Before
<1>12. HeardInv' /\ CoverInv'
  BY <1>1, <1>10, <1>11, StaysHeard DEF Inv, CoverInv
<1> QED
  BY <1>10, <1>12 DEF Inv
-----------------------------------------------------------------------------
(* Requests. *)

\* A request that connects nothing leaves the books of the positions alone.
LEMMA RequestCovers ==
  ASSUME Inv, NEW r \in Requests, NEW t, task' = [task EXCEPT ![r] = t], TableInv',
         UNCHANGED <<isPaper, memory, booked, unread>>, loops \subseteq loops',
         \A l \in loops' : l \in loops \/ l.books = None
  PROVE  Inv'
<1>1. Restoring => Restoring'
  BY Phases, Distinct DEF Inv, TableInv
<1> QED
  BY <1>1, StaysHeard DEF Inv, CoverInv

\* It ends without having connected.
LEMMA NothingAsked ==
  ASSUME TableInv, NEW r \in Requests, Ends(r),
         \A q \in Requests : q # r /\ task[q].pc = "asking" => lock' = q,
         UNCHANGED <<settings, exchangeId, client, open, watch, loops, made, strays>>
  PROVE  TableInv' /\ task' = [task EXCEPT ![r] = Idle]
<1>1. /\ task' = [task EXCEPT ![r] = Idle] /\ crossed' = crossed \ {r}
      /\ r \in Tasks /\ r \notin Updates
  BY Distinct DEF Ends
<1>2. Idle.pc # "asking" /\ OfRequest(Idle)
  BY Distinct DEF OfRequest
<1>3. Certain(r)'
  BY <1>1, <1>2, Becomes DEF TableInv, Certain
<1> QED
  BY <1>1, <1>2, <1>3, StaysTyped, TaskMoves

LEMMA MarketKeeps ==
  ASSUME Inv, NEW r \in Requests, NEW market \in Markets, RequestMarket(r, market) PROVE Inv'
<1> DEFINE t == [pc |-> "waiting", market |-> market]
<1>1. t.pc = "waiting" /\ t.market = market
  OBVIOUS
<1>2. /\ task' = [task EXCEPT ![r] = t] /\ r \in Tasks /\ r \notin Updates
      /\ UNCHANGED <<settings, exchangeId, isPaper, client, open, watch, loops, lock, memory, booked,
                     made, crossed, strays, unread>>
  BY Distinct DEF RequestMarket, engine, clients, positions, meetings
<1> HIDE DEF t
<1>3. OfRequest(t)
  BY <1>1 DEF OfRequest
<1>4. Certain(r)'
  BY <1>1, <1>2, Becomes DEF Inv, TableInv, Certain
<1>5. TableInv'
  BY <1>1, <1>2, <1>3, <1>4, StaysTyped, StaysLocked, TaskMoves DEF Inv
<1> QED
  BY <1>2, <1>5, RequestCovers

LEMMA LocksKeeps == ASSUME Inv, NEW r \in Requests, RequestLocks(r) PROVE Inv'
<1>1. /\ task[r].pc = "waiting" /\ lock = None /\ r \in Tasks /\ r \notin Updates
      /\ UNCHANGED <<settings, exchangeId, isPaper, client, open, watch, loops, memory, booked,
                     made, strays, unread>>
  BY Distinct DEF RequestLocks, engine, clients, positions
<1>2. \A q \in Requests : task[q].pc # "asking"
  BY <1>1, Distinct DEF Inv, TableInv, Alone
<1>3. CASE client[task[r].market] # None
  <2>1. Ends(r)
    BY <1>3 DEF RequestLocks
  <2> QED
    BY <1>1, <1>2, <2>1, NothingAsked, RequestCovers DEF Inv
<1>4. CASE client[task[r].market] = None
  <2> DEFINE t == [pc |-> "asking", market |-> task[r].market, exchange |-> exchangeId]
  <2>1. t.pc = "asking" /\ t.market = task[r].market /\ t.exchange = exchangeId
    OBVIOUS
  <2>2. /\ task' = [task EXCEPT ![r] = t] /\ lock' = r
        /\ crossed' = crossed \cup (IF Inside = {} THEN {} ELSE {r})
    BY <1>4 DEF RequestLocks, Asks, Inv, TableInv, Typed
  <2> HIDE DEF t
  <2>3. OfRequest(t)
    <3>1. OfRequest(task[r])
      BY DEF Inv, TableInv, Typed
    <3> QED
      BY <1>1, <2>1, <3>1, StaysTyped, Distinct DEF Inv, OfRequest
  <2>4. Certain(r)'
    <3>1. task'[r] = t
      BY <1>1, <2>2, Becomes DEF Inv, TableInv
    <3> QED
      BY <1>1, <1>4, <2>1, <3>1 DEF Certain
  <2>5. \A u \in Updates : task[u].pc \in Within => r \in crossed'
    BY <2>2 DEF Inside, Within
  <2>6. \A b \in crossed : b \in crossed'
    BY <2>2
  <2>7. TableInv'
    BY <1>1, <1>2, <2>1, <2>2, <2>3, <2>4, <2>5, <2>6, StaysTyped, TaskMoves DEF Inv
  <2> QED
    BY <1>1, <2>2, <2>7, RequestCovers
<1> QED
  BY <1>3, <1>4

\* Under the lock, the market still has no client, unless an initialize is met.
LEMMA AskedKeeps == ASSUME Inv, NEW r \in Requests, RequestConnects(r) PROVE Inv'
<1> DEFINE market == task[r].market
           c == [n |-> made.clients + 1, exchange |-> task[r].exchange, market |-> market]
<1>1. /\ task[r].pc = "asking" /\ Ends(r) /\ Connect(r, market, c)
      /\ UNCHANGED <<settings, exchangeId, isPaper, memory, booked, unread>>
      /\ r \in Tasks /\ r \notin Updates
  BY Distinct DEF RequestConnects, NewClient, engine, positions
<1>2. task[r].exchange \in Exchanges /\ market \in Markets
  <2>1. OfRequest(task[r])
    BY DEF Inv, TableInv, Typed
  <2> QED
    BY <1>1, <2>1, Distinct DEF OfRequest
<1>3. c \in Client /\ c.n = made.clients + 1
  BY <1>2, StaysTyped DEF Inv, Client
<1>4. r \in crossed \/ (Free(market) /\ c.market = market /\ c.exchange = exchangeId)
  BY <1>1 DEF Inv, TableInv, Relied, Certain, Free
<1> HIDE DEF c, market
<1>5. task' = [task EXCEPT ![r] = Idle] /\ crossed' = crossed \ {r}
  BY <1>1 DEF Ends
<1>6. /\ TableInv' /\ loops \subseteq loops'
      /\ \A l \in loops' : l \in loops \/ l.books = None
  BY <1>1, <1>2, <1>3, <1>4, <1>5, ConnectKeeps DEF Inv
<1> QED
  BY <1>1, <1>5, <1>6, RequestCovers

LEMMA GivesUpKeeps == ASSUME Inv, NEW r \in Requests, RequestFails(r) PROVE Inv'
<1>1. /\ task[r].pc = "asking" /\ Ends(r)
      /\ UNCHANGED <<settings, exchangeId, isPaper, client, open, watch, loops, memory, booked, made,
                     strays, unread>>
  BY DEF RequestFails, engine, clients, positions
<1>2. \A q \in Requests : q # r => task[q].pc # "asking"
  BY <1>1 DEF Inv, TableInv, Alone
<1> QED
  BY <1>1, <1>2, NothingAsked, RequestCovers DEF Inv
-----------------------------------------------------------------------------
(* The tasks that watch. *)

\* One that is replaced by itself with other orders leaves the tables so.
LEMMA Replaced ==
  ASSUME TableInv, NEW l \in loops,
         NEW k, k.n = l.n, k.market = l.market, k.cancelled = l.cancelled, k.stray = l.stray,
         loops' = (loops \ {l}) \cup {k},
         UNCHANGED <<settings, exchangeId, client, open, watch, lock, task, made, crossed, strays>>
  PROVE  TableInv' /\ (Restoring' <=> Restoring)
<1>1. Typed' /\ Alone' /\ (Torn' <=> Torn) /\ (Restoring' <=> Restoring)
  <2>1. Typed'
    BY DEF TableInv, Typed, OfUpdate, OfRequest
  <2> QED
    BY <2>1 DEF TableInv, Alone, Torn, Restoring
<1>2. Known' /\ Listed' /\ Stops'
  BY DEF TableInv, Known, Listed, Stops
<1>3. Right => Right'
  <2>1. \A m \in Markets : (\E j \in loops : j.market = m) => \E j \in loops' : j.market = m
    <3> SUFFICES ASSUME NEW j \in loops PROVE \E i \in loops' : i.market = j.market
      OBVIOUS
    <3>1. CASE j = l
      BY <3>1
    <3>2. CASE j # l
      BY <3>2
    <3> QED
      BY <3>1, <3>2
  <2> QED
    BY <2>1 DEF Right
<1>4. Relied'
  BY DEF TableInv, Relied, Sure, Certain, Free
<1> QED
  BY <1>1, <1>2, <1>3, <1>4 DEF TableInv

LEMMA LooksKeeps == ASSUME Inv, NEW l \in loops, LoopLooks(l) PROVE Inv'
<1> DEFINE k == [l EXCEPT !.on = client[l.market]]
<1>1. /\ k.n = l.n /\ k.market = l.market /\ k.cancelled = l.cancelled /\ k.books = l.books
      /\ k.stray = l.stray
  OBVIOUS
<1>2. /\ loops' = (loops \ {l}) \cup {k}
      /\ UNCHANGED <<settings, exchangeId, isPaper, client, open, watch, lock, memory, booked, task,
                     made, crossed, strays, unread>>
  BY DEF LoopLooks, Replace, engine, positions, meetings
<1> HIDE DEF k
<1>3. TableInv' /\ (Restoring' <=> Restoring)
  BY <1>1, <1>2, Replaced DEF Inv
<1>4. HeardInv' /\ CoverInv'
  BY <1>1, <1>2, <1>3 DEF Inv, HeardInv, CoverInv, Covered
<1> QED
  BY <1>3, <1>4 DEF Inv

\* The position leaves the memory for the hands of the task,
LEMMA HearsKeeps == ASSUME Inv, NEW l \in loops, LoopHears(l) PROVE Inv'
<1>1. PICK p \in memory : memory' = memory \ {p} /\ Replace(l, [l EXCEPT !.books = p])
  BY DEF LoopHears
<1> DEFINE k == [l EXCEPT !.books = p]
<1>2. /\ k.n = l.n /\ k.market = l.market /\ k.cancelled = l.cancelled /\ k.books = p
      /\ k.stray = l.stray
  OBVIOUS
<1>3. /\ l.books = None /\ loops' = (loops \ {l}) \cup {k}
      /\ UNCHANGED <<settings, exchangeId, isPaper, client, open, watch, lock, booked, task, made,
                     crossed, strays, unread>>
  BY <1>1 DEF LoopHears, Replace, engine, meetings
<1> HIDE DEF k
<1>5. TableInv' /\ (Restoring' <=> Restoring)
  BY <1>2, <1>3, Replaced DEF Inv
<1>7. HeardInv'
  BY <1>1, <1>2, <1>3 DEF Inv, HeardInv
<1>8. Covered => Covered'
  <2> SUFFICES ASSUME Covered, NEW q \in booked PROVE q \in memory' \cup {j.books : j \in loops'}
    BY <1>3 DEF Covered
  <2>1. q # None
    BY Distinct DEF Inv, HeardInv
  <2>2. CASE q = p
    BY <1>2, <1>3, <2>2
  <2>3. CASE q \in memory /\ q # p
    BY <1>1, <2>3
  <2>4. CASE \E j \in loops : q = j.books
    <3>1. PICK j \in loops : q = j.books
      BY <2>4
    <3>2. j \in loops'
      BY <1>3, <2>1, <3>1
    <3> QED
      BY <3>1, <3>2
  <2> QED
    BY <2>2, <2>3, <2>4 DEF Covered
<1> QED
  BY <1>3, <1>5, <1>7, <1>8 DEF Inv, CoverInv

\* and from there into the table of trades.
LEMMA BooksKeeps == ASSUME Inv, NEW l \in loops, LoopBooks(l) PROVE Inv'
<1> DEFINE k == [l EXCEPT !.books = None]
<1>2. /\ k.n = l.n /\ k.market = l.market /\ k.cancelled = l.cancelled /\ k.books = None
      /\ k.stray = l.stray
  OBVIOUS
<1>3. /\ booked' = booked \ {l.books} /\ loops' = (loops \ {l}) \cup {k}
      /\ UNCHANGED <<settings, exchangeId, isPaper, client, open, watch, lock, memory, task, made,
                     crossed, strays, unread>>
  BY DEF LoopBooks, Replace, engine, meetings
<1> HIDE DEF k
<1>5. TableInv' /\ (Restoring' <=> Restoring)
  BY <1>2, <1>3, Replaced DEF Inv
<1>7. HeardInv'
  BY <1>2, <1>3 DEF Inv, HeardInv
<1>8. Covered => Covered'
  <2> SUFFICES ASSUME Covered, NEW q \in booked' PROVE q \in memory \cup {j.books : j \in loops'}
    BY <1>3 DEF Covered
  <2>1. CASE \E j \in loops : q = j.books
    <3>1. PICK j \in loops : q = j.books
      BY <2>1
    <3>2. j \in loops'
      BY <1>3, <3>1
    <3> QED
      BY <3>1, <3>2
  <2> QED
    BY <1>3, <2>1 DEF Covered
<1> QED
  BY <1>3, <1>5, <1>7, <1>8 DEF Inv, CoverInv

\* Only an update that is waiting for it has cancelled a task.
LEMMA DiesKeeps == ASSUME Inv, NEW l \in loops, LoopDies(l) PROVE Inv'
<1>1. /\ loops' = loops \ {l} /\ l.cancelled
      /\ UNCHANGED <<settings, exchangeId, isPaper, client, open, watch, lock, memory, booked, task,
                     made, crossed, strays, unread>>
  BY DEF LoopDies, engine, positions, meetings
<1>2. PICK u \in Updates : task[u].pc = "stopping"
  BY <1>1 DEF Inv, TableInv, Stops
<1>3. Torn' /\ Restoring'
  BY <1>1, <1>2 DEF Torn, Restoring
<1>4. Typed' /\ Alone'
  <2>1. Typed'
    BY <1>1 DEF Inv, TableInv, Typed, OfUpdate, OfRequest
  <2> QED
    BY <1>1, <2>1 DEF Inv, TableInv, Alone
<1>5. Known' /\ Listed' /\ Stops'
  BY <1>1 DEF Inv, TableInv, Known, Listed, Stops
<1>6. Relied'
  BY <1>1 DEF Inv, TableInv, Relied, Sure, Certain, Free
<1>7. HeardInv' /\ CoverInv'
  BY <1>1, <1>3 DEF Inv, HeardInv, CoverInv
<1> QED
  BY <1>3, <1>4, <1>5, <1>6, <1>7 DEF Inv, TableInv

LEMMA Same == ASSUME Inv, UNCHANGED vars PROVE Inv'
<1>1. UNCHANGED <<settings, exchangeId, isPaper, client, open, watch, loops, lock, memory, booked, task,
                  made, crossed, strays, unread>>
  BY DEF vars, engine, clients, positions, meetings
<1>2. Typed' /\ Alone' /\ (Torn' <=> Torn) /\ (Restoring' <=> Restoring)
  <2>1. Typed'
    BY <1>1 DEF Inv, TableInv, Typed, OfUpdate, OfRequest
  <2> QED
    BY <1>1, <2>1 DEF Inv, TableInv, Alone, Torn, Restoring
<1>3. Known' /\ Listed' /\ Stops' /\ (Right => Right')
  BY <1>1 DEF Inv, TableInv, Known, Listed, Stops, Right
<1>4. Relied'
  BY <1>1 DEF Inv, TableInv, Relied, Sure, Certain, Free
<1>5. HeardInv' /\ CoverInv'
  BY <1>1, <1>2, StaysHeard DEF Inv, CoverInv
<1> QED
  BY <1>2, <1>3, <1>4, <1>5 DEF Inv, TableInv
-----------------------------------------------------------------------------
LEMMA Steps == ASSUME Inv, [Next]_vars PROVE Inv'
<1>1. ASSUME NEW u \in Updates, Update(u) PROVE Inv'
  BY <1>1, SetsKeeps, ToPaperKeeps, StopsKeeps, StoppedKeeps, ClosesKeeps, FailsKeeps, ConnectsKeeps,
     ClearsKeeps, RestoresKeeps, CannotReadKeeps, OtherKeeps, EndsKeeps DEF Update
<1>2. ASSUME NEW r \in Requests, Request(r) PROVE Inv'
  BY <1>2, MarketKeeps, LocksKeeps, AskedKeeps, GivesUpKeeps DEF Request
<1>3. ASSUME NEW l \in loops, Loop(l) PROVE Inv'
  BY <1>3, LooksKeeps, HearsKeeps, BooksKeeps, DiesKeeps DEF Loop
<1> QED
  BY <1>1, <1>2, <1>3, Same DEF Next

LEMMA Invariant == Spec => []Inv
<1>1. Inv /\ [Next]_vars => Inv'
  BY Steps
<1>2. Init => Inv
  BY AtTheStart
<1> QED
  BY <1>1, <1>2, PTL DEF Spec

\* However updates and requests meet, no client but a stray is left open behind the engine's back,
\* and none serves another market or exchange.
THEOREM NoneLeftOpen == Spec => []ClientsInUse
<1>1. Inv => ClientsInUse
  <2> SUFFICES ASSUME Inv, ~Torn PROVE ClientsInUse
    BY DEF ClientsInUse
  <2>1. open \ strays = Table \ strays
    BY DEF Inv, TableInv, Known, Table
  <2>2. \A m \in Markets : client[m] \in open \ strays =>
          client[m].market = m /\ client[m].exchange = exchangeId
    <3> SUFFICES ASSUME NEW m \in Markets, client[m] \in open \ strays, client[m] = None PROVE FALSE
      BY DEF Inv, TableInv, Right
    <3>1. \E n \in Markets : None = client[n] /\ None # None
      BY DEF Inv, TableInv, Known
    <3> QED
      BY <3>1
  <2> QED
    BY <2>1, <2>2 DEF ClientsInUse
<1> QED
  BY <1>1, Invariant, PTL

\* Each market whose client can watch is watched, and but for the strays by the one task that the
\* engine can stop.
THEOREM OneWatches == Spec => []WatchedOnce
<1>1. Inv => WatchedOnce
  <2> SUFFICES ASSUME Inv, ~Torn, NEW m \in Markets
               PROVE  /\ client[m] \in open \ strays /\ client[m].exchange \in Watchable =>
                           \E l \in loops : l.market = m
                      /\ \A l \in loops : l.market = m /\ ~l.stray => l.n = watch[m]
    BY DEF WatchedOnce
  <2>1. client[m] \in open \ strays => client[m] # None
    BY DEF Inv, TableInv, Known
  <2> QED
    BY <2>1 DEF Inv, TableInv, Right, Listed
<1> QED
  BY <1>1, Invariant, PTL

\* A fill whose task is cancelled half-way is read again from the database, if that can be read.
THEOREM AllRemembered == Spec => []NothingForgotten
<1>1. Inv => NothingForgotten
  BY DEF Inv, CoverInv, Covered, NothingForgotten
<1> QED
  BY <1>1, Invariant, PTL
=============================================================================
