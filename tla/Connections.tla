---------------------------- MODULE Connections ----------------------------
(***************************************************************************)
(* The clients of the exchange and the tasks that listen to its orders     *)
(* (src/execution/executor.py, src/web/settings_store.py).  The engine     *)
(* keeps one client per market, spot and futures; each has a task that     *)
(* watches the orders and books the stops the exchange has filled.  A      *)
(* change of the settings makes the running engine initialize itself       *)
(* again, with awaits at every step; a request that needs a market without *)
(* a client connects it, under a lock that initialize does not take: when  *)
(* the two meet, a client can be lost with its session open.  The model    *)
(* lets them meet, and keeps in crossed, strays and unread what can come   *)
(* of it, so that the properties say what holds beside that.               *)
(*                                                                         *)
(* Positions appear as what is in memory and what the database calls open: *)
(* how they are traded is the matter of RealPosition.                      *)
(***************************************************************************)
EXTENDS Integers, FiniteSets

CONSTANTS
  Exchanges,  \* settings.active_exchange may be any of them
  Markets,    \* spot and futures
  Positions,  \* real positions, open in the database from the beginning
  MarketOf,   \* the market of each
  Updates,    \* changes of the settings that may run at the same time
  Requests,   \* prices and orders that need a market's client
  None,       \* no client, no task, nobody
  Watchable,  \* exchanges whose clients can watch orders
  MaxClients, \* bound: clients ever connected
  MaxUpdates  \* bound: updates ever made

ASSUME ConnectionsAssumption ==
  /\ MarketOf \in [Positions -> Markets]
  /\ Updates \cap Requests = {}
  /\ None \notin Nat \cup Positions \cup Requests \cup [n : Nat, exchange : Exchanges, market : Markets]
  /\ MaxClients \in Nat /\ MaxUpdates \in Nat
  /\ Watchable \subseteq Exchanges

VARIABLES
  settings,   \* settings: active_exchange, market_type, trading_mode
  exchangeId, \* ExecutionEngine.exchange_id
  isPaper,    \* ExecutionEngine.is_paper
  client,     \* ExecutionEngine._exchanges
  open,       \* clients whose sessions are open
  watch,      \* ExecutionEngine._watch_tasks
  loops,      \* tasks that run _watch_orders_loop
  lock,       \* ExecutionEngine._connect_lock: who holds it
  memory,     \* ExecutionEngine.real_positions
  booked,     \* the positions that are open according to the database
  task,       \* where each update and request is
  made,       \* number of clients and of updates so far
  crossed,    \* tasks that connect while an initialize of another task runs
  strays,     \* open clients connected by those, or pushed out by them
  unread      \* the database failed when the positions were last restored

engine == <<exchangeId, isPaper>>
clients == <<client, open, watch, loops>>
positions == <<memory, booked>>
meetings == <<crossed, strays>>
vars == <<settings, engine, clients, lock, positions, task, made, meetings, unread>>

Idle == [pc |-> "idle"]
Goto(a, pc) == task' = [task EXCEPT ![a] = [@ EXCEPT !.pc = pc]]
Ends(a) == task' = [task EXCEPT ![a] = Idle] /\ crossed' = crossed \ {a}

\* The updates that are within initialize.
Inside == {u \in Updates : task[u].pc \notin {"idle", "commit"}}
Asking == {r \in Requests : task[r].pc = "asking"}
-----------------------------------------------------------------------------
(* Clients and watch tasks. *)

\* _connect_exchange
NewClient(exchange, market) ==
  [n |-> made.clients + 1, exchange |-> exchange, market |-> market]
MayConnect == made.clients < MaxClients
Made == made' = [made EXCEPT !.clients = @ + 1]

\* A task that has been cancelled runs until it ends.
Alive(n) == \E l \in loops : l.n = n

\* _start_watch_task: nothing to do for a client that cannot watch; a task that
\* still runs is left alone.
Watch(a, market, c) ==
  IF c.exchange \notin Watchable \/ Alive(watch[market]) THEN UNCHANGED <<watch, loops>>
  ELSE /\ watch' = [watch EXCEPT ![market] = c.n]
       /\ loops' = loops \cup {[n |-> c.n, market |-> market, on |-> c, books |-> None,
                                cancelled |-> FALSE, stray |-> a \in crossed]}

\* The client of a market, and its watch task.
Connect(a, market, c) ==
  /\ client' = [client EXCEPT ![market] = c]
  /\ open' = open \cup {c}
  /\ strays' = strays \cup (IF a \in crossed THEN {c, client[market]} \ {None} ELSE {})
  /\ Watch(a, market, c)
  /\ Made
-----------------------------------------------------------------------------
Init == LET first == [n |-> 1, exchange |-> exchangeId, market |-> settings.market]
        IN /\ settings \in [exchange : Exchanges, market : Markets, paper : {FALSE}]
           /\ exchangeId = settings.exchange
           /\ isPaper = FALSE
           /\ client = [m \in Markets |-> IF m = settings.market THEN first ELSE None]
           /\ open = {first}
           /\ IF exchangeId \in Watchable
              THEN /\ watch = [m \in Markets |-> IF m = settings.market THEN 1 ELSE None]
                   /\ loops = {[n |-> 1, market |-> settings.market, on |-> first, books |-> None,
                                cancelled |-> FALSE, stray |-> FALSE]}
              ELSE watch = [m \in Markets |-> None] /\ loops = {}
           /\ lock = None
           /\ memory = Positions /\ booked = Positions
           /\ task = [a \in Updates \cup Requests |-> Idle]
           /\ made = [clients |-> 1, updates |-> 0]
           /\ crossed = {} /\ strays = {} /\ unread = FALSE

(* apply_settings_update and initialize. *)

\* The settings change at once; the commit is awaited.
UpdateSets(u) ==
  /\ task[u] = Idle /\ made.updates < MaxUpdates
  /\ settings' \in [exchange : Exchanges, market : Markets, paper : BOOLEAN]
  /\ made' = [made EXCEPT !.updates = @ + 1]
  /\ task' = [task EXCEPT ![u] = [pc |-> "commit"]]
  /\ crossed' = crossed \cup Inside
  /\ UNCHANGED <<engine, clients, lock, positions, strays, unread>>

\* trading_mode = paper: the engine only changes its mind.
UpdateToPaper(u) ==
  /\ task[u].pc = "commit" /\ settings.paper
  /\ isPaper' = TRUE
  /\ Ends(u)
  /\ UNCHANGED <<settings, exchangeId, clients, lock, positions, made, strays, unread>>

Registered == {watch[m] : m \in Markets}

\* The initialize of u meets those of other tasks, and requests that connect.
Meets(u) == crossed' = crossed \cup Asking \cup (IF Inside = {} THEN {} ELSE Inside \cup {u})

\* Mutant: only the task of the current market is cancelled.
UpdateStopsOne(u) ==
  /\ task[u].pc = "commit" /\ ~settings.paper
  /\ isPaper' = FALSE
  /\ exchangeId' = settings.exchange
  /\ LET one == watch[settings.market]
     IN /\ loops' = {IF l.n = one THEN [l EXCEPT !.cancelled = TRUE] ELSE l : l \in loops}
        /\ task' = [task EXCEPT ![u] =
                      [pc |-> "stopping", of |-> {one}, exchange |-> settings.exchange]]
  /\ Meets(u)
  /\ UNCHANGED <<settings, client, open, watch, lock, positions, made, strays, unread>>

\* _stop_watch_tasks cancels every task it knows.
UpdateStops(u) ==
  /\ task[u].pc = "commit" /\ ~settings.paper
  /\ isPaper' = FALSE
  /\ exchangeId' = settings.exchange
  /\ loops' = {IF l.n \in Registered THEN [l EXCEPT !.cancelled = TRUE] ELSE l : l \in loops}
  /\ task' = [task EXCEPT ![u] =
                [pc |-> "stopping", of |-> Registered, exchange |-> settings.exchange]]
  /\ Meets(u)
  /\ UNCHANGED <<settings, client, open, watch, lock, positions, made, strays, unread>>

Table == {client[m] : m \in Markets} \ {None}

\* They have ended; the list of clients to close is taken.
UpdateStopped(u) ==
  /\ task[u].pc = "stopping"
  /\ \A l \in loops : l.n \notin task[u].of
  /\ watch' = [m \in Markets |-> None]
  /\ task' = [task EXCEPT ![u] = [pc |-> "closing", of |-> Table, exchange |-> @.exchange]]
  /\ UNCHANGED <<settings, engine, client, open, loops, lock, positions, made, meetings, unread>>

\* All of them are closed, one await after another, and the table is emptied.
UpdateCloses(u) ==
  /\ task[u].pc = "closing"
  /\ open' = open \ task[u].of
  /\ client' = [m \in Markets |-> None]
  /\ strays' = (strays \cup IF u \in crossed THEN Table ELSE {}) \ task[u].of
  /\ task' = [task EXCEPT ![u] =
                [pc |-> "connecting", market |-> settings.market, exchange |-> @.exchange]]
  /\ UNCHANGED <<settings, engine, watch, loops, lock, positions, made, crossed, unread>>

\* No credentials, no such exchange, or no connection.
UpdateFails(u) ==
  /\ task[u].pc = "connecting"
  /\ isPaper' = TRUE
  /\ Ends(u)
  /\ UNCHANGED <<settings, exchangeId, clients, lock, positions, made, strays, unread>>

\* The client goes to the market that the settings name by now.
UpdateConnects(u) ==
  /\ task[u].pc = "connecting" /\ MayConnect
  /\ Connect(u, settings.market, NewClient(task[u].exchange, task[u].market))
  /\ Goto(u, "restoring")
  /\ UNCHANGED <<settings, engine, lock, positions, crossed, unread>>

\* _restore_real_positions_from_db empties the memory, then reads.
UpdateClears(u) ==
  /\ task[u].pc = "restoring"
  /\ memory' = {}
  /\ Goto(u, "reading")
  /\ UNCHANGED <<settings, engine, clients, lock, booked, made, meetings, unread>>

OtherMarkets(restored) == {MarketOf[p] : p \in restored} \ {settings.market}

\* Then the other markets that the positions in memory are on.
Proceeds(u) ==
  task' = [task EXCEPT ![u] =
            [pc |-> "others", of |-> OtherMarkets(memory'), exchange |-> @.exchange]]

\* Mutant: only the positions of the current market are restored.
UpdateRestoresMarket(u) ==
  /\ task[u].pc = "reading"
  /\ memory' = {p \in booked : MarketOf[p] = settings.market}
  /\ unread' = FALSE
  /\ Proceeds(u)
  /\ UNCHANGED <<settings, engine, clients, lock, booked, made, meetings>>

UpdateRestores(u) ==
  /\ task[u].pc = "reading"
  /\ memory' = booked
  /\ unread' = FALSE
  /\ Proceeds(u)
  /\ UNCHANGED <<settings, engine, clients, lock, booked, made, meetings>>

\* The database cannot be read: the engine goes on with what is in memory.
UpdateCannotRead(u) ==
  /\ task[u].pc = "reading"
  /\ unread' = TRUE
  /\ UNCHANGED memory
  /\ Proceeds(u)
  /\ UNCHANGED <<settings, engine, clients, lock, booked, made, meetings>>

\* Another market fails on its own.
UpdateOther(u) ==
  /\ task[u].pc = "others"
  /\ \E market \in task[u].of :
       /\ task' = [task EXCEPT ![u].of = @ \ {market}]
       /\ \/ MayConnect /\ Connect(u, market, NewClient(task[u].exchange, market))
          \/ UNCHANGED <<clients, made, strays>>
  /\ UNCHANGED <<settings, engine, lock, positions, crossed, unread>>

\* Stops are armed again, leverage and balance are read.  An exception there
\* leaves the engine in paper, its clients connected.
UpdateEnds(u) ==
  /\ task[u].pc = "others" /\ task[u].of = {}
  /\ isPaper' \in {isPaper, TRUE}
  /\ Ends(u)
  /\ UNCHANGED <<settings, exchangeId, clients, lock, positions, made, strays, unread>>
-----------------------------------------------------------------------------
(* _ensure_exchange_connected, when the engine trades for real. *)

RequestMarket(r, market) ==
  /\ task[r] = Idle /\ ~isPaper /\ client[market] = None
  /\ task' = [task EXCEPT ![r] = [pc |-> "waiting", market |-> market]]
  /\ UNCHANGED <<settings, engine, clients, lock, positions, made, meetings, unread>>

\* It holds the lock, and connects to the exchange of now.
Asks(r) ==
  /\ lock' = r
  /\ crossed' = crossed \cup (IF Inside = {} THEN {} ELSE {r})
  /\ task' = [task EXCEPT ![r] = [pc |-> "asking", market |-> @.market, exchange |-> exchangeId]]

\* Mutant: nobody looks again after the lock has been taken.
RequestNeverLooks(r) ==
  /\ task[r].pc = "waiting" /\ lock = None
  /\ Asks(r)
  /\ UNCHANGED <<settings, engine, clients, positions, made, strays, unread>>

\* Under the lock it looks again.
RequestLocks(r) ==
  /\ task[r].pc = "waiting" /\ lock = None
  /\ IF client[task[r].market] # None THEN Ends(r) /\ UNCHANGED lock ELSE Asks(r)
  /\ UNCHANGED <<settings, engine, clients, positions, made, strays, unread>>

RequestConnects(r) ==
  /\ task[r].pc = "asking" /\ MayConnect
  /\ Connect(r, task[r].market, NewClient(task[r].exchange, task[r].market))
  /\ lock' = None
  /\ Ends(r)
  /\ UNCHANGED <<settings, engine, positions, unread>>

RequestFails(r) ==
  /\ task[r].pc = "asking"
  /\ lock' = None
  /\ Ends(r)
  /\ UNCHANGED <<settings, engine, clients, positions, made, strays, unread>>
-----------------------------------------------------------------------------
(* _watch_orders_loop. *)

Replace(l, changed) == loops' = (loops \ {l}) \cup {changed}

\* watch_orders has returned or failed: the client of the market is looked up
\* again, None while there is none.
LoopLooks(l) ==
  /\ ~l.cancelled /\ l.books = None /\ l.on # client[l.market]
  /\ Replace(l, [l EXCEPT !.on = client[l.market]])
  /\ UNCHANGED <<settings, engine, client, open, watch, lock, positions, task, made, meetings, unread>>

\* A stop has been filled: _on_order_fill takes the position out of memory
\* before its trade is recorded.
LoopHears(l) ==
  /\ ~l.cancelled /\ l.books = None /\ l.on \in open /\ l.on.exchange \in Watchable
  /\ \E p \in memory :
       /\ MarketOf[p] = l.market
       /\ memory' = memory \ {p}
       /\ Replace(l, [l EXCEPT !.books = p])
  /\ UNCHANGED <<settings, engine, client, open, watch, lock, booked, task, made, meetings, unread>>

LoopBooks(l) ==
  /\ ~l.cancelled /\ l.books # None
  /\ booked' = booked \ {l.books}
  /\ Replace(l, [l EXCEPT !.books = None])
  /\ UNCHANGED <<settings, engine, client, open, watch, lock, memory, task, made, meetings, unread>>

\* The cancelled task ends where it was, the trade unrecorded.
LoopDies(l) ==
  /\ l.cancelled
  /\ loops' = loops \ {l}
  /\ UNCHANGED <<settings, engine, client, open, watch, lock, positions, task, made, meetings, unread>>
-----------------------------------------------------------------------------
Update(u) == UpdateSets(u) \/ UpdateToPaper(u) \/ UpdateStops(u) \/ UpdateStopped(u)
             \/ UpdateCloses(u) \/ UpdateFails(u) \/ UpdateConnects(u) \/ UpdateClears(u)
             \/ UpdateRestores(u) \/ UpdateCannotRead(u) \/ UpdateOther(u) \/ UpdateEnds(u)
Request(r) == \/ \E market \in Markets : RequestMarket(r, market)
              \/ RequestLocks(r) \/ RequestConnects(r) \/ RequestFails(r)
Loop(l) == LoopLooks(l) \/ LoopHears(l) \/ LoopBooks(l) \/ LoopDies(l)

Next == \/ \E u \in Updates : Update(u)
        \/ \E r \in Requests : Request(r)
        \/ \E l \in loops : Loop(l)

Spec == Init /\ [][Next]_vars
-----------------------------------------------------------------------------
TypeOK ==
  /\ settings \in [exchange : Exchanges, market : Markets, paper : BOOLEAN]
  /\ exchangeId \in Exchanges /\ isPaper \in BOOLEAN
  /\ Table \subseteq open /\ strays \subseteq open
  /\ \A l \in loops : l.market \in Markets /\ l.books \in Positions \cup {None}
  /\ memory \subseteq Positions /\ booked \subseteq Positions
  /\ lock \in Requests \cup {None}
  /\ \A a \in crossed : task[a] # Idle

\* An update is closing what there was.
Torn == \E u \in Updates : task[u].pc \in {"stopping", "closing"}

(* But for the strays, the open clients are those the engine knows, each   *)
(* under its own market and all of the exchange the settings chose: none   *)
(* is left open behind its back, none serves another exchange.  Requests   *)
(* that connect one after another or at the same time, and an initialize   *)
(* that nobody meets, make no strays.                                      *)
(* (executor.py:309-333, 549, 558)                                         *)
ClientsInUse ==
  ~Torn => /\ open \ strays = Table \ strays
           /\ \A m \in Markets : client[m] \in open \ strays =>
                client[m].market = m /\ client[m].exchange = exchangeId

(* Each market whose client can watch is watched by one task, and that one *)
(* can be stopped: but for the tasks of those who met an initialize, every *)
(* task is the one the engine has registered.                              *)
(* (executor.py:594-599, 605, 615)                                         *)
WatchedOnce ==
  ~Torn => \A m \in Markets :
    /\ client[m] \in open \ strays /\ client[m].exchange \in Watchable =>
         \E l \in loops : l.market = m
    /\ \A l \in loops : l.market = m /\ ~l.stray => l.n = watch[m]

\* An update has still to restore the positions.
Restoring == \E u \in Updates :
  task[u].pc \in {"stopping", "closing", "connecting", "restoring", "reading"}

(* A watch task that is cancelled between taking a position out of memory  *)
(* and recording its trade loses nothing: a real engine that has read its  *)
(* positions from the database knows all that the database calls open, but *)
(* for those being recorded.  It may know more: a fill that is heard while *)
(* they are restored comes back to memory.                                 *)
(* (executor.py:367, 607, 1002-1006)                                       *)
NothingForgotten ==
  ~Restoring /\ ~isPaper /\ ~unread => booked \subseteq memory \cup {l.books : l \in loops}
=============================================================================
