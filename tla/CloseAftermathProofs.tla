------------------------- MODULE CloseAftermathProofs ------------------------
(***************************************************************************)
(* Theorems about CloseAftermath, for any positions, sources, results and  *)
(* settings, any failures, resets and restarts, without a hypothesis: a    *)
(* lock that was read before the awaits of an entry is still the truth     *)
(* when the position opens; a source that the sizing has shut stays shut;  *)
(* and a channel's record is what a restart would restore, unless one of   *)
(* the recorded steps has led it astray.                                   *)
(***************************************************************************)
EXTENDS CloseAftermath, FiniteSetTheorems, WellFoundedInduction, TLAPS

\* A task that is about to write to the journal or to lock a scope.
Protects == {"event", "cooldown", "guard", "streak"}

Shape == task = [a \in Tasks |-> task[a]]

\* The loop is entering for a strategy, and the scopes of that strategy are free.
LoopInv == task["loop"].pc \in {"sizing", "ordering"} =>
             /\ SourceOf[task["loop"].pos] \notin Channels \cup locks
             /\ "global" \notin locks

\* Of the others, only the report of a channel locks, its own channel and nothing else.
ReportInv == /\ task["report"].pc # "guard"
             /\ task["report"].pc \in Protects =>
                  SourceOf[task["report"].pos] \in Channels /\ task["report"].stop = FALSE
OthersInv == /\ \A a \in {"dashboard", "exchange", "handler"} : task[a].pc \notin Protects
             /\ task["dashboard"].pc # "link"

LockInv == Shape /\ LoopInv /\ ReportInv /\ OthersInv

\* What a task does next.
LEMMA Proceeds ==
  ASSUME Shape, NEW a \in Tasks, NEW pc, Proceed(a, pc)
  PROVE  /\ Shape' /\ \A b \in Tasks : b # a => task'[b] = task[b]
         /\ task'[a].pc = pc
         /\ pc = "idle" => task'[a] = Idle
         /\ pc # "idle" => task'[a].pos = task[a].pos /\ task'[a].stop = task[a].stop
<1>1. CASE pc = "idle"
  <2>1. task' = [task EXCEPT ![a] = Idle]
    BY <1>1 DEF Proceed
  <2> QED
    BY <1>1, <2>1 DEF Shape, Idle
<1>2. CASE pc # "idle"
  <2> DEFINE t == [task[a] EXCEPT !.pc = pc]
  <2>1. task' = [task EXCEPT ![a] = t]
    BY <1>2 DEF Proceed
  <2>2. t.pc = pc /\ t.pos = task[a].pos /\ t.stop = task[a].stop
    OBVIOUS
  <2> HIDE DEF t
  <2> QED
    BY <1>2, <2>1, <2>2 DEF Shape
<1> QED
  BY <1>1, <1>2

\* One task moves: what is left to show of it.
LEMMA LoopMoves ==
  ASSUME LockInv, Shape', \A b \in Tasks : b # "loop" => task'[b] = task[b], LoopInv'
  PROVE  LockInv'
BY DEF LockInv, ReportInv, OthersInv, Tasks, Closers

LEMMA OtherMoves ==
  ASSUME LockInv, NEW a \in {"dashboard", "exchange", "handler"}, Shape', locks' = locks,
         \A b \in Tasks : b # a => task'[b] = task[b], task'[a].pc \notin Protects,
         a = "dashboard" => task'[a].pc # "link"
  PROVE  LockInv'
BY DEF LockInv, LoopInv, ReportInv, OthersInv, Tasks, Closers

LEMMA ReportMoves ==
  ASSUME LockInv, Shape', \A b \in Tasks : b # "report" => task'[b] = task[b],
         locks' \subseteq locks \cup Channels, ReportInv'
  PROVE  LockInv'
<1>1. LoopInv'
  BY AftermathAssumption DEF LockInv, LoopInv, Tasks, Closers
<1> QED
  BY <1>1 DEF LockInv, OthersInv, Tasks, Closers

\* A task takes a new record; what the others are doing stays.
LEMMA Becomes ==
  ASSUME Shape, NEW a \in Tasks, NEW t, task' = [task EXCEPT ![a] = t]
  PROVE  Shape' /\ task'[a] = t /\ \A b \in Tasks : b # a => task'[b] = task[b]
BY DEF Shape

LEMMA AtTheStart == Init => LockInv
BY DEF Init, LockInv, Shape, LoopInv, ReportInv, OthersInv, Idle, Tasks, Closers, Protects

\* Entries: the loop asks for the locks first, and nobody writes one it would miss.
LEMMA EntriesKeep ==
  ASSUME LockInv, NEW p \in Positions, LoopAsks(p) \/ HandlerSizes(p) PROVE LockInv'
<1>1. CASE LoopAsks(p)
  <2> DEFINE t == [pc |-> "sizing", pos |-> p]
  <2>1. t.pc = "sizing" /\ t.pos = p
    OBVIOUS
  <2>2. task' = [task EXCEPT !["loop"] = t] /\ locks' = locks
    BY <1>1 DEF LoopAsks, tables
  <2> HIDE DEF t
  <2>3. Shape' /\ task'["loop"] = t /\ \A b \in Tasks : b # "loop" => task'[b] = task[b]
    BY <2>2, Becomes DEF LockInv, Tasks, Closers
  <2>4. SourceOf[p] \notin Channels \cup locks /\ "global" \notin locks
    BY <1>1 DEF LoopAsks, Locked
  <2>5. LoopInv'
    BY <2>1, <2>2, <2>3, <2>4 DEF LoopInv
  <2> QED
    BY <2>3, <2>5, LoopMoves
<1>2. CASE HandlerSizes(p)
  <2> DEFINE t == [pc |-> "ordering", pos |-> p]
  <2>1. t.pc = "ordering"
    OBVIOUS
  <2>2. task' = [task EXCEPT !["handler"] = t] /\ locks' = locks
    BY <1>2 DEF HandlerSizes, tables
  <2> HIDE DEF t
  <2> QED
    BY ZenonT(40), <2>1, <2>2, Becomes, OtherMoves DEF LockInv, Tasks, Closers, Protects
<1> QED
  BY <1>1, <1>2

\* A task that comes to rest.
LEMMA RestKeeps ==
  ASSUME LockInv, NEW a \in Tasks, task' = [task EXCEPT ![a] = Idle], locks' = locks
  PROVE  LockInv'
<1>1. Shape' /\ task'[a] = Idle /\ \A b \in Tasks : b # a => task'[b] = task[b]
  BY Becomes DEF LockInv
<1>2. Idle.pc = "idle"
  BY DEF Idle
<1>3. CASE a = "loop"
  BY <1>1, <1>2, <1>3, LoopMoves DEF LoopInv
<1>4. CASE a = "report"
  BY <1>1, <1>2, <1>4, ReportMoves DEF ReportInv, Protects
<1>5. CASE a \in {"dashboard", "exchange", "handler"}
  BY <1>1, <1>2, <1>5, OtherMoves DEF Protects
<1> QED
  BY <1>3, <1>4, <1>5 DEF Tasks, Closers

LEMMA SizingKeeps == ASSUME LockInv, LoopSizes PROVE LockInv'
<1>1. task["loop"].pc = "sizing" /\ locks' = locks
  BY DEF LoopSizes, tables
<1>2. CASE Excluded(SourceOf[task["loop"].pos])
  <2>1. task' = [task EXCEPT !["loop"] = Idle]
    BY <1>2 DEF LoopSizes, LockInv, Shape, Tasks, Closers
  <2> QED
    BY <1>1, <2>1, RestKeeps DEF Tasks, Closers
<1>3. CASE ~Excluded(SourceOf[task["loop"].pos])
  <2>1. Proceed("loop", "ordering")
    BY <1>3 DEF LoopSizes, Proceed, LockInv, Shape, Tasks, Closers
  <2>2. Shape' /\ \A b \in Tasks : b # "loop" => task'[b] = task[b]
    BY <2>1, Proceeds DEF LockInv, Tasks, Closers
  <2>3. task'["loop"].pos = task["loop"].pos
    BY <2>1, Proceeds DEF LockInv, Tasks, Closers
  <2>4. LoopInv'
    BY <1>1, <2>3 DEF LockInv, LoopInv
  <2> QED
    BY <2>2, <2>4, LoopMoves
<1> QED
  BY <1>2, <1>3

LEMMA OrdersKeep ==
  ASSUME LockInv, NEW a \in Tasks, Opens(a) \/ Refused(a) PROVE LockInv'
BY RestKeeps DEF Opens, Refused, tables

\* A closer books a part, which is not yet an entry nor a lock.
LEMMA ClosesKeep ==
  ASSUME LockInv, NEW p \in Positions, Close(p) PROVE LockInv'
<1>1. ASSUME NEW a \in Closers, NEW pnl, NEW last, NEW stop, NEW pc, Book(a, p, pnl, last, stop, pc),
             pc \in {"event", "flush", "link"},
             a \in {"dashboard", "exchange"} => pc # "event", a = "dashboard" => pc # "link",
             a = "report" => SourceOf[p] \in Channels /\ stop = FALSE
      PROVE  LockInv'
  <2> DEFINE t == [pc |-> pc, pos |-> p, stop |-> stop, pnl |-> pnl]
  <2>1. t.pc = pc /\ t.pos = p /\ t.stop = stop
    OBVIOUS
  <2>2. task' = [task EXCEPT ![a] = t] /\ locks' = locks
    BY <1>1 DEF Book
  <2> HIDE DEF t
  <2>3. Shape' /\ task'[a] = t /\ \A b \in Tasks : b # a => task'[b] = task[b]
    BY <1>1, <2>2, Becomes DEF LockInv, Tasks
  <2>4. CASE a = "loop"
    BY <1>1, <2>1, <2>3, <2>4, LoopMoves DEF LoopInv
  <2>5. CASE a = "report"
    BY <1>1, <2>1, <2>2, <2>3, <2>5, ReportMoves DEF ReportInv
  <2>6. CASE a \in {"dashboard", "exchange"}
    BY <1>1, <2>1, <2>2, <2>3, <2>6, OtherMoves DEF Protects
  <2> QED
    BY <1>1, <2>4, <2>5, <2>6 DEF Closers
<1>2. CASE LoopTakesPart(p)
  BY <1>1, <1>2 DEF LoopTakesPart, Closers
<1>3. CASE LoopCloses(p)
  BY <1>1, <1>3 DEF LoopCloses, Closers
<1>4. CASE ReportCloses(p)
  BY <1>1, <1>4 DEF ReportCloses, Closers
<1>5. CASE DashboardCloses(p)
  BY <1>1, <1>5 DEF DashboardCloses, Closers
<1>6. CASE ExchangeCloses(p)
  BY <1>1, <1>6 DEF ExchangeCloses, Closers
<1> QED
  BY <1>2, <1>3, <1>4, <1>5, <1>6 DEF Close

\* The link, the decision log and the dashboard's own tally leave the locks alone.
LEMMA ProceedKeeps ==
  ASSUME LockInv, NEW a \in Closers, NEW pc \in {"idle", "flush", "tally"}, Proceed(a, pc),
         locks' = locks
  PROVE  LockInv'
<1>1. /\ Shape' /\ \A b \in Tasks : b # a => task'[b] = task[b]
      /\ task'[a].pc = pc
  BY Proceeds DEF LockInv, Tasks
<1>2. CASE a = "loop"
  BY <1>1, <1>2, LoopMoves DEF LoopInv
<1>3. CASE a = "report"
  BY <1>1, <1>3, ReportMoves DEF ReportInv, Protects
<1>4. CASE a \in {"dashboard", "exchange"}
  BY <1>1, <1>4, OtherMoves DEF Protects
<1> QED
  BY <1>2, <1>3, <1>4 DEF Closers

\* Writing to the journal and locking: the loop, which is not entering then, and
\* the report, which locks its own channel only.
LEMMA LocksKeep ==
  ASSUME LockInv, NEW a \in Closers, OnClose(a) PROVE LockInv'
<1> SUFFICES ASSUME task[a].pc # "tally" PROVE LockInv'
  <2>1. CASE task[a].pc = "tally"
    <3>1. Proceed(a, "idle") /\ locks' = locks
      BY <2>1 DEF OnClose, WritesEvent, Cooldown, Guard, Streak, CommitFails, tables
    <3> QED
      BY <3>1, ProceedKeeps
  <2> QED
    BY <2>1
<1>1. a \in {"loop", "report"} /\ task[a].pc \in Protects
  BY DEF OnClose, WritesEvent, Cooldown, Guard, Streak, CommitFails, LockInv, OthersInv, Closers,
         Protects
<1>2. \E pc \in {"idle", "cooldown", "guard", "streak", "link"} :
        /\ Proceed(a, pc)
        /\ pc = "guard" => task[a].stop
  <2>1. AfterGuard(a) \in {"streak", "link"}
    BY DEF AfterGuard
  <2> QED
    BY <2>1 DEF OnClose, WritesEvent, Cooldown, Guard, Streak, CommitFails
<1>3. task[a].pc # "guard" => locks' \subseteq locks \cup {Source(a)}
  BY DEF OnClose, WritesEvent, Cooldown, Guard, Streak, CommitFails, Lock, tables
<1>4. PICK pc \in {"idle", "cooldown", "guard", "streak", "link"} :
        Proceed(a, pc) /\ (pc = "guard" => task[a].stop)
  BY <1>2
<1>5. /\ Shape' /\ \A b \in Tasks : b # a => task'[b] = task[b]
      /\ task'[a].pc = pc
      /\ pc # "idle" => task'[a].pos = task[a].pos /\ task'[a].stop = task[a].stop
  BY <1>4, Proceeds DEF LockInv, Tasks
<1>6. CASE a = "loop"
  BY <1>5, <1>6, LoopMoves DEF LoopInv
<1>7. CASE a = "report"
  <2>1. SourceOf[task[a].pos] \in Channels /\ task[a].stop = FALSE /\ task[a].pc # "guard"
    BY <1>1, <1>7 DEF LockInv, ReportInv
  <2>2. ReportInv'
    BY <1>4, <1>5, <1>7, <2>1 DEF ReportInv, Protects
  <2>3. locks' \subseteq locks \cup Channels
    BY <1>3, <2>1 DEF Source
  <2> QED
    BY <1>5, <1>7, <2>2, <2>3, ReportMoves
<1> QED
  BY <1>1, <1>6, <1>7

LEMMA LinkKeeps ==
  ASSUME LockInv, NEW a \in Closers, Link(a) \/ LinkFails(a) \/ Flush(a) PROVE LockInv'
BY ProceedKeeps DEF Link, LinkFails, Flush, AfterLink, tables

LEMMA TallyKeeps == ASSUME LockInv, DashboardTallies PROVE LockInv'
BY ProceedKeeps DEF DashboardTallies, Closers

\* Locks run out or are cleared, and a restart leaves no task.
LEMMA ExpiryKeeps == ASSUME LockInv, Expires PROVE LockInv'
<1>1. locks' \subseteq locks /\ task' = task
  BY DEF Expires, memory
<1> QED
  BY <1>1 DEF LockInv, Shape, LoopInv, ReportInv, OthersInv

LEMMA WipeKeeps == ASSUME LockInv, Resets \/ Clears PROVE LockInv'
<1>1. locks' \subseteq locks /\ task' = task
  BY DEF Resets, Clears, Wipes, memory
<1> QED
  BY <1>1 DEF LockInv, Shape, LoopInv, ReportInv, OthersInv

LEMMA RestartKeeps == ASSUME Restart PROVE LockInv'
<1>1. task' = [a \in Tasks |-> Idle] /\ Idle.pc = "idle"
  BY DEF Restart, Idle
<1>2. \A a \in Tasks : task'[a].pc = "idle"
  BY <1>1
<1> QED
  BY <1>1, <1>2 DEF LockInv, Shape, LoopInv, ReportInv, OthersInv, Tasks, Closers, Protects

LEMMA Same == ASSUME LockInv, UNCHANGED <<task, locks>> PROVE LockInv'
BY DEF LockInv, Shape, LoopInv, ReportInv, OthersInv

LEMMA Steps == ASSUME LockInv, [Next]_vars PROVE LockInv'
<1>1. CASE Restore
  BY <1>1, Same DEF Restore, RestoreReads, RestoreFails, RestoreApplies, tables
<1>2. CASE Restart \/ Expires \/ Resets \/ Clears
  BY <1>2, RestartKeeps, ExpiryKeeps, WipeKeeps
<1>3. ASSUME NEW p \in Positions, Enter(p) PROVE LockInv'
  BY <1>3, EntriesKeep, Same DEF Enter, RowSaved, memory
<1>4. ASSUME NEW p \in Positions, Close(p) PROVE LockInv'
  BY <1>4, ClosesKeep
<1>5. CASE LoopSizes
  BY <1>5, SizingKeeps
<1>6. ASSUME NEW a \in Tasks, Opens(a) \/ Refused(a) PROVE LockInv'
  BY <1>6, OrdersKeep
<1>7. ASSUME NEW a \in Closers, OnClose(a) \/ Link(a) \/ LinkFails(a) \/ Flush(a) PROVE LockInv'
  BY <1>7, LocksKeep, LinkKeeps
<1>8. CASE DashboardTallies
  BY <1>8, TallyKeeps
<1>9. CASE UNCHANGED vars
  BY <1>9, Same DEF vars, memory, tables
<1> QED
  BY <1>1, <1>2, <1>3, <1>4, <1>5, <1>6, <1>7, <1>8, <1>9 DEF Next

(* The position that the loop opens for a strategy is under no lock, although *)
(* others close positions and lock scopes between the question and the order. *)
THEOREM LocksHold == Spec => LockedEntersNot
<1>1. ASSUME LockInv
      PROVE  Opens("loop") => ~Locked({"global", SourceOf[task["loop"].pos]})
  BY <1>1 DEF Opens, Locked, LockInv, LoopInv
<1>2. LockInv /\ [Next]_vars
      => [Opens("loop") => ~Locked({"global", SourceOf[task["loop"].pos]})]_vars
  BY <1>1
<1> QED
  BY <1>2, AtTheStart, Steps, PTL DEF Spec, LockedEntersNot
-----------------------------------------------------------------------------
(* Induction over the natural numbers, for sets of them. *)

LEMMA LeastOf == ASSUME NEW T \in SUBSET Nat, T # {} PROVE \E x \in T : \A y \in T : x <= y
<1>1. IsWellFoundedOn(OpToRel(<, Nat), Nat)
  BY NatLessThanWellFounded
<1>2. PICK x \in T : \A y \in T : ~ (<<y, x>> \in OpToRel(<, Nat))
  BY <1>1, WFMin
<1>3. \A y \in T : ~(y < x)
  BY <1>2 DEF OpToRel
<1> QED
  BY <1>3

LEMMA Inductive ==
  ASSUME NEW S, 0 \in S, \A n \in Nat : n \in S => n + 1 \in S PROVE Nat \subseteq S
<1> DEFINE T == Nat \ S
<1> SUFFICES ASSUME T # {} PROVE FALSE
  OBVIOUS
<1>1. PICK x \in T : \A y \in T : x <= y
  BY LeastOf
<1>2. x # 0 /\ x - 1 \in Nat /\ x - 1 \notin T
  BY <1>1
<1> QED
  BY <1>1, <1>2
-----------------------------------------------------------------------------
(* Sources that are shut. *)

\* Tasks are about positions, and those that have begun to trade are finitely many.
PosInv == /\ Shape
          /\ \A a \in Tasks : task[a] # Idle => task[a].pos \in Positions
          /\ life = [p \in Positions |-> life[p]] /\ row = [p \in Positions |-> row[p]]
          /\ trades = [p \in Positions |-> trades[p]]
          /\ IsFiniteSet({p \in Positions : life[p] # "new"})

LEMMA PosAtTheStart == Init => PosInv
<1> SUFFICES ASSUME Init PROVE PosInv
  OBVIOUS
<1>1. {p \in Positions : life[p] # "new"} = {}
  BY DEF Init
<1> QED
  BY <1>1, FS_EmptySet DEF Init, PosInv, Shape

LEMMA PosKept ==
  ASSUME PosInv, Shape', \A a \in Tasks : task'[a] # Idle => task'[a].pos \in Positions,
         NEW q \in Positions, life' = life \/ \E v : life' = [life EXCEPT ![q] = v],
         row' = row \/ \E v : row' = [row EXCEPT ![q] = v],
         trades' = trades \/ \E v : trades' = [trades EXCEPT ![q] = v]
  PROVE  PosInv'
<1> DEFINE old == {p \in Positions : life[p] # "new"}
           new == {p \in Positions : life'[p] # "new"}
<1>1. life' = [p \in Positions |-> life'[p]] /\ row' = [p \in Positions |-> row'[p]]
  BY DEF PosInv
<1>2. trades' = [p \in Positions |-> trades'[p]]
  BY DEF PosInv
<1>3. new \in SUBSET (old \cup {q})
  BY DEF PosInv
<1>4. IsFiniteSet(old \cup {q})
  BY FS_AddElement DEF PosInv
<1>5. IsFiniteSet(new)
  BY <1>3, <1>4, FS_Subset
<1> QED
  BY <1>1, <1>2, <1>5 DEF PosInv

LEMMA PosSame == ASSUME PosInv, UNCHANGED <<task, life, row, trades>> PROVE PosInv'
BY DEF PosInv, Shape

\* A task takes a record that is about a position, or comes to rest.
LEMMA PosBecomes ==
  ASSUME PosInv, NEW a \in Tasks, NEW t, t = Idle \/ t.pos \in Positions,
         task' = [task EXCEPT ![a] = t]
  PROVE  Shape' /\ \A b \in Tasks : task'[b] # Idle => task'[b].pos \in Positions
<1>1. Shape' /\ task'[a] = t /\ \A b \in Tasks : b # a => task'[b] = task[b]
  BY Becomes DEF PosInv
<1> QED
  BY <1>1 DEF PosInv

\* A task that is about a position goes on.
LEMMA PosProceeds ==
  ASSUME PosInv, NEW a \in Tasks, NEW pc, Proceed(a, pc), task[a] # Idle
  PROVE  Shape' /\ \A b \in Tasks : task'[b] # Idle => task'[b].pos \in Positions
BY Proceeds DEF PosInv

LEMMA PosSteps == ASSUME PosInv, [Next]_vars PROVE PosInv'
<1> USE DEF tables, memory
<1>1. CASE Restore \/ Expires
  BY <1>1, PosSame DEF Restore, RestoreReads, RestoreFails, RestoreApplies, Expires
<1>2. CASE Restart \/ Resets \/ Clears
  <2>1. {p \in Positions : life'[p] # "new"} = {p \in Positions : life[p] # "new"}
    BY <1>2 DEF Restart, Resets, Clears, Wipes
  <2> QED
    BY <1>2, <2>1 DEF Restart, Resets, Clears, Wipes, PosInv, Shape
<1>3. ASSUME NEW p \in Positions, Enter(p) PROVE PosInv'
  <2>1. CASE LoopAsks(p)
    <3>1. Shape' /\ \A b \in Tasks : task'[b] # Idle => task'[b].pos \in Positions
      BY <2>1, PosBecomes DEF LoopAsks, Tasks, Closers
    <3> QED
      BY <2>1, <3>1, PosKept DEF LoopAsks
  <2>2. CASE HandlerSizes(p)
    <3>1. Shape' /\ \A b \in Tasks : task'[b] # Idle => task'[b].pos \in Positions
      BY <2>2, PosBecomes DEF HandlerSizes, Tasks, Closers
    <3> QED
      BY <2>2, <3>1, PosKept DEF HandlerSizes
  <2>3. CASE RowSaved(p)
    BY <2>3, PosKept DEF RowSaved, PosInv, Shape
  <2> QED
    BY <1>3, <2>1, <2>2, <2>3 DEF Enter
<1>4. ASSUME NEW p \in Positions, Close(p) PROVE PosInv'
  <2>1. ASSUME NEW a \in Closers, NEW pnl, NEW last, NEW stop, NEW pc,
               Book(a, p, pnl, last, stop, pc)
        PROVE  PosInv'
    <3> DEFINE t == [pc |-> pc, pos |-> p, stop |-> stop, pnl |-> pnl]
    <3>1. task' = [task EXCEPT ![a] = t] /\ t.pos = p
      BY <2>1 DEF Book
    <3>2. Shape' /\ \A b \in Tasks : task'[b] # Idle => task'[b].pos \in Positions
      BY <3>1, PosBecomes DEF Tasks
    <3>3. /\ row' = row
          /\ life' = [life EXCEPT ![p] = IF last THEN "closed" ELSE "open"]
          /\ trades' = [trades EXCEPT ![p] = Append(trades[p], pnl)]
      BY <2>1 DEF Book, PosInv
    <3> QED
      BY <3>2, <3>3, PosKept
  <2> QED
    BY <1>4, <2>1 DEF Close, LoopTakesPart, LoopCloses, ReportCloses, DashboardCloses,
                      ExchangeCloses, Closers
<1>5. CASE LoopSizes
  <2>1. "loop" \in Tasks /\ task["loop"] # Idle
    BY <1>5 DEF LoopSizes, Tasks, Closers, Idle
  <2>2. CASE Excluded(SourceOf[task["loop"].pos])
    <3>1. task' = [task EXCEPT !["loop"] = Idle]
      BY <1>5, <2>1, <2>2 DEF LoopSizes, PosInv, Shape
    <3>2. Shape' /\ \A b \in Tasks : task'[b] # Idle => task'[b].pos \in Positions
      BY <2>1, <3>1, PosBecomes
    <3> QED
      BY <1>5, <2>1, <3>2, PosKept DEF LoopSizes, PosInv
  <2>3. CASE ~Excluded(SourceOf[task["loop"].pos])
    <3>1. Proceed("loop", "ordering")
      BY <1>5, <2>1, <2>3 DEF LoopSizes, Proceed, PosInv, Shape
    <3>2. Shape' /\ \A b \in Tasks : task'[b] # Idle => task'[b].pos \in Positions
      BY <2>1, <3>1, PosProceeds
    <3> QED
      BY <1>5, <2>1, <3>2, PosKept DEF LoopSizes, PosInv
  <2> QED
    BY <2>2, <2>3
<1>6. ASSUME NEW a \in Tasks, Opens(a) \/ Refused(a) PROVE PosInv'
  <2>1. task[a].pos \in Positions
    BY <1>6 DEF Opens, Refused, PosInv, Idle
  <2>2. Shape' /\ \A b \in Tasks : task'[b] # Idle => task'[b].pos \in Positions
    BY <1>6, PosBecomes DEF Opens, Refused
  <2> QED
    BY <1>6, <2>1, <2>2, PosKept DEF Opens, Refused
<1>7. ASSUME NEW a \in Closers, OnClose(a) \/ Link(a) \/ LinkFails(a) \/ Flush(a) PROVE PosInv'
  <2>1. a \in Tasks /\ task[a] # Idle
    BY <1>7 DEF OnClose, WritesEvent, Cooldown, Guard, Streak, CommitFails, Link, LinkFails, Flush, Tasks, Idle
  <2>2. task[a].pos \in Positions
    BY <2>1 DEF PosInv
  <2>3. Shape' /\ \A b \in Tasks : task'[b] # Idle => task'[b].pos \in Positions
    BY <1>7, <2>1, PosProceeds
    DEF OnClose, WritesEvent, Cooldown, Guard, Streak, CommitFails, Link, LinkFails, Flush
  <2>4. /\ life' = life /\ trades' = trades
        /\ row' = row \/ row' = [row EXCEPT ![task[a].pos] = "linked"]
    BY <1>7 DEF OnClose, WritesEvent, Cooldown, Guard, Streak, CommitFails, Link, LinkFails, Flush
  <2> QED
    BY <2>2, <2>3, <2>4, PosKept
<1>8. CASE DashboardTallies
  <2>1. "dashboard" \in Tasks /\ task["dashboard"] # Idle
    BY <1>8 DEF DashboardTallies, Tasks, Closers, Idle
  <2>2. task["dashboard"].pos \in Positions
    BY <2>1 DEF PosInv
  <2>3. Shape' /\ \A b \in Tasks : task'[b] # Idle => task'[b].pos \in Positions
    BY <1>8, <2>1, PosProceeds DEF DashboardTallies
  <2>4. /\ life' = life /\ trades' = trades
        /\ row' = row \/ row' = [row EXCEPT ![task["dashboard"].pos] = "linked"]
    BY <1>8 DEF DashboardTallies
  <2> QED
    BY <2>2, <2>3, <2>4, PosKept
<1>9. CASE UNCHANGED vars
  BY <1>9, PosSame DEF vars
<1> QED
  BY <1>1, <1>2, <1>3, <1>4, <1>5, <1>6, <1>7, <1>8, <1>9 DEF Next

\* The journal grows by closes, unless it is cleared.
JournalInv == \E V : events \in Seq(V)

LEMMA JournalAppends ==
  ASSUME NEW V, NEW s \in Seq(V), NEW e
  PROVE  /\ \E W : Append(s, e) \in Seq(W)
         /\ Len(s) \in Nat /\ Len(Append(s, e)) = Len(s) + 1
         /\ Append(s, e)[Len(s) + 1] = e
         /\ \A i \in 1..Len(s) : Append(s, e)[i] = s[i]
<1>1. s \in Seq(V \cup {e}) /\ e \in V \cup {e}
  OBVIOUS
<1>2. Append(s, e) \in Seq(V \cup {e})
  BY <1>1
<1> QED
  BY <1>1, <1>2

LEMMA JournalSteps ==
  ASSUME JournalInv, [Next]_vars
  PROVE  /\ JournalInv'
         /\ \/ events' = events \/ Clears
            \/ \E a \in Closers : WritesEvent(a) /\ \E e : events' = Append(events, e)
                                                        /\ e.source = Source(a)
<1> USE DEF tables, memory
<1>1. \/ events' = events \/ Clears
      \/ \E a \in Closers : WritesEvent(a) /\ \E e : events' = Append(events, e)
                                                  /\ e.source = Source(a)
  <2>1. ASSUME NEW a \in Closers, WritesEvent(a)
        PROVE  \E e : events' = Append(events, e) /\ e.source = Source(a)
    <3> DEFINE e == [source |-> Source(a), stop |-> task[a].stop, pnl |-> Result(a)]
    <3>1. events' = Append(events, e) /\ e.source = Source(a)
      BY <2>1 DEF WritesEvent
    <3> QED
      BY <3>1
  <2>2. CASE Restore \/ Restart \/ Resets \/ Expires \/ LoopSizes \/ DashboardTallies
             \/ UNCHANGED vars
    BY <2>2 DEF Restore, RestoreReads, RestoreFails, RestoreApplies, Restart, Resets, Expires,
                LoopSizes, DashboardTallies, vars
  <2>3. ASSUME NEW p \in Positions, Enter(p) \/ Close(p) PROVE events' = events
    BY <2>3 DEF Enter, LoopAsks, HandlerSizes, RowSaved, Close, LoopTakesPart, LoopCloses,
                ReportCloses, DashboardCloses, ExchangeCloses, Book
  <2>4. ASSUME NEW a \in Tasks, Opens(a) \/ Refused(a) PROVE events' = events
    BY <2>4 DEF Opens, Refused
  <2>5. ASSUME NEW a \in Closers, OnClose(a) \/ Link(a) \/ LinkFails(a) \/ Flush(a), ~WritesEvent(a)
        PROVE  events' = events
    BY <2>5 DEF OnClose, Cooldown, Guard, Streak, CommitFails, Link, LinkFails, Flush
  <2> QED
    BY <2>1, <2>2, <2>3, <2>4, <2>5 DEF Next
<1>2. JournalInv'
  <2>1. PICK V : events \in Seq(V)
    BY DEF JournalInv
  <2>2. ASSUME NEW e, events' = Append(events, e) PROVE JournalInv'
    BY <2>1, <2>2, JournalAppends DEF JournalInv
  <2>3. CASE Clears
    BY <2>3 DEF Clears, JournalInv
  <2> QED
    BY <1>1, <2>1, <2>2, <2>3 DEF JournalInv
<1> QED
  BY <1>1, <1>2

\* The recursion that picks the results of a source is well defined.
LEMMA UptoUnfolds ==
  ASSUME NEW V, NEW s \in Seq(V), NEW source
  PROVE  \A n \in 0..Len(s) :
           Upto(s, source)[n] =
             IF n = 0 THEN <<>>
             ELSE IF s[n].source = source THEN Append(Upto(s, source)[n - 1], s[n].pnl)
                  ELSE Upto(s, source)[n - 1]
<1> DEFINE Body(h, m) ==
      [n \in 0..m |-> IF n = 0 THEN <<>>
                      ELSE IF s[n].source = source THEN Append(h[n - 1], s[n].pnl)
                           ELSE h[n - 1]]
<1>1. Len(s) \in Nat
  OBVIOUS
<1>2. \E h : h = Body(h, Len(s))
  <2> DEFINE S == {m \in Nat : \E h : h = Body(h, m)}
  <2>1. 0 \in S
    <3> DEFINE h == [n \in 0..0 |-> <<>>]
    <3>1. h = Body(h, 0)
      OBVIOUS
    <3> QED
      BY <3>1
  <2>2. ASSUME NEW m \in Nat, m \in S PROVE m + 1 \in S
    <3>1. PICK h : h = Body(h, m)
      BY <2>2
    <3> DEFINE v == IF s[m + 1].source = source THEN Append(h[m], s[m + 1].pnl) ELSE h[m]
               g == [n \in 0..(m + 1) |-> IF n = m + 1 THEN v ELSE h[n]]
    <3>2. \A n \in 0..m : g[n] = h[n]
      OBVIOUS
    <3>3. g[m + 1] = v
      OBVIOUS
    <3>4. ASSUME NEW n \in 0..(m + 1)
          PROVE  g[n] = IF n = 0 THEN <<>>
                        ELSE IF s[n].source = source THEN Append(g[n - 1], s[n].pnl)
                             ELSE g[n - 1]
      <4>1. CASE n = m + 1
        <5>1. g[n - 1] = h[m] /\ n # 0
          BY <3>2, <4>1
        <5> HIDE DEF g
        <5> QED
          BY <3>3, <4>1, <5>1
      <4>2. CASE n \in 0..m
        <5>1. g[n] = h[n] /\ (n # 0 => g[n - 1] = h[n - 1])
          BY <3>2, <4>2
        <5>2. h[n] = IF n = 0 THEN <<>>
                     ELSE IF s[n].source = source THEN Append(h[n - 1], s[n].pnl)
                          ELSE h[n - 1]
          BY <3>1, <4>2
        <5> HIDE DEF g
        <5> QED
          BY <5>1, <5>2
      <4> QED
        BY <4>1, <4>2
    <3>5. g = Body(g, m + 1)
      BY <3>4
    <3> HIDE DEF g, Body
    <3> QED
      BY <3>5
  <2> HIDE DEF S
  <2>3. Len(s) \in S
    BY <1>1, <2>1, <2>2, Inductive
  <2> QED
    BY <2>3 DEF S
<1>3. Upto(s, source) = CHOOSE h : h = Body(h, Len(s))
  BY DEF Upto
<1>4. Upto(s, source) = Body(Upto(s, source), Len(s))
  BY <1>2, <1>3
<1> DEFINE own == Upto(s, source)
<1> HIDE DEF own
<1>5. own = Body(own, Len(s))
  BY <1>4 DEF own
<1>6. \A n \in 0..Len(s) : own[n] = IF n = 0 THEN <<>>
                                    ELSE IF s[n].source = source THEN Append(own[n - 1], s[n].pnl)
                                         ELSE own[n - 1]
  BY <1>5
<1> QED
  BY <1>6 DEF own

\* An entry of another source leaves the results of a source as they are.
LEMMA OthersLeaveResults ==
  ASSUME NEW V, NEW s \in Seq(V), NEW source, NEW e, e.source # source
  PROVE  Upto(Append(s, e), source)[Len(s) + 1] = Upto(s, source)[Len(s)]
<1> DEFINE t == Append(s, e)
           now == Upto(s, source)
           then == Upto(t, source)
           S == {m \in Nat : m <= Len(s) => then[m] = now[m]}
<1>1. /\ Len(s) \in Nat /\ Len(t) = Len(s) + 1
      /\ t[Len(s) + 1] = e /\ \A i \in 1..Len(s) : t[i] = s[i]
  BY JournalAppends
<1>2. \A n \in 0..Len(s) :
        now[n] = IF n = 0 THEN <<>>
                 ELSE IF s[n].source = source THEN Append(now[n - 1], s[n].pnl) ELSE now[n - 1]
  BY UptoUnfolds
<1>3. \A n \in 0..Len(t) :
        then[n] = IF n = 0 THEN <<>>
                  ELSE IF t[n].source = source THEN Append(then[n - 1], t[n].pnl)
                       ELSE then[n - 1]
  <2>1. PICK W : t \in Seq(W)
    BY JournalAppends
  <2> HIDE DEF t
  <2> QED
    BY <2>1, UptoUnfolds
<1> HIDE DEF t, now, then
<1>4. 0 \in S
  BY <1>1, <1>2, <1>3
<1>5. ASSUME NEW m \in Nat, m \in S PROVE m + 1 \in S
  <2>1. ASSUME m + 1 <= Len(s) PROVE then[m + 1] = now[m + 1]
    <3>1. then[m] = now[m] /\ m + 1 \in 0..Len(s) /\ m + 1 \in 0..Len(t)
      BY <1>1, <1>5, <2>1
    <3>2. t[m + 1] = s[m + 1] /\ m + 1 # 0 /\ (m + 1) - 1 = m
      BY <1>1, <2>1
    <3>3. now[m + 1] = IF s[m + 1].source = source THEN Append(now[m], s[m + 1].pnl) ELSE now[m]
      BY <1>2, <3>1, <3>2
    <3>4. then[m + 1] = IF t[m + 1].source = source THEN Append(then[m], t[m + 1].pnl)
                        ELSE then[m]
      BY <1>3, <3>1, <3>2
    <3> QED
      BY <3>1, <3>2, <3>3, <3>4
  <2> QED
    BY <2>1
<1> HIDE DEF S
<1>6. Len(s) \in S
  BY <1>1, <1>4, <1>5, Inductive
<1>7. then[Len(s)] = now[Len(s)]
  BY <1>1, <1>6 DEF S
<1>8. then[Len(s) + 1] = then[Len(s)]
  <2>1. Len(s) + 1 \in 0..Len(t) /\ Len(s) + 1 # 0 /\ (Len(s) + 1) - 1 = Len(s)
    BY <1>1
  <2> QED
    BY <1>1, <1>3, <2>1
<1> QED
  BY <1>7, <1>8 DEF now, then, t

LEMMA ExclusionStays ==
  ASSUME JournalInv, NEW source,
         events' = events \/ \E e : events' = Append(events, e) /\ e.source # source
  PROVE  Excluded(source)' <=> Excluded(source)
<1>1. Upto(events', source)[Len(events')] = Upto(events, source)[Len(events)]
  <2>1. PICK V : events \in Seq(V)
    BY DEF JournalInv
  <2>2. ASSUME NEW e, events' = Append(events, e), e.source # source
        PROVE  Upto(events', source)[Len(events')] = Upto(events, source)[Len(events)]
    BY <2>1, <2>2, OthersLeaveResults, JournalAppends
  <2> QED
    BY <2>2
<1>2. Newest(source, MaxTrades)' = Newest(source, MaxTrades)
  BY <1>1 DEF Newest
<1> QED
  BY <1>2 DEF Excluded

\* Nothing open, and nobody past the question of the size.
Still(s) == /\ \A p \in Positions : SourceOf[p] = s => life[p] # "open"
            /\ \A a \in Tasks : task[a] # Idle /\ SourceOf[task[a].pos] = s
                                => task[a].pc = "sizing"

LEMMA ShutIsStill == ASSUME PosInv, NEW s PROVE Shut(s) <=> Excluded(s) /\ Still(s)
BY DEF Shut, Still, TasksOf, PosInv

\* One task moves, and is not about a position of the source, or asks for the size.
LEMMA StillKept ==
  ASSUME NEW s, Still(s), NEW a \in Tasks, \A b \in Tasks : b # a => task'[b] = task[b],
         task'[a] = Idle \/ SourceOf[task'[a].pos] # s \/ task'[a].pc = "sizing",
         \A p \in Positions : SourceOf[p] = s => life'[p] = life[p]
  PROVE  Still(s)'
BY DEF Still

LEMMA StillSteps ==
  ASSUME PosInv, [Next]_vars, NEW s \in Sources \ Exact, Excluded(s), Still(s)
  PROVE  Still(s)'
<1> DEFINE Goal == Still(s)'
<1> USE DEF tables, memory
<1>1. CASE Restore \/ Expires \/ UNCHANGED vars
  BY <1>1 DEF Restore, RestoreReads, RestoreFails, RestoreApplies, Expires, vars, Still
<1>2. CASE Restart \/ Resets \/ Clears
  BY <1>2 DEF Restart, Resets, Clears, Wipes, Still
<1>3. ASSUME NEW p \in Positions, Enter(p) PROVE Goal
  <2>1. CASE LoopAsks(p)
    <3> DEFINE t == [pc |-> "sizing", pos |-> p]
    <3>1. task' = [task EXCEPT !["loop"] = t] /\ t.pc = "sizing" /\ life' = life
      BY <2>1 DEF LoopAsks
    <3> HIDE DEF t
    <3>2. "loop" \in Tasks /\ task'["loop"] = t /\ \A b \in Tasks : b # "loop" => task'[b] = task[b]
      BY <3>1, Becomes DEF PosInv, Tasks, Closers
    <3> QED
      BY <3>1, <3>2, StillKept
  <2>2. CASE HandlerSizes(p)
    <3> DEFINE t == [pc |-> "ordering", pos |-> p]
    <3>1. task' = [task EXCEPT !["handler"] = t] /\ t.pos = p /\ life' = life
      BY <2>2 DEF HandlerSizes
    <3>2. SourceOf[p] # s
      BY <2>2 DEF HandlerSizes
    <3> HIDE DEF t
    <3>3. /\ "handler" \in Tasks /\ task'["handler"] = t
          /\ \A b \in Tasks : b # "handler" => task'[b] = task[b]
      BY <3>1, Becomes DEF PosInv, Tasks
    <3> QED
      BY <3>1, <3>2, <3>3, StillKept
  <2>3. CASE RowSaved(p)
    BY <2>3 DEF RowSaved, Still
  <2> QED
    BY <1>3, <2>1, <2>2, <2>3 DEF Enter
<1>4. ASSUME NEW p \in Positions, Close(p) PROVE Goal
  <2>1. ASSUME NEW a \in Closers, NEW pnl, NEW last, NEW stop, NEW pc,
               Book(a, p, pnl, last, stop, pc)
        PROVE  Goal
    <3> DEFINE t == [pc |-> pc, pos |-> p, stop |-> stop, pnl |-> pnl]
    <3>1. task' = [task EXCEPT ![a] = t] /\ t.pos = p
      BY <2>1 DEF Book
    <3>2. SourceOf[p] # s
      BY <2>1 DEF Book, Closable, Still
    <3>3. \A q \in Positions : SourceOf[q] = s => life'[q] = life[q]
      BY <2>1, <3>2 DEF Book, PosInv
    <3> HIDE DEF t
    <3>4. a \in Tasks /\ task'[a] = t /\ \A b \in Tasks : b # a => task'[b] = task[b]
      BY <3>1, Becomes DEF PosInv, Tasks
    <3> QED
      BY <3>1, <3>2, <3>3, <3>4, StillKept
  <2> QED
    BY <1>4, <2>1 DEF Close, LoopTakesPart, LoopCloses, ReportCloses, DashboardCloses,
                      ExchangeCloses, Closers
<1>5. CASE LoopSizes
  <2>1. "loop" \in Tasks /\ task["loop"] # Idle /\ task["loop"].pc = "sizing" /\ life' = life
    BY <1>5 DEF LoopSizes, Tasks, Closers, Idle
  <2>2. CASE Excluded(SourceOf[task["loop"].pos])
    <3>1. task' = [task EXCEPT !["loop"] = Idle]
      BY <1>5, <2>1, <2>2 DEF LoopSizes, PosInv, Shape
    <3>2. task'["loop"] = Idle /\ \A b \in Tasks : b # "loop" => task'[b] = task[b]
      BY <2>1, <3>1, Becomes DEF PosInv
    <3> QED
      BY <2>1, <3>2, StillKept
  <2>3. CASE ~Excluded(SourceOf[task["loop"].pos])
    <3>1. Proceed("loop", "ordering")
      BY <1>5, <2>1, <2>3 DEF LoopSizes, Proceed, PosInv, Shape
    <3>2. SourceOf[task["loop"].pos] # s
      BY <2>3
    <3>3. task'["loop"].pos = task["loop"].pos /\ \A b \in Tasks : b # "loop" => task'[b] = task[b]
      BY <2>1, <3>1, Proceeds DEF PosInv
    <3> QED
      BY <2>1, <3>2, <3>3, StillKept
  <2> QED
    BY <2>2, <2>3
<1>6. ASSUME NEW a \in Tasks, Opens(a) \/ Refused(a) PROVE Goal
  <2>1. task[a].pos \in Positions /\ SourceOf[task[a].pos] # s
    BY <1>6 DEF Opens, Refused, PosInv, Idle, Still
  <2>2. \A q \in Positions : SourceOf[q] = s => life'[q] = life[q]
    BY <1>6, <2>1 DEF Opens, Refused, PosInv
  <2>3. task' = [task EXCEPT ![a] = Idle] /\ Shape
    BY <1>6 DEF Opens, Refused, PosInv
  <2>4. task'[a] = Idle /\ \A b \in Tasks : b # a => task'[b] = task[b]
    BY <2>3, Becomes
  <2> QED
    BY <2>2, <2>4, StillKept
<1>7. ASSUME NEW a \in Closers, NEW pc, Proceed(a, pc), life' = life, task[a].pc \notin {"idle", "sizing"}
      PROVE  Goal
  <2>1. a \in Tasks /\ task[a] # Idle
    BY <1>7 DEF Tasks, Idle
  <2>2. SourceOf[task[a].pos] # s
    BY <1>7, <2>1 DEF Still
  <2>3. task'[a] = Idle \/ task'[a].pos = task[a].pos
    BY <1>7, <2>1, Proceeds DEF PosInv
  <2>4. \A b \in Tasks : b # a => task'[b] = task[b]
    BY <1>7, <2>1, Proceeds DEF PosInv
  <2> QED
    BY <1>7, <2>1, <2>2, <2>3, <2>4, StillKept
<1>8. ASSUME NEW a \in Closers, OnClose(a) \/ Link(a) \/ LinkFails(a) \/ Flush(a) PROVE Goal
  BY <1>7, <1>8 DEF OnClose, WritesEvent, Cooldown, Guard, Streak, CommitFails, Link, LinkFails, Flush
<1>9. CASE DashboardTallies
  BY <1>7, <1>9 DEF DashboardTallies, Closers
<1> QED
  BY <1>1, <1>2, <1>3, <1>4, <1>5, <1>6, <1>8, <1>9 DEF Next

LEMMA ShutSteps ==
  ASSUME PosInv, JournalInv, [Next]_vars, ~Clears, NEW s \in Sources \ Exact, Shut(s)
  PROVE  Shut(s)'
<1>1. Excluded(s) /\ Still(s)
  BY ShutIsStill
<1>2. Still(s)'
  BY <1>1, StillSteps
<1>3. events' = events \/ \E e : events' = Append(events, e) /\ e.source # s
  <2>1. ASSUME NEW a \in Closers, WritesEvent(a) PROVE Source(a) # s
    BY <1>1, <2>1 DEF WritesEvent, Source, Still, Tasks, Idle
  <2> QED
    BY <2>1, JournalSteps
<1>4. Excluded(s)'
  BY <1>1, <1>3, ExclusionStays
<1>5. PosInv'
  BY PosSteps
<1>6. PosInv' => (Shut(s)' <=> Excluded(s)' /\ Still(s)')
  BY ShutIsStill, PTL
<1> QED
  BY <1>2, <1>4, <1>5, <1>6

(* A source that the sizing has shut, and that is not executed exactly,     *)
(* opens nothing any more and stays shut, whatever closes of others the     *)
(* journal still takes in, across restarts and resets: only a clearing of   *)
(* the journal lets it trade again.                                         *)
THEOREM ShutForGood == Spec => ExcludedForGood
<1> DEFINE Stays == ~Clears => \A s \in Sources \ Exact : Shut(s) => Shut(s)'
<1>1. Init => PosInv /\ JournalInv
  BY PosAtTheStart DEF Init, JournalInv
<1>2. PosInv /\ JournalInv /\ [Next]_vars => PosInv' /\ JournalInv'
  BY PosSteps, JournalSteps
<1>3. PosInv /\ JournalInv /\ [Next]_vars => [Stays]_vars
  BY ShutSteps
<1> QED
  BY <1>1, <1>2, <1>3, PTL DEF Spec, ExcludedForGood
-----------------------------------------------------------------------------
(* Entries. *)

\* The loop enters for strategies and the handler for channels, each a position
\* that is new until it is opened.
EntryInv == \A a \in Tasks : task[a].pc \in {"sizing", "ordering"} =>
              /\ a \in {"loop", "handler"} /\ life[task[a].pos] = "new"
              /\ SourceOf[task[a].pos] \in Channels <=> a = "handler"

\* One task moves; whatever else changes is no new position.
LEMMA EntryKept ==
  ASSUME EntryInv, NEW a \in Tasks, \A b \in Tasks : b # a => task'[b] = task[b],
         task'[a].pc \in {"sizing", "ordering"} =>
           /\ a \in {"loop", "handler"} /\ life'[task'[a].pos] = "new"
           /\ SourceOf[task'[a].pos] \in Channels <=> a = "handler",
         \A b \in Tasks : b # a /\ task[b].pc \in {"sizing", "ordering"} =>
           life'[task[b].pos] = life[task[b].pos]
  PROVE  EntryInv'
BY DEF EntryInv

LEMMA EntrySteps == ASSUME EntryInv, PosInv, [Next]_vars PROVE EntryInv'
<1> USE DEF tables, memory
<1>1. CASE Restore \/ Expires \/ UNCHANGED vars
  BY <1>1 DEF Restore, RestoreReads, RestoreFails, RestoreApplies, Expires, vars, EntryInv
<1>2. CASE Restart
  BY <1>2 DEF Restart, EntryInv, Idle
<1> USE DEF Wipes
<1>11. CASE Resets \/ Clears
  <2>1. task' = task
    BY <1>11 DEF Resets, Clears
  <2>2. ASSUME NEW a \in Tasks, task[a].pc \in {"sizing", "ordering"}
        PROVE  life'[task[a].pos] = "new"
    <3>1. life[task[a].pos] = "new" /\ task[a].pos \in Positions
      BY <2>2 DEF EntryInv, PosInv, Idle
    <3> QED
      BY <1>11, <3>1 DEF Resets, Clears
  <2> QED
    BY <2>1, <2>2 DEF EntryInv
<1>3. ASSUME NEW p \in Positions, NEW a \in {"loop", "handler"}, NEW t, t.pos = p,
             task' = [task EXCEPT ![a] = t], life[p] = "new", life' = life,
             SourceOf[p] \in Channels <=> a = "handler"
      PROVE  EntryInv'
  <2>1. a \in Tasks /\ task'[a] = t /\ \A b \in Tasks : b # a => task'[b] = task[b]
    BY <1>3, Becomes DEF PosInv, Tasks, Closers
  <2> QED
    BY <1>3, <2>1, EntryKept
<1>4. ASSUME NEW p \in Positions, Enter(p) PROVE EntryInv'
  <2>1. CASE LoopAsks(p)
    <3> DEFINE t == [pc |-> "sizing", pos |-> p]
    <3>1. task' = [task EXCEPT !["loop"] = t] /\ t.pos = p
      BY <2>1 DEF LoopAsks
    <3> HIDE DEF t
    <3> QED
      BY <1>3, <2>1, <3>1 DEF LoopAsks
  <2>2. CASE HandlerSizes(p)
    <3> DEFINE t == [pc |-> "ordering", pos |-> p]
    <3>1. task' = [task EXCEPT !["handler"] = t] /\ t.pos = p
      BY <2>2 DEF HandlerSizes
    <3> HIDE DEF t
    <3> QED
      BY <1>3, <2>2, <3>1 DEF HandlerSizes
  <2>3. CASE RowSaved(p)
    BY <2>3 DEF RowSaved, EntryInv
  <2> QED
    BY <1>4, <2>1, <2>2, <2>3 DEF Enter
<1>5. ASSUME NEW p \in Positions, Close(p) PROVE EntryInv'
  <2>1. ASSUME NEW a \in Closers, NEW pnl, NEW last, NEW stop, NEW pc,
               Book(a, p, pnl, last, stop, pc), pc \in {"event", "flush", "link"}
        PROVE  EntryInv'
    <3> DEFINE t == [pc |-> pc, pos |-> p, stop |-> stop, pnl |-> pnl]
    <3>1. task' = [task EXCEPT ![a] = t] /\ t.pc = pc /\ life[p] = "open"
      BY <2>1 DEF Book, Closable
    <3> HIDE DEF t
    <3>2. a \in Tasks /\ task'[a] = t /\ \A b \in Tasks : b # a => task'[b] = task[b]
      BY <3>1, Becomes DEF PosInv, Tasks
    <3>3. ASSUME NEW b \in Tasks, task[b].pc \in {"sizing", "ordering"}
          PROVE  life'[task[b].pos] = life[task[b].pos]
      <4>1. life[task[b].pos] = "new" /\ task[b].pos \in Positions
        BY <3>3 DEF EntryInv, PosInv, Idle
      <4> QED
        BY <2>1, <3>1, <4>1 DEF Book, PosInv
    <3> QED
      BY <2>1, <3>1, <3>2, <3>3, EntryKept
  <2> QED
    BY <1>5, <2>1 DEF Close, LoopTakesPart, LoopCloses, ReportCloses, DashboardCloses,
                      ExchangeCloses, Closers
<1>6. CASE LoopSizes
  <2>1. /\ "loop" \in Tasks /\ task["loop"].pc = "sizing" /\ life' = life
        /\ life[task["loop"].pos] = "new" /\ SourceOf[task["loop"].pos] \notin Channels
    BY <1>6 DEF LoopSizes, Tasks, Closers, EntryInv
  <2>2. Proceed("loop", "idle") \/ Proceed("loop", "ordering")
    BY <1>6, <2>1 DEF LoopSizes, Proceed, PosInv, Shape
  <2>3. /\ \A b \in Tasks : b # "loop" => task'[b] = task[b]
        /\ task'["loop"].pc # "idle" => task'["loop"].pos = task["loop"].pos
    BY <2>1, <2>2, Proceeds DEF PosInv
  <2> QED
    BY <2>1, <2>3, EntryKept
<1>7. ASSUME NEW a \in Tasks, Opens(a) \/ Refused(a) PROVE EntryInv'
  <2>1. Proceed(a, "idle") /\ task[a].pc = "ordering"
    BY <1>7 DEF Opens, Refused, Proceed
  <2>2. task'[a].pc = "idle" /\ \A b \in Tasks : b # a => task'[b] = task[b]
    BY <2>1, Proceeds DEF PosInv
  <2>3. ASSUME NEW b \in Tasks, b # a, task[b].pc \in {"sizing", "ordering"}
        PROVE  life'[task[b].pos] = life[task[b].pos]
    <3>1. task[b].pos # task[a].pos
      BY <2>1, <2>3 DEF EntryInv
    <3>2. task[b].pos \in Positions /\ task[a].pos \in Positions
      BY <2>1, <2>3 DEF PosInv, Idle
    <3> QED
      BY <1>7, <3>1, <3>2 DEF Opens, Refused, PosInv
  <2> QED
    BY <2>2, <2>3, EntryKept
<1>8. ASSUME NEW a \in Closers, NEW pc, pc \notin {"sizing", "ordering"},
             Proceed(a, pc), life' = life
      PROVE  EntryInv'
  <2>1. a \in Tasks /\ task'[a].pc = pc /\ \A b \in Tasks : b # a => task'[b] = task[b]
    BY <1>8, Proceeds DEF PosInv, Tasks
  <2> QED
    BY <1>8, <2>1, EntryKept
<1>9. ASSUME NEW a \in Closers, OnClose(a) \/ Link(a) \/ LinkFails(a) \/ Flush(a) PROVE EntryInv'
  <2>1. AfterGuard(a) \in {"streak", "link"} /\ AfterLink(a) \in {"idle", "flush"}
    BY DEF AfterGuard, AfterLink
  <2>2. life' = life
    BY <1>9 DEF OnClose, WritesEvent, Cooldown, Guard, Streak, CommitFails, Link, LinkFails, Flush
  <2>3. \E pc \in {"idle", "cooldown", "guard", "streak", "link", "flush", "tally"} : Proceed(a, pc)
    BY <1>9, <2>1 DEF OnClose, WritesEvent, Cooldown, Guard, Streak, CommitFails, Link, LinkFails, Flush
  <2> QED
    BY <1>8, <2>2, <2>3
<1>10. CASE DashboardTallies
  BY <1>8, <1>10 DEF DashboardTallies, Closers
<1> QED
  BY <1>1, <1>2, <1>4, <1>5, <1>6, <1>7, <1>9, <1>10, <1>11 DEF Next
-----------------------------------------------------------------------------
(* The record of the channels. *)

\* The outcomes that have been told.
Told(c) == Counted(c) \ Owed
GoodTold(c) == {p \in Told(c) : Good(p)}
BadTold(c) == {p \in Told(c) : ~Good(p)}
Truth(c) == [good |-> Cardinality(GoodTold(c)), bad |-> Cardinality(BadTold(c))]

\* The record that memory holds, with what the start-up is about to add.
Held(c) ==
  IF start.pc = "applying"
  THEN [good |-> stats[c].good + start.found[c].good, bad |-> stats[c].bad + start.found[c].bad]
  ELSE stats[c]

Scores == [good : Nat, bad : Nat]

\* Rows are those of channels, whose orders are there.
RowInv == \A p \in Positions :
            /\ row[p] # "none" => SourceOf[p] \in Channels /\ life[p] \in {"open", "closed"}
            /\ row[p] = "linked" => FullyClosed(p)

\* One closer at most owes the outcome of a position, whose row is not linked yet.
OwesInv == \A a \in Closers : Owes(a) =>
             /\ life[task[a].pos] \in {"closed", "wiped"}
             /\ row[task[a].pos] # "linked"
             /\ \A b \in Closers : Owes(b) /\ task[b].pos = task[a].pos => b = a

CountInv == /\ stats \in [Channels -> Scores]
            /\ start.pc \in {"reading", "applying", "ready"}
            /\ start.pc = "applying" => start.found \in [Channels -> Scores]
            /\ start.pc # "reading" => \A c \in Channels \ astray : Held(c) = Truth(c)

BookInv == PosInv /\ RowInv /\ OwesInv /\ CountInv

\* What is recorded is closed, so that it is finite.
LEMMA AllFinite ==
  ASSUME PosInv, NEW c, NEW S \in SUBSET Counted(c)
  PROVE  IsFiniteSet(S) /\ Cardinality(S) \in Nat
<1>1. S \in SUBSET {p \in Positions : life[p] # "new"}
  BY DEF Counted, FullyClosed
<1> QED
  BY <1>1, FS_Subset, FS_CardinalityType DEF PosInv

LEMMA ToldIsCounted ==
  ASSUME NEW c
  PROVE  GoodTold(c) \in SUBSET Counted(c) /\ BadTold(c) \in SUBSET Counted(c)
BY DEF GoodTold, BadTold, Told

LEMMA OwedPosition ==
  ASSUME PosInv, NEW a \in Closers, Owes(a)
  PROVE  a \in Tasks /\ task[a] # Idle /\ task[a].pos \in Positions
BY DEF PosInv, Owes, Idle, Tasks

\* The same outcomes told, and the same record: the counts stay right.
LEMMA CountKept ==
  ASSUME CountInv, stats' = stats, start' = start, astray \subseteq astray',
         \A c \in Channels \ astray' : Told(c)' = Told(c),
         \A p \in Positions : FullyClosed(p) => trades'[p] = trades[p]
  PROVE  CountInv'
<1>1. ASSUME NEW c \in Channels \ astray', start.pc # "reading" PROVE Held(c)' = Truth(c)'
  <2>1. \A p \in Told(c) : Good(p)' <=> Good(p)
    BY DEF Told, Counted, Good
  <2>2. GoodTold(c)' = GoodTold(c) /\ BadTold(c)' = BadTold(c)
    BY <2>1 DEF GoodTold, BadTold
  <2>3. Held(c)' = Held(c) /\ Truth(c)' = Truth(c)
    BY <2>2 DEF Held, Truth
  <2> QED
    BY <1>1, <2>3 DEF CountInv
<1> QED
  BY <1>1 DEF CountInv

\* What is owed stays owed, or no longer is.
LEMMA OwesKept ==
  ASSUME OwesInv,
         \A a \in Closers : Owes(a)' => Owes(a) /\ task'[a].pos = task[a].pos,
         \A a \in Closers : Owes(a)' => /\ life'[task[a].pos] \in {"closed", "wiped"}
                                        /\ row'[task[a].pos] # "linked"
  PROVE  OwesInv'
BY DEF OwesInv

\* A step that tells nothing: closed positions stay what they are, rows are saved,
\* and whoever drops an outcome, or saves the row of one that was told, leads the
\* channel astray.
LEMMA QuietStep ==
  ASSUME BookInv, PosInv', stats' = stats, start' = start, astray \subseteq astray',
         \A p \in Positions : FullyClosed(p)' <=> FullyClosed(p),
         \A p \in Positions : life[p] \in {"open", "closed", "wiped"} => life'[p] = life[p],
         \A p \in Positions :
           \/ row'[p] = row[p]
           \/ /\ row[p] = "none" /\ row'[p] = "saved" /\ SourceOf[p] \in Channels
              /\ life[p] \in {"open", "closed"}
              /\ FullyClosed(p) /\ p \notin Owed => SourceOf[p] \in astray',
         \A p \in Positions : FullyClosed(p) => trades'[p] = trades[p],
         \A a \in Closers : Owes(a)' => Owes(a) /\ task'[a].pos = task[a].pos,
         \A a \in Closers : Owes(a) /\ ~Owes(a)' /\ row[task[a].pos] # "none"
                            => SourceOf[task[a].pos] \in astray',
         \A a \in Closers : Owes(a) /\ ~Owes(a)' => row' = row
  PROVE  BookInv'
<1>1. \A a \in Closers : Owes(a) => /\ task[a].pos \in Positions /\ row[task[a].pos] # "linked"
                                   /\ life[task[a].pos] \in {"closed", "wiped"}
  BY OwedPosition DEF BookInv, OwesInv
<1>2. RowInv'
  BY DEF BookInv, RowInv
<1>3. OwesInv'
  <2>1. ASSUME NEW a \in Closers, Owes(a)'
        PROVE  life'[task[a].pos] \in {"closed", "wiped"} /\ row'[task[a].pos] # "linked"
    <3>1. /\ task[a].pos \in Positions /\ row[task[a].pos] # "linked"
          /\ life[task[a].pos] \in {"closed", "wiped"}
      BY <1>1, <2>1
    <3>2. life'[task[a].pos] = life[task[a].pos]
      BY <3>1
    <3>3. row'[task[a].pos] \in {row[task[a].pos], "saved"}
      BY <3>1
    <3> QED
      BY <3>1, <3>2, <3>3
  <2> QED
    BY <2>1, OwesKept DEF BookInv
<1>4. Owed' \subseteq Owed
  BY DEF Owed
<1>5. ASSUME NEW c \in Channels \ astray' PROVE Told(c)' = Told(c)
  <2>1. ASSUME NEW p \in Told(c) PROVE p \in Told(c)'
    <3>1. p \in Positions /\ SourceOf[p] = c /\ row[p] # "none" /\ FullyClosed(p) /\ p \notin Owed
      BY <2>1 DEF Told, Counted
    <3>2. row'[p] # "none" /\ FullyClosed(p)' /\ p \notin Owed'
      BY <1>4, <3>1
    <3> QED
      BY <3>1, <3>2 DEF Told, Counted
  <2>2. ASSUME NEW p \in Told(c)' PROVE p \in Told(c)
    <3>1. p \in Positions /\ SourceOf[p] = c /\ row'[p] # "none" /\ FullyClosed(p) /\ p \notin Owed'
      BY <2>2 DEF Told, Counted
    <3>2. ASSUME p \in Owed PROVE FALSE
      <4>1. PICK a \in Closers : Owes(a) /\ task[a].pos = p
        BY <3>2 DEF Owed
      <4>2. ~Owes(a)'
        <5> SUFFICES ASSUME Owes(a)' PROVE FALSE
          OBVIOUS
        <5>1. task'[a].pos = p
          BY <4>1
        <5> QED
          BY <3>1, <5>1 DEF Owed
      <4>3. row'[p] = row[p]
        BY <4>1, <4>2
      <4> QED
        BY <1>5, <3>1, <4>1, <4>2, <4>3
    <3>3. row[p] # "none"
      BY <1>5, <3>1, <3>2
    <3> QED
      BY <3>1, <3>2, <3>3 DEF Told, Counted
  <2> QED
    BY <2>1, <2>2
<1>6. CountInv'
  BY <1>5, CountKept DEF BookInv
<1> QED
  BY <1>2, <1>3, <1>6 DEF BookInv

\* An outcome is told: it was owed by one closer, and the row was saved.
LEMMA TallyStep ==
  ASSUME BookInv, PosInv', NEW a \in Closers, Owes(a), ~Owes(a)', NEW p, p = task[a].pos,
         row[p] # "none", row' = [row EXCEPT ![p] = "linked"],
         NEW good \in BOOLEAN, Tally(SourceOf[p], good),
         UNCHANGED <<life, trades, start>>, astray \subseteq astray',
         SourceOf[p] \in astray' \/ (good <=> Good(p)),
         \A b \in Closers : b # a => (Owes(b)' <=> Owes(b)) /\ task'[b].pos = task[b].pos
  PROVE  BookInv'
<1> DEFINE k == SourceOf[p]
<1>1. /\ p \in Positions /\ FullyClosed(p) /\ row[p] # "linked" /\ k \in Channels
      /\ \A b \in Closers : Owes(b) /\ task[b].pos = p => b = a
  BY OwedPosition DEF BookInv, OwesInv, RowInv, FullyClosed
<1>2. p \in Owed /\ Owed' = Owed \ {p}
  <2>1. p \in Owed
    BY DEF Owed
  <2>2. ASSUME NEW q \in Owed' PROVE q \in Owed \ {p}
    <3>1. PICK b \in Closers : Owes(b)' /\ task'[b].pos = q
      BY <2>2 DEF Owed
    <3>2. b # a /\ Owes(b) /\ task[b].pos = q
      BY <3>1
    <3> QED
      BY <1>1, <3>2 DEF Owed
  <2>3. ASSUME NEW q \in Owed \ {p} PROVE q \in Owed'
    <3>1. PICK b \in Closers : Owes(b) /\ task[b].pos = q
      BY <2>3 DEF Owed
    <3>2. b # a /\ Owes(b)' /\ task'[b].pos = q
      BY <2>3, <3>1
    <3> QED
      BY <3>2 DEF Owed
  <2> QED
    BY <2>1, <2>2, <2>3
<1>3. row'[p] = "linked" /\ \A q \in Positions : q # p => row'[q] = row[q]
  BY <1>1 DEF BookInv, PosInv
<1>4. RowInv'
  BY <1>1, <1>3 DEF BookInv, RowInv, FullyClosed
<1>5. OwesInv'
  <2>1. \A b \in Closers : Owes(b)' => Owes(b) /\ b # a /\ task'[b].pos = task[b].pos
    OBVIOUS
  <2>2. ASSUME NEW b \in Closers, Owes(b)'
        PROVE  life'[task[b].pos] \in {"closed", "wiped"} /\ row'[task[b].pos] # "linked"
    <3>1. Owes(b) /\ b # a
      BY <2>1, <2>2
    <3>2. /\ task[b].pos \in Positions /\ life[task[b].pos] \in {"closed", "wiped"}
          /\ row[task[b].pos] # "linked"
      BY <3>1, OwedPosition DEF BookInv, OwesInv
    <3>3. task[b].pos # p
      BY <1>1, <3>1
    <3> QED
      BY <1>3, <3>2, <3>3
  <2> QED
    BY <2>1, <2>2, OwesKept DEF BookInv
<1>6. ASSUME NEW c PROVE Counted(c)' = Counted(c)
  BY <1>1, <1>3 DEF Counted, FullyClosed
<1>7. \A q : Good(q)' <=> Good(q)
  BY DEF Good
<1>8. Told(k)' = Told(k) \cup {p} /\ p \notin Told(k)
  BY <1>1, <1>2, <1>6 DEF Told, Counted
<1> DEFINE v == IF good THEN [good |-> stats[k].good + 1, bad |-> stats[k].bad]
                     ELSE [good |-> stats[k].good, bad |-> stats[k].bad + 1]
<1>10. stats \in [Channels -> Scores]
  BY DEF BookInv, CountInv
<1>9. stats' = [stats EXCEPT ![k] = v]
  <2>1. stats[k] = [good |-> stats[k].good, bad |-> stats[k].bad]
    BY <1>1, <1>10 DEF Scores
  <2>2. [stats[k] EXCEPT !.good = stats[k].good + 1] = [good |-> stats[k].good + 1, bad |-> stats[k].bad]
    BY <2>1
  <2>3. [stats[k] EXCEPT !.bad = stats[k].bad + 1] = [good |-> stats[k].good, bad |-> stats[k].bad + 1]
    BY <2>1
  <2>4. CASE good
    <3>1. stats' = [stats EXCEPT ![k] = [stats[k] EXCEPT !.good = stats[k].good + 1]]
      BY <2>4 DEF Tally
    <3> QED
      BY <2>2, <2>4, <3>1
  <2>5. CASE ~good
    <3>1. stats' = [stats EXCEPT ![k] = [stats[k] EXCEPT !.bad = stats[k].bad + 1]]
      BY <2>5 DEF Tally
    <3> QED
      BY <2>3, <2>5, <3>1
  <2> QED
    BY <2>4, <2>5
<1> HIDE DEF v
<1>11. stats[k].good \in Nat /\ stats[k].bad \in Nat
  BY <1>1, <1>10 DEF Scores
<1>12. stats'[k] = IF good THEN [good |-> stats[k].good + 1, bad |-> stats[k].bad]
                           ELSE [good |-> stats[k].good, bad |-> stats[k].bad + 1]
  <2> HIDE DEF v
  <2>1. stats'[k] = v
    BY <1>1, <1>9, <1>10
  <2> QED
    BY <2>1 DEF v
<1>13. stats' \in [Channels -> Scores]
  <2>1. stats'[k] \in Scores
    BY <1>11, <1>12 DEF Scores
  <2> QED
    BY <1>1, <1>9, <1>10, <2>1
<1>14. ASSUME NEW c \in Channels \ astray', start.pc # "reading" PROVE Held(c)' = Truth(c)'
  <2>1. Held(c) = Truth(c)
    BY <1>14 DEF BookInv, CountInv
  <2>2. CASE c # k
    <3>1. stats'[c] = stats[c]
      BY <1>9, <1>10, <2>2
    <3>2. Held(c)' = Held(c)
      BY <3>1 DEF Held
    <3>3. Told(c)' = Told(c)
      BY <1>2, <1>6, <2>2 DEF Told, Counted
    <3>4. Truth(c)' = Truth(c)
      BY <1>7, <3>3 DEF Truth, GoodTold, BadTold
    <3> QED
      BY <2>1, <3>2, <3>4
  <2>3. CASE c = k
    <3> DEFINE f == IF start.pc = "applying" THEN start.found[k] ELSE Nothing
    <3>1. f.good \in Nat /\ f.bad \in Nat
      BY <1>1 DEF BookInv, CountInv, Scores, Nothing
    <3> HIDE DEF f
    <3>2. /\ Held(k).good = stats[k].good + f.good /\ Held(k).bad = stats[k].bad + f.bad
          /\ Held(k)' = [good |-> stats'[k].good + f.good, bad |-> stats'[k].bad + f.bad]
      <4>1. CASE start.pc = "applying"
        BY <4>1 DEF Held, f
      <4>2. CASE start.pc # "applying"
        <5>1. Held(k) = stats[k] /\ Held(k)' = stats'[k] /\ f.good = 0 /\ f.bad = 0
          BY <4>2 DEF Held, f, Nothing
        <5>2. stats'[k] \in Scores
          BY <1>1, <1>13
        <5> QED
          BY <1>11, <5>1, <5>2 DEF Scores
      <4> QED
        BY <4>1, <4>2
    <3>3. /\ Held(k).good = Cardinality(GoodTold(k)) /\ Held(k).bad = Cardinality(BadTold(k))
      BY <2>1, <2>3 DEF Truth
    <3>4. good <=> Good(p)
      BY <1>14, <2>3
    <3>5. IsFiniteSet(GoodTold(k)) /\ IsFiniteSet(BadTold(k))
      BY AllFinite, ToldIsCounted DEF BookInv
    <3>6. CASE good
      <4>1. GoodTold(k)' = GoodTold(k) \cup {p} /\ BadTold(k)' = BadTold(k) /\ p \notin GoodTold(k)
        BY <1>7, <1>8, <3>4, <3>6 DEF GoodTold, BadTold
      <4>2. Cardinality(GoodTold(k)') = Cardinality(GoodTold(k)) + 1
        BY <3>5, <4>1, FS_AddElement
      <4>3. stats'[k].good = stats[k].good + 1 /\ stats'[k].bad = stats[k].bad
        BY <1>12, <3>6
      <4>4. /\ stats'[k].good + f.good = Cardinality(GoodTold(k)')
            /\ stats'[k].bad + f.bad = Cardinality(BadTold(k)')
        BY <1>11, <3>1, <3>2, <3>3, <4>1, <4>2, <4>3
      <4> QED
        BY <2>3, <3>2, <4>4 DEF Truth
    <3>7. CASE ~good
      <4>1. BadTold(k)' = BadTold(k) \cup {p} /\ GoodTold(k)' = GoodTold(k) /\ p \notin BadTold(k)
        BY <1>7, <1>8, <3>4, <3>7 DEF GoodTold, BadTold
      <4>2. Cardinality(BadTold(k)') = Cardinality(BadTold(k)) + 1
        BY <3>5, <4>1, FS_AddElement
      <4>3. stats'[k].bad = stats[k].bad + 1 /\ stats'[k].good = stats[k].good
        BY <1>12, <3>7
      <4>4. /\ stats'[k].good + f.good = Cardinality(GoodTold(k)')
            /\ stats'[k].bad + f.bad = Cardinality(BadTold(k)')
        BY <1>11, <3>1, <3>2, <3>3, <4>1, <4>2, <4>3
      <4> QED
        BY <2>3, <3>2, <4>4 DEF Truth
    <3> QED
      BY <3>6, <3>7
  <2> QED
    BY <2>2, <2>3
<1>15. CountInv'
  BY <1>13, <1>14 DEF BookInv, CountInv
<1> QED
  BY <1>4, <1>5, <1>15 DEF BookInv

\* A position is closed: its outcome is owed by the closer, and not told yet.
LEMMA CloseStep ==
  ASSUME BookInv, PosInv', NEW a \in Closers, NEW p \in Positions, NEW pnl,
         NEW stop, NEW pc, Book(a, p, pnl, TRUE, stop, pc),
         pc \in IF a = "dashboard" THEN {"flush"} ELSE {"event", "link"}
  PROVE  BookInv'
<1> DEFINE t == [pc |-> pc, pos |-> p, stop |-> stop, pnl |-> pnl]
<1>1. t.pc = pc /\ t.pos = p
  OBVIOUS
<1>2. /\ task' = [task EXCEPT ![a] = t] /\ task[a] = Idle
      /\ life[p] = "open"
      /\ trades' = [trades EXCEPT ![p] = Append(trades[p], pnl)]
      /\ life' = [life EXCEPT ![p] = "closed"]
      /\ UNCHANGED <<row, stats, start, astray>>
  BY DEF Book, Closable
<1> HIDE DEF t
<1>3. a \in Tasks /\ task'[a] = t /\ \A b \in Tasks : b # a => task'[b] = task[b]
  BY <1>2, Becomes DEF BookInv, PosInv, Tasks
<1>4. /\ life'[p] = "closed" /\ \A q \in Positions : q # p => life'[q] = life[q]
      /\ \A q \in Positions : q # p => trades'[q] = trades[q]
  BY <1>2 DEF BookInv, PosInv
<1>5. Owes(a)' /\ ~Owes(a) /\ task'[a].pos = p
  BY <1>1, <1>2, <1>3 DEF Owes, Idle
<1>6. \A b \in Closers : b # a => (Owes(b)' <=> Owes(b)) /\ task'[b] = task[b]
  BY <1>3 DEF Owes, Tasks
<1>7. \A b \in Closers : Owes(b) => task[b].pos # p /\ task[b].pos \in Positions
  BY <1>2, OwedPosition DEF BookInv, OwesInv
<1>8. RowInv'
  BY <1>2, <1>4 DEF BookInv, RowInv, FullyClosed
<1>9. OwesInv'
  <2> SUFFICES ASSUME NEW b \in Closers, Owes(b)'
               PROVE  /\ life'[task'[b].pos] \in {"closed", "wiped"}
                      /\ row'[task'[b].pos] # "linked"
                      /\ \A d \in Closers : Owes(d)' /\ task'[d].pos = task'[b].pos => d = b
    BY DEF OwesInv
  <2>1. CASE b = a
    <3>1. row[p] # "linked"
      BY <1>2 DEF BookInv, RowInv, FullyClosed
    <3>2. \A d \in Closers : Owes(d)' /\ task'[d].pos = p => d = a
      BY <1>6, <1>7
    <3> QED
      BY <1>2, <1>4, <1>5, <2>1, <3>1, <3>2
  <2>2. CASE b # a
    <3>1. Owes(b) /\ task'[b] = task[b] /\ task[b].pos # p /\ task[b].pos \in Positions
      BY <1>6, <1>7, <2>2
    <3>2. /\ life[task[b].pos] \in {"closed", "wiped"} /\ row[task[b].pos] # "linked"
          /\ \A d \in Closers : Owes(d) /\ task[d].pos = task[b].pos => d = b
      BY <3>1 DEF BookInv, OwesInv
    <3>3. \A d \in Closers : Owes(d)' /\ task'[d].pos = task'[b].pos => d = b
      BY <1>5, <1>6, <3>1, <3>2
    <3> QED
      BY <1>2, <1>4, <3>1, <3>2, <3>3
  <2> QED
    BY <2>1, <2>2
<1>10. Owed' = Owed \cup {p}
  BY <1>5, <1>6 DEF Owed
<1>11. ASSUME NEW c PROVE Counted(c)' \ {p} = Counted(c) /\ p \notin Counted(c)
  BY <1>2, <1>4 DEF Counted, FullyClosed
<1>12. ASSUME NEW c \in Channels PROVE Told(c)' = Told(c)
  BY <1>10, <1>11 DEF Told
<1>13. \A q \in Positions : FullyClosed(q) => trades'[q] = trades[q]
  BY <1>2, <1>4 DEF FullyClosed
<1>14. CountInv'
  BY <1>2, <1>12, <1>13, CountKept DEF BookInv
<1> QED
  BY <1>8, <1>9, <1>14 DEF BookInv

\* After a crash nobody owes anything, and the record starts from nothing.
LEMMA RestartStep == ASSUME BookInv, PosInv', Restart PROVE BookInv'
<1>1. \A a \in Closers : ~Owes(a)'
  BY DEF Restart, Owes, Idle, Tasks
<1>2. RowInv' /\ OwesInv'
  BY <1>1 DEF Restart, BookInv, RowInv, OwesInv, FullyClosed, tables
<1>3. CountInv'
  BY DEF Restart, CountInv, NoStats, Nothing, Scores
<1> QED
  BY <1>2, <1>3 DEF BookInv

\* What memory holds after a wipe is astray, unless it is nothing.
LEMMA WipeStep == ASSUME BookInv, PosInv', Wipes PROVE BookInv'
<1>1. UNCHANGED <<stats, task, start>> /\ astray \subseteq astray'
  BY DEF Wipes, memory
<1>2. RowInv'
  BY DEF Wipes, RowInv
<1>3. OwesInv'
  <2>1. ASSUME NEW a \in Closers, Owes(a)
        PROVE  life'[task[a].pos] = "wiped" /\ row'[task[a].pos] = "none"
    BY <2>1, OwedPosition DEF Wipes, BookInv, OwesInv
  <2> QED
    BY <1>1, <2>1, OwesKept DEF BookInv, Owes
<1>4. ASSUME NEW c \in Channels \ astray' PROVE Held(c)' = Truth(c)'
  <2>1. Counted(c)' = {}
    BY DEF Wipes, Counted
  <2>2. GoodTold(c)' = {} /\ BadTold(c)' = {}
    BY <2>1 DEF GoodTold, BadTold, Told
  <2>3. Truth(c)' = Nothing
    BY <2>2, FS_EmptySet DEF Truth, Nothing
  <2>4. stats[c] = Nothing /\ (start.pc = "applying" => start.found[c] = Nothing)
    BY <1>4 DEF Wipes
  <2>5. Held(c)' = Nothing
    BY <1>1, <2>4 DEF Held, Nothing
  <2> QED
    BY <2>3, <2>5
<1>5. CountInv'
  BY <1>1, <1>4 DEF BookInv, CountInv
<1> QED
  BY <1>2, <1>3, <1>5 DEF BookInv

\* The start-up reads what the table holds, and adds it to the record.
LEMMA RestoreStep == ASSUME BookInv, PosInv', Restore PROVE BookInv'
<1> USE DEF tables
<1>1. UNCHANGED <<life, trades, row, task>>
  BY DEF Restore, RestoreReads, RestoreFails, RestoreApplies
<1>2. RowInv' /\ OwesInv'
  BY <1>1 DEF BookInv, RowInv, OwesInv, Owes, FullyClosed
<1>3. ASSUME NEW c PROVE Truth(c)' = Truth(c)
  BY <1>1 DEF Truth, GoodTold, BadTold, Told, Counted, Owed, Owes, FullyClosed, Good
<1>4. Recorded \in [Channels -> Scores]
  <2>1. ASSUME NEW c \in Channels PROVE Recorded[c] \in Scores
    <3>1. /\ {p \in Counted(c) : Good(p)} \in SUBSET Counted(c)
          /\ {p \in Counted(c) : ~Good(p)} \in SUBSET Counted(c)
      OBVIOUS
    <3>2. /\ Cardinality({p \in Counted(c) : Good(p)}) \in Nat
          /\ Cardinality({p \in Counted(c) : ~Good(p)}) \in Nat
      BY <3>1, AllFinite DEF BookInv
    <3> QED
      BY <3>2 DEF Recorded, Scores
  <2> QED
    BY <2>1 DEF Recorded
<1>5. CASE RestoreReads
  <2>1. /\ stats' = stats /\ start'.pc = "applying" /\ start'.found = Recorded
        /\ astray' = {c \in Channels : stats[c] # Nothing \/ Counted(c) \cap Owed # {}}
    BY <1>5 DEF RestoreReads
  <2>2. ASSUME NEW c \in Channels \ astray' PROVE Held(c)' = Truth(c)'
    <3>1. stats[c] = Nothing /\ Told(c) = Counted(c)
      BY <2>1, <2>2 DEF Told
    <3>2. Recorded[c] = Truth(c)
      BY <2>2, <3>1 DEF Recorded, Truth, GoodTold, BadTold
    <3>3. Recorded[c] \in Scores
      BY <1>4, <2>2
    <3>4. Held(c)' = [good |-> 0 + Recorded[c].good, bad |-> 0 + Recorded[c].bad]
      BY <2>1, <3>1 DEF Held, Nothing
    <3>5. Held(c)' = Recorded[c]
      BY <3>3, <3>4 DEF Scores
    <3> QED
      BY <1>3, <3>2, <3>5
  <2>3. CountInv'
    BY <1>4, <2>1, <2>2 DEF BookInv, CountInv
  <2> QED
    BY <1>2, <2>3 DEF BookInv
<1>6. CASE RestoreFails
  <2>1. /\ stats' = stats /\ start'.pc = "ready"
        /\ astray' = {c \in Channels : stats[c] # Nothing \/ Counted(c) # {}}
    BY <1>6 DEF RestoreFails
  <2>2. ASSUME NEW c \in Channels \ astray' PROVE Held(c)' = Truth(c)'
    <3>1. stats[c] = Nothing /\ GoodTold(c) = {} /\ BadTold(c) = {}
      BY <2>1, <2>2 DEF Told, GoodTold, BadTold
    <3>2. Truth(c) = Nothing
      BY <3>1, FS_EmptySet DEF Truth, Nothing
    <3> QED
      BY <1>3, <2>1, <3>1, <3>2 DEF Held
  <2>3. CountInv'
    BY <2>1, <2>2 DEF BookInv, CountInv
  <2> QED
    BY <1>2, <2>3 DEF BookInv
<1>7. CASE RestoreApplies
  <2>1. /\ start.pc = "applying" /\ start'.pc = "ready" /\ astray' = astray
        /\ stats' = [c \in Channels |-> [good |-> stats[c].good + start.found[c].good,
                                         bad  |-> stats[c].bad + start.found[c].bad]]
    BY <1>7 DEF RestoreApplies
  <2>2. ASSUME NEW c \in Channels PROVE Held(c)' = Held(c) /\ stats'[c] \in Scores
    <3>1. Held(c)' = stats'[c] /\ stats'[c] = Held(c)
      BY <2>1, <2>2 DEF Held
    <3>2. stats[c] \in Scores /\ start.found[c] \in Scores
      BY <2>1, <2>2 DEF BookInv, CountInv
    <3>3. stats'[c] \in Scores
      BY <2>1, <2>2, <3>2 DEF Scores
    <3> QED
      BY <3>1, <3>3
  <2>3. stats' \in [Channels -> Scores]
    BY <2>1, <2>2
  <2>4. CountInv'
    BY <1>3, <2>1, <2>2, <2>3 DEF BookInv, CountInv
  <2> QED
    BY <1>2, <2>4 DEF BookInv
<1> QED
  BY <1>5, <1>6, <1>7 DEF Restore

\* A task moves that is not a closer of a position, or is one that owes nothing
\* before and after.
LEMMA NobodyOwesMore ==
  ASSUME NEW a \in Tasks, \A b \in Tasks : b # a => task'[b] = task[b], ~Owes(a)', ~Owes(a)
  PROVE  \A b \in Closers : /\ Owes(b)' => Owes(b) /\ task'[b].pos = task[b].pos
                            /\ Owes(b) => Owes(b)'
BY DEF Owes, Tasks

LEMMA BookKept ==
  ASSUME BookInv, PosInv', UNCHANGED <<life, trades, row, stats, start, task, astray>>
  PROVE  BookInv'
BY QuietStep DEF FullyClosed, Owes

\* The entries, and the saving of rows.
LEMMA BookEntries ==
  ASSUME BookInv, PosInv', NEW p \in Positions, Enter(p) PROVE BookInv'
<1> USE DEF tables, memory
<1>1. CASE RowSaved(p)
  <2>1. /\ UNCHANGED <<life, trades, stats, start, task>> /\ row[p] = "none"
        /\ SourceOf[p] \in Channels /\ life[p] \in {"open", "closed"} /\ astray \subseteq astray'
        /\ FullyClosed(p) /\ p \notin Owed => SourceOf[p] \in astray'
    BY <1>1 DEF RowSaved
  <2>2. row'[p] = "saved" /\ \A q \in Positions : q # p => row'[q] = row[q]
    BY <1>1 DEF RowSaved, BookInv, PosInv
  <2>3. \A a \in Closers : Owes(a)' <=> Owes(a)
    BY <2>1 DEF Owes
  <2> QED
    BY <2>1, <2>2, <2>3, QuietStep DEF FullyClosed
<1>2. ASSUME NEW a \in {"loop", "handler"}, NEW pc \in {"sizing", "ordering"}, NEW t,
             task' = [task EXCEPT ![a] = t], task[a] = Idle, t.pc = pc,
             UNCHANGED <<life, trades, row, stats, start, astray>>
      PROVE  BookInv'
  <2>1. a \in Tasks /\ task'[a] = t /\ \A b \in Tasks : b # a => task'[b] = task[b]
    BY ZenonT(40), <1>2, Becomes DEF BookInv, PosInv, Tasks, Closers
  <2>2. ~Owes(a)' /\ ~Owes(a)
    BY <1>2, <2>1 DEF Owes, Idle
  <2>3. \A b \in Closers : /\ Owes(b)' => Owes(b) /\ task'[b].pos = task[b].pos
                           /\ Owes(b) => Owes(b)'
    BY <2>1, <2>2, NobodyOwesMore
  <2> QED
    BY <1>2, <2>3, QuietStep DEF FullyClosed
<1>3. CASE LoopAsks(p)
  <2> DEFINE t == [pc |-> "sizing", pos |-> p]
  <2>1. task' = [task EXCEPT !["loop"] = t] /\ t.pc = "sizing"
    BY <1>3 DEF LoopAsks
  <2> HIDE DEF t
  <2> QED
    BY <1>2, <1>3, <2>1 DEF LoopAsks
<1>4. CASE HandlerSizes(p)
  <2> DEFINE t == [pc |-> "ordering", pos |-> p]
  <2>1. task' = [task EXCEPT !["handler"] = t] /\ t.pc = "ordering"
    BY <1>4 DEF HandlerSizes
  <2> HIDE DEF t
  <2> QED
    BY <1>2, <1>4, <2>1 DEF HandlerSizes
<1> QED
  BY <1>1, <1>3, <1>4 DEF Enter

\* A task of an entry, or one that owes nothing, comes to rest or goes on to nothing owed.
LEMMA BookGoesOn ==
  ASSUME BookInv, PosInv', NEW a \in Tasks, ~Owes(a), NEW pc \in {"idle", "ordering"},
         Proceed(a, pc), UNCHANGED <<trades, row, stats, start, astray>>,
         \A p \in Positions : FullyClosed(p)' <=> FullyClosed(p),
         \A p \in Positions : life[p] \in {"open", "closed", "wiped"} => life'[p] = life[p]
  PROVE  BookInv'
<1>1. task'[a].pc = pc /\ \A b \in Tasks : b # a => task'[b] = task[b]
  BY Proceeds DEF BookInv, PosInv
<1>2. ~Owes(a)'
  BY <1>1 DEF Owes
<1>3. \A b \in Closers : /\ Owes(b)' => Owes(b) /\ task'[b].pos = task[b].pos
                         /\ Owes(b) => Owes(b)'
  BY <1>1, <1>2, NobodyOwesMore
<1> QED
  BY <1>3, QuietStep

LEMMA BookOrders ==
  ASSUME BookInv, EntryInv, PosInv', LoopSizes \/ \E a \in Tasks : Opens(a) \/ Refused(a)
  PROVE  BookInv'
<1> USE DEF tables, memory
<1>1. CASE LoopSizes
  <2>1. /\ "loop" \in Tasks /\ ~Owes("loop") /\ task["loop"].pc = "sizing"
        /\ UNCHANGED <<life, trades, row, stats, start, astray>>
    BY <1>1 DEF LoopSizes, Tasks, Closers, Owes
  <2>2. Proceed("loop", "idle") \/ Proceed("loop", "ordering")
    BY <1>1, <2>1 DEF LoopSizes, Proceed, BookInv, PosInv, Shape
  <2> QED
    BY <2>1, <2>2, BookGoesOn DEF FullyClosed
<1>2. ASSUME NEW a \in Tasks, Opens(a) \/ Refused(a) PROVE BookInv'
  <2>1. ~Owes(a) /\ UNCHANGED <<trades, row, stats, start, astray>>
    BY <1>2 DEF Opens, Refused, Owes
  <2>2. Proceed(a, "idle")
    BY <1>2 DEF Opens, Refused, Proceed
  <2>3. life[task[a].pos] = "new" /\ task[a].pos \in Positions
    BY <1>2 DEF Opens, Refused, EntryInv, BookInv, PosInv, Idle
  <2>4. \A p \in Positions : FullyClosed(p)' <=> FullyClosed(p)
    BY <1>2, <2>3 DEF Opens, Refused, FullyClosed, BookInv, PosInv
  <2>5. \A p \in Positions : life[p] \in {"open", "closed", "wiped"} => life'[p] = life[p]
    BY <1>2, <2>3 DEF Opens, Refused, BookInv, PosInv
  <2> QED
    BY <2>1, <2>2, <2>4, <2>5, BookGoesOn
<1> QED
  BY <1>1, <1>2

\* The closes: a part that is taken is no outcome yet.
LEMMA BookCloses ==
  ASSUME BookInv, PosInv', NEW p \in Positions, Close(p) PROVE BookInv'
<1>1. CASE LoopTakesPart(p)
  <2>1. PICK pnl \in Pnls : Book("loop", p, pnl, FALSE, FALSE, "flush")
    BY <1>1 DEF LoopTakesPart
  <2> DEFINE t == [pc |-> "flush", pos |-> p, stop |-> FALSE, pnl |-> pnl]
  <2>2. /\ task' = [task EXCEPT !["loop"] = t] /\ t.pc = "flush" /\ task["loop"] = Idle
        /\ life[p] = "open" /\ life' = [life EXCEPT ![p] = "open"]
        /\ trades' = [trades EXCEPT ![p] = Append(trades[p], pnl)]
        /\ UNCHANGED <<row, stats, start, astray>>
    BY <2>1 DEF Book, Closable
  <2> HIDE DEF t
  <2>3. "loop" \in Tasks /\ task'["loop"] = t /\ \A b \in Tasks : b # "loop" => task'[b] = task[b]
    BY <2>2, Becomes DEF BookInv, PosInv, Tasks, Closers
  <2>4. ~Owes("loop")' /\ ~Owes("loop")
    BY <2>2, <2>3 DEF Owes, Idle
  <2>5. \A b \in Closers : /\ Owes(b)' => Owes(b) /\ task'[b].pos = task[b].pos
                           /\ Owes(b) => Owes(b)'
    BY <2>3, <2>4, NobodyOwesMore
  <2>6. \A q \in Positions : life'[q] = life[q]
    BY <2>2 DEF BookInv, PosInv
  <2>7. \A q \in Positions : FullyClosed(q) => trades'[q] = trades[q]
    BY <2>2 DEF FullyClosed, BookInv, PosInv
  <2> QED
    BY <2>2, <2>5, <2>6, <2>7, QuietStep DEF FullyClosed
<1>2. CASE LoopCloses(p)
  BY <1>2, CloseStep DEF LoopCloses, Closers
<1>3. CASE ReportCloses(p)
  BY <1>3, CloseStep DEF ReportCloses, Closers
<1>4. CASE DashboardCloses(p)
  BY <1>4, CloseStep DEF DashboardCloses, Closers
<1>5. CASE ExchangeCloses(p)
  BY <1>5, CloseStep DEF ExchangeCloses, Closers
<1> QED
  BY <1>1, <1>2, <1>3, <1>4, <1>5 DEF Close

\* A closer goes on without telling: it owes what it owed, or there is no row, or
\* the channel goes astray.
LEMMA CloserGoesOn ==
  ASSUME BookInv, PosInv', NEW a \in Closers, NEW pc, Proceed(a, pc), task[a] # Idle,
         UNCHANGED <<life, trades, row, stats, start>>, astray \subseteq astray',
         pc = "idle" \/ pc \in {"cooldown", "guard", "streak", "link", "flush", "tally"},
         Owes(a)' => Owes(a),
         Owes(a) /\ ~Owes(a)' /\ row[task[a].pos] # "none" => SourceOf[task[a].pos] \in astray'
  PROVE  BookInv'
<1>1. /\ a \in Tasks /\ task'[a].pc = pc /\ \A b \in Tasks : b # a => task'[b] = task[b]
      /\ pc # "idle" => task'[a].pos = task[a].pos
  BY Proceeds DEF BookInv, PosInv, Tasks
<1>2. Owes(a)' => pc # "idle"
  BY <1>1 DEF Owes
<1>3. ASSUME NEW b \in Closers, b # a PROVE (Owes(b)' <=> Owes(b)) /\ task'[b].pos = task[b].pos
  BY <1>1, <1>3 DEF Owes, Tasks
<1> QED
  BY <1>1, <1>2, <1>3, QuietStep DEF FullyClosed

\* A closer that gives up what it owes.
LEMMA BookUntold ==
  ASSUME BookInv, PosInv', NEW a \in Closers, NEW pc \in {"idle", "flush"}, Proceed(a, pc),
         task[a] # Idle, pc = "flush" => a # "dashboard",
         UNCHANGED <<life, trades, row, stats, start>>, Untold(a), Owes(a)
  PROVE  BookInv'
<1>1. task'[a].pc = pc
  BY Proceeds DEF BookInv, PosInv, Tasks
<1>2. ~Owes(a)'
  BY <1>1 DEF Owes
<1>3. task[a].pos \in Positions
  BY OwedPosition DEF BookInv
<1>4. row[task[a].pos] # "none" => SourceOf[task[a].pos] \in astray'
  BY <1>3 DEF Untold, Source, BookInv, RowInv
<1>5. astray \subseteq astray'
  BY DEF Untold
<1> QED
  BY <1>2, <1>4, <1>5, CloserGoesOn

LEMMA BookOnClose ==
  ASSUME BookInv, LockInv, PosInv', NEW a \in Closers, OnClose(a) PROVE BookInv'
<1> USE DEF tables, memory
<1>1. /\ task[a] # Idle /\ UNCHANGED <<life, trades, row, stats, start>>
  BY DEF OnClose, WritesEvent, Cooldown, Guard, Streak, CommitFails, Idle
<1>2. CASE CommitFails(a)
  <2>1. CASE Owes(a)
    BY <1>1, <1>2, <2>1, BookUntold DEF CommitFails
  <2>2. CASE ~Owes(a)
    <3>1. Proceed(a, "idle") /\ astray \subseteq astray'
      BY <1>2 DEF CommitFails, Untold
    <3>2. task'[a].pc = "idle"
      BY <3>1, Proceeds DEF BookInv, PosInv, Tasks
    <3>3. ~Owes(a)'
      BY <3>2 DEF Owes
    <3> QED
      BY <1>1, <2>2, <3>1, <3>3, CloserGoesOn
  <2> QED
    BY <2>1, <2>2
<1>3. CASE ~CommitFails(a)
  <2>1. /\ AfterGuard(a) \in {"streak", "link"} /\ astray' = astray /\ a # "dashboard"
        /\ task[a].pc \in {"event", "cooldown", "guard", "streak"}
    BY <1>3 DEF AfterGuard, OnClose, WritesEvent, Cooldown, Guard, Streak, LockInv, OthersInv,
                Protects
  <2>2. PICK pc \in {"cooldown", "guard", "streak", "link"} : Proceed(a, pc)
    BY <1>3, <2>1 DEF OnClose, WritesEvent, Cooldown, Guard, Streak
  <2>3. task'[a].pc = pc
    BY <2>2, Proceeds DEF BookInv, PosInv, Tasks
  <2>4. Owes(a) /\ Owes(a)'
    BY <2>1, <2>3 DEF Owes
  <2> QED
    BY <1>1, <2>1, <2>2, <2>4, CloserGoesOn
<1> QED
  BY <1>2, <1>3

\* A closer that tells what it owes, when there is a row.
LEMMA BookTells ==
  ASSUME BookInv, PosInv', NEW a \in Closers, Owes(a), NEW pc \in {"idle", "flush"},
         Proceed(a, pc), a = "dashboard" => pc = "idle", UNCHANGED <<life, trades, start>>,
         astray \subseteq astray', NEW good \in BOOLEAN,
         SourceOf[task[a].pos] \in astray' \/ (good <=> Good(task[a].pos))
           \/ row[task[a].pos] = "none",
         row[task[a].pos] = "none" => UNCHANGED <<row, stats>>,
         row[task[a].pos] # "none" => /\ row' = [row EXCEPT ![task[a].pos] = "linked"]
                                      /\ Tally(SourceOf[task[a].pos], good)
  PROVE  BookInv'
<1> DEFINE p == task[a].pos
<1>1. p \in Positions /\ a \in Tasks /\ task[a] # Idle
  BY OwedPosition DEF BookInv
<1>2. task'[a].pc = pc /\ \A b \in Tasks : b # a => task'[b] = task[b]
  BY <1>1, Proceeds DEF BookInv, PosInv
<1>3. ~Owes(a)'
  BY <1>2 DEF Owes
<1>4. ASSUME NEW b \in Closers, b # a PROVE (Owes(b)' <=> Owes(b)) /\ task'[b].pos = task[b].pos
  BY <1>2, <1>4 DEF Owes, Tasks
<1>5. CASE row[p] = "none"
  BY <1>1, <1>3, <1>5, CloserGoesOn
<1>6. CASE row[p] # "none"
  BY <1>3, <1>4, <1>6, TallyStep
<1> QED
  BY <1>5, <1>6

LEMMA BookLinks ==
  ASSUME BookInv, LockInv, PosInv', NEW a \in Closers, Link(a) \/ LinkFails(a) \/ Flush(a)
  PROVE  BookInv'
<1> USE DEF tables, memory
<1>1. CASE Link(a) \/ LinkFails(a)
  <2>1. a # "dashboard" /\ Owes(a) /\ task[a] # Idle
    BY <1>1 DEF Link, LinkFails, LockInv, OthersInv, Owes, Idle
  <2>2. AfterLink(a) \in {"idle", "flush"}
    BY DEF AfterLink
  <2>3. CASE LinkFails(a)
    BY <2>1, <2>2, <2>3, BookUntold DEF LinkFails
  <2>4. CASE Link(a)
    <3>1. row[task[a].pos] # "linked"
      BY <2>1 DEF BookInv, OwesInv
    <3>2. SignalWasGood(a) \in BOOLEAN /\ (SignalWasGood(a) <=> Good(task[a].pos))
      BY DEF SignalWasGood, Good
    <3> QED
      BY <2>1, <2>2, <2>4, <3>1, <3>2, BookTells DEF Link
  <2> QED
    BY <1>1, <2>3, <2>4
<1>2. CASE Flush(a)
  <2>1. task[a].pc = "flush" /\ task[a] # Idle /\ UNCHANGED <<life, trades, row, stats, start, astray>>
    BY <1>2 DEF Flush, Idle
  <2>2. CASE a = "dashboard"
    <3>1. Proceed(a, "tally")
      BY <1>2, <2>2 DEF Flush
    <3>2. task'[a].pc = "tally"
      BY <3>1, Proceeds DEF BookInv, PosInv, Tasks
    <3>3. Owes(a) /\ Owes(a)'
      BY <2>1, <2>2, <3>2 DEF Owes
    <3> QED
      BY <2>1, <3>1, <3>3, CloserGoesOn
  <2>3. CASE a # "dashboard"
    <3>1. Proceed(a, "idle")
      BY <1>2, <2>3 DEF Flush
    <3>2. task'[a].pc = "idle"
      BY <3>1, Proceeds DEF BookInv, PosInv, Tasks
    <3>3. ~Owes(a) /\ ~Owes(a)'
      BY <2>1, <2>3, <3>2 DEF Owes
    <3> QED
      BY <2>1, <3>1, <3>3, CloserGoesOn
  <2> QED
    BY <2>2, <2>3
<1> QED
  BY <1>1, <1>2

LEMMA BookDesk == ASSUME BookInv, PosInv', DashboardTallies PROVE BookInv'
<1> DEFINE a == "dashboard"
           good == Result(a) > 0
<1>1. a \in Closers /\ Owes(a) /\ Proceed(a, "idle") /\ UNCHANGED <<life, trades, start>>
  BY DEF DashboardTallies, Closers, Owes
<1>2. good \in BOOLEAN /\ task[a].pos \in Positions
  BY <1>1, OwedPosition DEF BookInv
<1>3. /\ row[task[a].pos] = "none" => UNCHANGED <<row, stats, astray>>
      /\ row[task[a].pos] # "none" => /\ row' = [row EXCEPT ![task[a].pos] = "linked"]
                                       /\ Tally(SourceOf[task[a].pos], good)
                                       /\ IF good = Good(task[a].pos) THEN UNCHANGED astray
                                          ELSE Untold(a)
  BY DEF DashboardTallies
<1>4. astray \subseteq astray'
  BY <1>3 DEF Untold
<1>5. row[task[a].pos] # "none" =>
        SourceOf[task[a].pos] \in astray' \/ (good <=> Good(task[a].pos))
  BY <1>2, <1>3 DEF Untold, Source, BookInv, RowInv
<1> HIDE DEF a, good
<1> QED
  BY <1>1, <1>2, <1>3, <1>4, <1>5, BookTells

LEMMA BookAtTheStart == Init => BookInv /\ EntryInv
<1> SUFFICES ASSUME Init PROVE BookInv /\ EntryInv
  OBVIOUS
<1>1. \A a \in Tasks : task[a] = Idle
  BY DEF Init
<1>2. EntryInv /\ \A a \in Closers : ~Owes(a)
  BY <1>1 DEF EntryInv, Owes, Idle, Tasks
<1>3. RowInv /\ OwesInv
  BY <1>2 DEF Init, RowInv, OwesInv, FullyClosed
<1>4. CountInv
  BY DEF Init, CountInv, NoStats, Nothing, Scores
<1> QED
  BY <1>2, <1>3, <1>4, PosAtTheStart DEF BookInv

LEMMA BookSteps ==
  ASSUME BookInv, LockInv, EntryInv, [Next]_vars PROVE BookInv'
<1> USE DEF tables, memory
<1>1. PosInv'
  BY PosSteps DEF BookInv
<1>2. CASE Restore \/ Restart \/ Resets \/ Clears
  BY <1>1, <1>2, RestoreStep, RestartStep, WipeStep DEF Resets, Clears
<1>3. CASE Expires \/ UNCHANGED vars
  BY <1>1, <1>3, BookKept DEF Expires, vars
<1>4. ASSUME NEW p \in Positions, Enter(p) \/ Close(p) PROVE BookInv'
  BY <1>1, <1>4, BookEntries, BookCloses
<1>5. CASE LoopSizes \/ \E a \in Tasks : Opens(a) \/ Refused(a)
  BY <1>1, <1>5, BookOrders
<1>6. ASSUME NEW a \in Closers, OnClose(a) \/ Link(a) \/ LinkFails(a) \/ Flush(a) PROVE BookInv'
  BY <1>1, <1>6, BookOnClose, BookLinks
<1>7. CASE DashboardTallies
  BY <1>1, <1>7, BookDesk
<1> QED
  BY <1>2, <1>3, <1>4, <1>5, <1>6, <1>7 DEF Next

(* While nobody owes it an outcome, the record of every channel that no step  *)
(* has led astray is what a restart would restore: for any positions, any     *)
(* parts of any result, and any number of failures, resets and restarts.      *)
THEOREM RecordsAgree == Spec => []StatsAgree
<1>1. Init => BookInv /\ LockInv /\ EntryInv
  BY BookAtTheStart, AtTheStart
<1>2. BookInv /\ LockInv /\ EntryInv /\ [Next]_vars => BookInv' /\ LockInv' /\ EntryInv'
  BY BookSteps, Steps, EntrySteps DEF BookInv
<1>3. BookInv => StatsAgree
  <2> SUFFICES ASSUME BookInv, Ready, NEW c \in Channels \ astray,
                      \A p \in Owed : SourceOf[p] # c
               PROVE  stats[c] = Recorded[c]
    BY DEF StatsAgree
  <2>1. Told(c) = Counted(c)
    BY DEF Told, Counted
  <2>2. Recorded[c] = Truth(c)
    BY <2>1 DEF Recorded, Truth, GoodTold, BadTold
  <2>3. Held(c) = stats[c] /\ Held(c) = Truth(c)
    BY DEF Ready, Held, BookInv, CountInv
  <2> QED
    BY <2>2, <2>3
<1> QED
  BY <1>1, <1>2, <1>3, PTL DEF Spec
=============================================================================
