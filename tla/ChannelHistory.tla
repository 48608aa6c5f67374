--------------------------- MODULE ChannelHistory ---------------------------
(***************************************************************************)
(* The history of a Telegram channel as material to learn from.  The       *)
(* operator presses a button on the dashboard to fetch older messages      *)
(* (src/telegram/history_backfill.py), and another one to replay the       *)
(* signals among them against the candles of the exchange                  *)
(* (src/telegram/signal_outcome_simulation.py).  The cursor of the first   *)
(* is the oldest message stored; nothing else remembers how far it came.   *)
(*                                                                         *)
(* One channel; its messages are numbered in the order they were posted.   *)
(***************************************************************************)
EXTENDS SignalLabels

CONSTANTS
  Length,    \* messages ever posted
  Kind,      \* what each is: "bare" (no text), "report", "signal" or "chatter"
  Plan,      \* what a signal says, as SignalLabels takes it
  Limit,     \* messages a press of the first button fetches
  SimLimit,  \* signals a press of the second button replays
  Presses,   \* requests to replay that may run at the same time
  NoCandles, \* signals whose pair the exchange has no candles of
  Candles,   \* what the hours after a signal may close at: sequences of prices
  MaxWaiting,\* bound: presses that wait for the lock
  MaxFaults  \* bound: failed requests, failed writes and restarts

MessageIds == 1..Length
Texts == {i \in MessageIds : Kind[i] # "bare"}

ASSUME HistoryAssumption ==
  /\ Length \in Nat \ {0}
  /\ Kind \in [MessageIds -> {"bare", "report", "signal", "chatter"}]
  /\ Limit \in Nat \ {0} /\ SimLimit \in Nat \ {0}
  /\ MaxWaiting \in Nat /\ MaxFaults \in Nat
  /\ Candles \subseteq Seq(Int)

\* What parse_telegram_signal finds in a signal with an entry and a stop; extract_tp_weights makes
\* the shares one whole position.
ASSUME PlanAssumption ==
  \A i \in MessageIds : Kind[i] = "signal" /\ Plan[i].entry # NoPrice /\ Plan[i].sl # NoPrice =>
    /\ {Plan[i].entry, Plan[i].sl} \subseteq Int
    /\ Plan[i].tp \in Int \cup {NoPrice} /\ Plan[i].targets \in Seq(Int)
    /\ Plan[i].side \in {"long", "short"} /\ Plan[i].breakeven \in BOOLEAN
    /\ Plan[i].weights \in Seq(Nat)
    /\ Plan[i].weights # <<>> => SoldInOrder(Plan[i].weights)[Len(Plan[i].weights)] = Whole

VARIABLES
  newest,  \* the number of messages posted so far
  status,  \* HistoricalSignal.parse_status, "none" where there is no row
  label,   \* what the replay has left in the row
  run,     \* the request that holds the channel's lock (_channel_locks)
  waiting, \* the presses that wait for it
  reached, \* reached_channel_start, as the last request has answered
  replay,  \* what the replay of each signal comes to: the closes of the
           \* hours after it, and so its label, are fixed from the beginning
  sims,    \* the requests to replay: the signals each has still to go through,
           \* and whether it has the candles of the first of them
  faults   \* failures so far

backfill == <<run, waiting, reached>>
vars == <<newest, status, label, backfill, replay, sims, faults>>

Idle == [step |-> "idle"]
NoRequest == [todo |-> {}, fetched |-> FALSE]
Stored == {i \in MessageIds : status[i] # "none"}
Fault == faults < MaxFaults /\ faults' = faults + 1

\* What parse_telegram_signal makes of a message with a text.  A signal the regular expressions do
\* not know depends on the language models and may stay unparsed.
ParseStatus(i) ==
  CASE Kind[i] = "report"  -> {"closed_report"}
    [] Kind[i] = "signal"  -> {"parsed", "unparsed"}
    [] OTHER               -> {"unparsed"}

Replayed == {i \in MessageIds : Kind[i] = "signal" /\ Plan[i].entry # NoPrice
                                /\ Plan[i].sl # NoPrice} \ NoCandles

Init ==
  /\ newest = 1
  /\ status = [i \in MessageIds |-> "none"] /\ label = [i \in MessageIds |-> NoLabel]
  /\ run = Idle /\ waiting = 0 /\ reached = FALSE
  /\ \E closes \in [Replayed -> Candles] :
       replay = [i \in Replayed |-> Simulate(Plan[i], closes[i])]
  /\ sims = [p \in Presses |-> NoRequest]
  /\ faults = 0

\* The channel goes on.
Post ==
  /\ newest < Length
  /\ newest' = newest + 1
  /\ UNCHANGED <<status, label, backfill, replay, sims, faults>>
-----------------------------------------------------------------------------
(* Fetching the history.  The button may be pressed at any time; requests  *)
(* for the same channel wait for its lock.                                 *)

Press ==
  /\ waiting < MaxWaiting
  /\ waiting' = waiting + 1
  /\ UNCHANGED <<newest, status, label, run, reached, replay, sims, faults>>

Locks ==
  /\ run = Idle /\ waiting > 0
  /\ run' = [step |-> "reads"] /\ waiting' = waiting - 1
  /\ reached' = FALSE
  /\ UNCHANGED <<newest, status, label, replay, sims, faults>>

Ends(answer) == run' = Idle /\ reached' = answer

\* No client, no such channel, no answer, or a row that cannot be written.
Fails ==
  /\ run # Idle /\ Fault
  /\ Ends(FALSE)
  /\ UNCHANGED <<newest, status, label, waiting, replay, sims>>

\* Mutant: the newest message stored is taken for the cursor.
IsCursorNewest(c) == \/ c = 0 /\ Stored = {}
                     \/ c \in Stored /\ \A i \in Stored : c >= i
\* MIN(telegram_message_id), 0 when nothing is stored.
IsCursor(c) == \/ c = 0 /\ Stored = {}
               \/ c \in Stored /\ \A i \in Stored : c <= i

Reads ==
  /\ run.step = "reads"
  /\ \E c \in 0..Length : IsCursor(c) /\ run' = [step |-> "fetches", before |-> c]
  /\ UNCHANGED <<newest, status, label, waiting, reached, replay, sims, faults>>

\* Mutant: a full answer is taken for the start of the channel.
FetchesAll ==
  LET next == IF run.before = 0 THEN newest ELSE run.before - 1
      last == IF next > Limit THEN next - Limit + 1 ELSE 1
  IN  /\ run.step = "fetches"
      /\ IF next = 0 THEN Ends(TRUE)
         ELSE /\ run' = [step |-> "stores", next |-> next, last |-> last,
                         start |-> next - last + 1 <= Limit]
              /\ UNCHANGED reached
      /\ UNCHANGED <<newest, status, label, waiting, replay, sims, faults>>

\* get_messages: from the newest, or from just below the cursor, down.
Fetches ==
  LET next == IF run.before = 0 THEN newest ELSE run.before - 1
      last == IF next > Limit THEN next - Limit + 1 ELSE 1
  IN  /\ run.step = "fetches"
      /\ IF next = 0 THEN Ends(TRUE)
         ELSE /\ run' = [step |-> "stores", next |-> next, last |-> last,
                         start |-> next - last + 1 < Limit]
              /\ UNCHANGED reached
      /\ UNCHANGED <<newest, status, label, waiting, replay, sims, faults>>

\* One message after the other, newest first, each committed for itself.  One without a text is
\* left out.
Stores ==
  /\ run.step = "stores"
  /\ IF Kind[run.next] = "bare" \/ run.next \in Stored THEN UNCHANGED status
     ELSE \E s \in ParseStatus(run.next) : status' = [status EXCEPT ![run.next] = s]
  /\ IF run.next = run.last THEN Ends(run.start)
     ELSE run' = [run EXCEPT !.next = @ - 1] /\ UNCHANGED reached
  /\ UNCHANGED <<newest, label, waiting, replay, sims, faults>>
-----------------------------------------------------------------------------
(* Replaying the signals.  Nothing keeps two requests apart.               *)

Eligible(i) == /\ status[i] = "parsed" /\ label[i] = NoLabel
               /\ Plan[i].entry # NoPrice /\ Plan[i].sl # NoPrice

\* The oldest signals without a label, as many as a request takes.
SimTodo ==
  {i \in MessageIds : Eligible(i) /\ Cardinality({j \in MessageIds : j < i /\ Eligible(j)}) < SimLimit}

SimStarts(p) ==
  /\ sims[p] = NoRequest /\ SimTodo # {}
  /\ sims' = [sims EXCEPT ![p] = [todo |-> SimTodo, fetched |-> FALSE]]
  /\ UNCHANGED <<newest, status, label, backfill, replay, faults>>

\* A request takes its signals from the oldest on.
Current(p) == Min(sims[p].todo)
GoesOn(p) ==
  sims' = [sims EXCEPT ![p] = [todo |-> sims[p].todo \ {Current(p)}, fetched |-> FALSE]]

\* load_markets fails, or a row cannot be written.
SimFails(p) ==
  /\ sims[p] # NoRequest /\ Fault
  /\ sims' = [sims EXCEPT ![p] = NoRequest]
  /\ UNCHANGED <<newest, status, label, backfill, replay>>

\* Mutant: a signal without candles ends the request.
SimGivesUp(p) ==
  /\ sims[p] # NoRequest /\ ~sims[p].fetched
  /\ \/ /\ Current(p) \notin NoCandles
        /\ sims' = [sims EXCEPT ![p].fetched = TRUE]
        /\ UNCHANGED faults
     \/ /\ Current(p) \in NoCandles
        /\ sims' = [sims EXCEPT ![p] = NoRequest]
        /\ UNCHANGED faults
     \/ /\ Current(p) \notin NoCandles /\ Fault
        /\ GoesOn(p)
  /\ UNCHANGED <<newest, status, label, backfill, replay>>

\* fetch_ohlcv: without an answer the signal is left for another time.
SimFetches(p) ==
  /\ sims[p] # NoRequest /\ ~sims[p].fetched
  /\ \/ /\ Current(p) \notin NoCandles
        /\ sims' = [sims EXCEPT ![p].fetched = TRUE]
        /\ UNCHANGED faults
     \/ /\ Current(p) \in NoCandles
        /\ GoesOn(p)
        /\ UNCHANGED faults
     \/ /\ Current(p) \notin NoCandles /\ Fault
        /\ GoesOn(p)
  /\ UNCHANGED <<newest, status, label, backfill, replay>>

\* The row is written whatever it holds by now.
SimWrites(p) ==
  /\ sims[p].fetched
  /\ label' = [label EXCEPT ![Current(p)] = replay[Current(p)]]
  /\ GoesOn(p)
  /\ UNCHANGED <<newest, status, backfill, replay, faults>>

Sim(p) == SimStarts(p) \/ SimFails(p) \/ SimFetches(p) \/ SimWrites(p)
-----------------------------------------------------------------------------
\* The rows stay, everything else is gone.
Restart ==
  /\ Fault
  /\ run' = Idle /\ waiting' = 0 /\ reached' = FALSE
  /\ sims' = [p \in Presses |-> NoRequest]
  /\ UNCHANGED <<newest, status, label, replay>>

Next ==
  \/ Post \/ Press \/ Locks \/ Fails \/ Reads \/ Fetches \/ Stores \/ Restart
  \/ \E p \in Presses : Sim(p)

Spec == Init /\ [][Next]_vars

\* Both buttons are pressed again and again, as their descriptions ask for.
Fairness ==
  /\ WF_vars(Press) /\ WF_vars(Locks) /\ WF_vars(Reads) /\ WF_vars(Fetches) /\ WF_vars(Stores)
  /\ \A p \in Presses : /\ WF_vars(SimStarts(p)) /\ WF_vars(SimFetches(p))
                        /\ WF_vars(SimWrites(p))
FairSpec == Spec /\ Fairness
-----------------------------------------------------------------------------
(* Properties.                                                             *)

\* Every text older than one that is stored and newer than x is stored.
WholeAbove(x) ==
  \A i \in Texts : (x < i /\ \E c \in Stored : i < c) => i \in Stored

\* The stored part of the history has no holes, whatever is posted, fails or restarts meanwhile:
\* the cursor is its lower end and nothing above it is asked for again.  And when a request has
\* answered that the start of the channel is reached, nothing older is missing.
NoHoles == \A o \in Stored : WholeAbove(o)
HistoryIsWhole == NoHoles /\ (reached => WholeAbove(0))

\* Pressing the button long enough brings every text older than one that is stored.  That needs
\* fewer messages without text in a row than a request fetches: such a row would be fetched again
\* by every press.
Backfilled ==
  \A i \in Texts : (\E c \in Stored : i < c) ~> (i \in Stored)

\* Every signal the exchange has candles for gets its label, although signals it has none for stay
\* at the head of the queue.  That needs fewer of them than a request takes.
Labelled ==
  \A i \in MessageIds \ NoCandles : Eligible(i) ~> (label[i] # NoLabel)

\* The rows build_signal_quality_training_data learns from.
TrainingSet ==
  {i \in Stored : label[i] # NoLabel /\ label[i].outcome \in Resolved /\ HasFeatures(Plan[i])}

\* What the classifier learns is sound, however the price jumps over targets, which may make one
\* level count twice: where the shares do not grow from target to target, no replay sells more than
\* the position, and where the targets lie where the trade wins, the target of the classifier is 1
\* exactly for signals that have lost.
LearnsSoundLabels ==
  \A i \in TrainingSet :
    /\ SharesDecline(Plan[i]) => label[i].sold <= Whole
    /\ Sensible(Plan[i]) => (TargetOf(label[i]) = 1 <=> label[i].gain < 0)
=============================================================================
