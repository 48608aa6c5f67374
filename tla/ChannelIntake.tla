---------------------------- MODULE ChannelIntake ---------------------------
(***************************************************************************)
(* The Telegram channels the bot listens to and the way of a message from  *)
(* a channel to the trading loop (src/telegram/channel_monitor.py).  The   *)
(* list of channels is in the database; _monitored, the chats heard, is    *)
(* filled from it at start-up (src/main.py) and kept in step with it by    *)
(* the dashboard's requests (src/web/api.py), each of which lets others    *)
(* run while the name of a channel is looked up.  Meanwhile messages are   *)
(* read, each by its own task, which for language models may take minutes. *)
(***************************************************************************)
EXTENDS SignalText

CONSTANTS
  Channels, \* names of channels, as the dashboard takes them
  Chats,    \* what names stand for
  Chat,     \* the chat of each name
  Messages,
  Contents, \* what they may be: the chat, the text and whether there is a picture
  Fallback, \* telegram_llm_fallback_enabled
  Keys,     \* the language models there is a key for
  NoChannel,
  MaxRows,  \* bound: rows ever created
  MaxRestarts \* bound: restarts of the process

ASSUME IntakeAssumption ==
  /\ Chat \in [Channels -> Chats]
  /\ \A c, d \in Channels : Chat[c] = Chat[d] => c = d
  /\ NoChannel \notin Channels
  /\ \A x \in Contents : x.chat \in Chats
  /\ Fallback \in BOOLEAN
  /\ MaxRows \in Nat /\ MaxRestarts \in Nat

VARIABLES
  rows,     \* the id of a channel's row (TelegramChannel), 0 without one
  made,     \* rows created so far
  ids,      \* _telegram_channel_db_ids, 0 for a name it does not hold
  heard,    \* _monitored
  client,   \* _telegram_client is there
  stage,    \* how far the start-up is
  todo,     \* the channels it has still to look up
  adding,   \* rows just created whose names are being looked up
  deleting, \* channels whose rows are gone and that are not yet taken off, with the row that went
  live,     \* channels some look-up of which has succeeded since they were added or the process started
  crossed,  \* for the properties: channels a request met while another or a look-up was busy with them
  flight,   \* where each message is; row is that of its channel when it came, for the properties
  restarts  \* restarts so far

listed == <<rows, made, restarts>>
memory == <<ids, heard, client, stage, todo, adding, deleting, live, crossed>>
intakeVars == <<listed, memory, flight>>

TypeOK ==
  /\ rows \in [Channels -> 0..MaxRows] /\ ids \in [Channels -> 0..MaxRows]
  /\ heard \in [Chats -> Channels \cup {NoChannel}]
  /\ client \in BOOLEAN
  /\ stage \in {"init", "read", "lookup"} /\ todo \subseteq Channels
  /\ adding \subseteq Channels \X (1..MaxRows)
  /\ deleting \subseteq Channels \X (1..MaxRows)
  /\ live \subseteq Channels /\ crossed \subseteq Channels
  /\ made \in 0..MaxRows /\ restarts \in 0..MaxRestarts

Unposted == [step |-> "unposted"]

IntakeInit ==
  /\ rows = [c \in Channels |-> 0] /\ made = 0 /\ restarts = 0
  /\ ids = [c \in Channels |-> 0] /\ heard = [x \in Chats |-> NoChannel]
  /\ client = FALSE /\ stage = "init" /\ todo = {}
  /\ adding = {} /\ deleting = {} /\ live = {} /\ crossed = {}
  /\ flight = [m \in Messages |-> Unposted]
-----------------------------------------------------------------------------
(* The list of channels.                                                   *)

\* A look-up or a request about the channel is not over yet.
Busy(c) == c \in todo \/ \E n \in 1..MaxRows : <<c, n>> \in adding \cup deleting

\* A request about a channel that something is busy with: from here on its look-up may be entered
\* after the channel was taken off, or it may be taken off after it was entered anew.
Crosses(c) == crossed' = IF Busy(c) THEN crossed \cup {c} ELSE crossed

\* init_telegram, which may fail.
Connects ==
  /\ stage = "init"
  /\ client' \in BOOLEAN
  /\ stage' = IF client' THEN "read" ELSE "lookup"
  /\ UNCHANGED <<listed, ids, heard, todo, adding, deleting, live, crossed, flight>>

\* _start_telegram_monitoring takes the list once.
ReadsList ==
  /\ stage = "read"
  /\ stage' = "lookup" /\ todo' = {c \in Channels : rows[c] # 0}
  /\ ids' = rows
  /\ UNCHANGED <<listed, heard, client, adding, deleting, live, crossed, flight>>

\* get_entity has answered.
FoundAt(c) == heard' = [heard EXCEPT ![Chat[c]] = c] /\ live' = live \cup {c}

\* monitor_channels: a name that cannot be looked up is passed over.
LooksUp(c) ==
  /\ stage = "lookup" /\ c \in todo
  /\ todo' = todo \ {c}
  /\ FoundAt(c) \/ UNCHANGED <<heard, live>>
  /\ UNCHANGED <<listed, ids, client, stage, adding, deleting, crossed, flight>>

\* create_telegram_channel.
Creates(c) ==
  /\ rows[c] = 0 /\ made < MaxRows
  /\ Crosses(c)
  /\ made' = made + 1 /\ rows' = [rows EXCEPT ![c] = made + 1]
  /\ adding' = adding \cup {<<c, made + 1>>}
  /\ UNCHANGED <<ids, heard, client, stage, todo, deleting, live, flight, restarts>>

\* Mutant: the id of the row is not kept.
AddsUnknown(c, n) ==
  /\ <<c, n>> \in adding
  /\ adding' = adding \ {<<c, n>>}
  /\ \/ client /\ FoundAt(c) /\ UNCHANGED ids
     \/ UNCHANGED <<heard, live, ids>>
  /\ UNCHANGED <<listed, client, stage, todo, deleting, crossed, flight>>

\* add_telegram_channel_to_live_monitoring, on the way of create_telegram_channel.
Adds(c, n) ==
  /\ <<c, n>> \in adding
  /\ adding' = adding \ {<<c, n>>}
  /\ \/ client /\ FoundAt(c) /\ ids' = [ids EXCEPT ![c] = n]
     \/ UNCHANGED <<heard, live, ids>>
  /\ UNCHANGED <<listed, client, stage, todo, deleting, crossed, flight>>

\* delete_telegram_channel: first the row,
Deletes(c) ==
  /\ rows[c] # 0
  /\ Crosses(c)
  /\ rows' = [rows EXCEPT ![c] = 0]
  /\ deleting' = deleting \cup {<<c, rows[c]>>}
  /\ UNCHANGED <<made, ids, heard, client, stage, todo, adding, live, flight, restarts>>

\* With a channel taken off that has no row and that nothing else is busy with, all is as before it
\* was first added.
Uncrosses(c) ==
  LET alone == c \notin todo /\ \A k \in 1..MaxRows : <<c, k>> \notin adding \cup deleting'
  IN  crossed' = IF rows[c] = 0 /\ alone THEN crossed \ {c} ELSE crossed

\* Mutant: only the id is dropped.
TakesOffId(c, n) ==
  /\ <<c, n>> \in deleting
  /\ deleting' = deleting \ {<<c, n>>} /\ live' = live \ {c}
  /\ ids' = [ids EXCEPT ![c] = 0] /\ Uncrosses(c)
  /\ UNCHANGED <<listed, heard, client, stage, todo, adding, flight>>

\* then the chat it is heard in, by the name that was heard.
TakesOff(c, n) ==
  /\ <<c, n>> \in deleting
  /\ deleting' = deleting \ {<<c, n>>} /\ live' = live \ {c}
  /\ heard' = [x \in Chats |-> IF heard[x] = c THEN NoChannel ELSE heard[x]]
  /\ ids' = [ids EXCEPT ![c] = 0] /\ Uncrosses(c)
  /\ UNCHANGED <<listed, client, stage, todo, adding, flight>>
-----------------------------------------------------------------------------
(* A message on its way.                                                   *)

End(x, as) == [step |-> "end", said |-> x, as |-> as]

\* The models that can be asked: the others return at once.
Asked(models) == IF Fallback THEN SelectSeq(models, LAMBDA p : p \in Keys) ELSE <<>>

Asking(x, c, row, models) ==
  IF Asked(models) = <<>> THEN End(x, "warned")
  ELSE [step |-> "asks", said |-> x, of |-> c, row |-> row, left |-> Asked(models)]

\* A text without a picture, and with one; pictures are read by models alone.
Read(x, c, row, image) ==
  IF ~image /\ parse_with_regex(x.text) # NotRead
  THEN [step |-> "judged", said |-> x, of |-> c, row |-> row]
  ELSE Asking(x, c, row, IF image THEN ForPictures ELSE ForTexts)

\* Mutant: a picture without a text is passed over.
HandledText(x, c, row, image) ==
  IF extract_stop_hit_pair(x.text) # NoPair THEN End(x, "stop")
  ELSE IF is_known_non_signal(x.text) \/ ~Speaks(x.text) THEN End(x, "silent")
  ELSE Read(x, c, row, image)

\* _handler and parse_telegram_signal up to the first request.
Handled(x, c, row, image) ==
  IF extract_stop_hit_pair(x.text) # NoPair THEN End(x, "stop")
  ELSE IF is_known_non_signal(x.text) \/ (~Speaks(x.text) /\ ~image) THEN End(x, "silent")
  ELSE Read(x, c, row, image)

Arrives(m) ==
  /\ flight[m] = Unposted
  /\ \E x \in Contents :
       LET c == heard[x.chat]
       IN  flight' = [flight EXCEPT ![m] =
             IF c = NoChannel THEN End(x, "unheard")
             ELSE IF x.photo /\ Fallback
             THEN [step |-> "downloads", said |-> x, of |-> c, row |-> rows[c]]
             ELSE Handled(x, c, rows[c], FALSE)]
  /\ UNCHANGED <<listed, memory>>

\* A picture that cannot be fetched is complained about, and the text read without it.
Downloads(m) ==
  LET f == flight[m]
  IN  /\ f.step = "downloads"
      /\ \/ flight' = [flight EXCEPT ![m] = Handled(f.said, f.of, f.row, TRUE)]
         \/ flight' = [flight EXCEPT ![m] = IF Speaks(f.said.text)
                                            THEN Handled(f.said, f.of, f.row, FALSE)
                                            ELSE End(f.said, "warned")]
      /\ UNCHANGED <<listed, memory>>

\* One model after the other, until one reads a signal or raises.
Asks(m) ==
  LET f == flight[m]
  IN  /\ f.step = "asks"
      /\ \E a \in Answers :
           LET read == ReadBy(Head(f.left), a)
           IN  flight' = [flight EXCEPT ![m] =
                 CASE read = "signal" ->
                        [step |-> "judged", said |-> f.said, of |-> f.of, row |-> f.row]
                   [] read = "raises" -> End(f.said, "raised")
                   [] OTHER           -> IF Tail(f.left) = <<>> THEN End(f.said, "warned")
                                         ELSE [f EXCEPT !.left = Tail(@)]]
      /\ UNCHANGED <<listed, memory>>

\* _get_channel_settings: the channel's own, or those for everything when its row is not found or
\* cannot be read.
Judges(m) ==
  LET f == flight[m]
  IN  /\ f.step = "judged"
      /\ \/ flight' = [flight EXCEPT ![m] =
              End(f.said, IF ids[f.of] # 0 /\ rows[f.of] = ids[f.of] THEN "channel" ELSE "global")]
         \/ ids[f.of] # 0 /\ flight' = [flight EXCEPT ![m] = End(f.said, "unread")]
      /\ UNCHANGED <<listed, memory>>

Passes(m) == Arrives(m) \/ Downloads(m) \/ Asks(m) \/ Judges(m)
-----------------------------------------------------------------------------
\* The rows stay; the messages on their way are lost.
IntakeRestart ==
  /\ restarts < MaxRestarts /\ restarts' = restarts + 1
  /\ ids' = [c \in Channels |-> 0] /\ heard' = [x \in Chats |-> NoChannel]
  /\ client' = FALSE /\ stage' = "init" /\ todo' = {}
  /\ adding' = {} /\ deleting' = {} /\ live' = {} /\ crossed' = {}
  /\ flight' = [m \in Messages |-> IF flight[m].step \in {"unposted", "end"} THEN flight[m]
                                   ELSE End(flight[m].said, "lost")]
  /\ UNCHANGED <<rows, made>>

IntakeNext ==
  \/ Connects \/ ReadsList \/ IntakeRestart
  \/ \E c \in Channels : \/ LooksUp(c) \/ Creates(c) \/ Deletes(c)
                         \/ \E n \in 1..MaxRows : Adds(c, n) \/ TakesOff(c, n)
  \/ \E m \in Messages : Passes(m)

IntakeSpec == IntakeInit /\ [][IntakeNext]_intakeVars
-----------------------------------------------------------------------------
(* Properties.                                                             *)

\* The dashboard's list tells what the bot listens to: a channel that no request and no look-up is
\* busy with is heard exactly when it is listed and a look-up of it has succeeded, and the id it is
\* known by is that of its row.  The code lets a request about a channel meet another or the look-up
\* of it: a channel deleted meanwhile may be heard until it is deleted once more or the process
\* restarts, and until then nothing is said of it.
HeardAsListed ==
  \A c \in Channels \ crossed : ~Busy(c) =>
    /\ heard[Chat[c]] = c <=> rows[c] # 0 /\ c \in live
    /\ heard[Chat[c]] = c => ids[c] = rows[c]

\* However long a message takes to be read, and whatever is done meanwhile about its channel, its
\* signal falls to the settings made for everything only when the row its channel had is gone or
\* cannot be read, or a request about the channel met another or its look-up.
JudgedByItsChannel ==
  [][\A m \in Messages :
       flight[m].step = "judged" /\ flight[m].of \notin crossed
         /\ flight'[m].step = "end" /\ flight'[m].as = "global" =>
         rows[flight[m].of] \notin {flight[m].row} \ {0}]_intakeVars

\* A message heard ends without a trace only when it is a report known to be no signal, or has
\* nothing that could be read; no report becomes a signal, whatever the models say of it; and a text
\* the expressions can read never depends on them, unless it comes with a picture.
NoSignalUnseen ==
  \A m \in Messages : flight[m].step = "end" =>
    LET x == flight[m].said
        as == flight[m].as
        report == is_known_non_signal(x.text) \/ extract_stop_hit_pair(x.text) # NoPair
        pictured == x.photo /\ Fallback
    IN  /\ as = "silent" => report \/ (~Speaks(x.text) /\ ~pictured)
        /\ as \in {"channel", "global", "unread"} => ~report
        /\ parse_with_regex(x.text) # NotRead /\ ~report /\ ~pictured =>
             as \notin {"silent", "warned", "raised"}
=============================================================================
