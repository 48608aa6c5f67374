--------------------------- MODULE MCChannelIntake --------------------------
(* Two channels, and messages of every kind: a plain signal, one only a     *)
(* model can read, reports of profits and of a stop, pictures bare and with *)
(* a text, and a stop report that names no pair.                            *)
EXTENDS ChannelIntake, TLC

TwoChats == "c1" :> "x1" @@ "c2" :> "x2"

Said(chat, marks, pairs, photo) ==
  [chat |-> chat, photo |-> photo, text |-> [marks |-> marks, pairs |-> pairs]]

SomeContents == {
  Said("x1", {"short", "entry"}, 2 :> "p", FALSE),
  Said("x1", {"words", "long"}, 4 :> "p", FALSE),
  Said("x1", {"stop hit"}, <<>>, FALSE),
  Said("x2", {"long", "entry", "target hit", "profit", "percent"}, 1 :> "p", FALSE),
  Said("x2", {"stop hit", "long", "number"}, 1 :> "p" @@ 5 :> "q", FALSE),
  Said("x1", {"long", "market"}, 5 :> "q", TRUE),
  Said("x2", {}, <<>>, TRUE) }
=============================================================================
