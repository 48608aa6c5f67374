---------------------------- MODULE MCSignalEntry ----------------------------
(***************************************************************************)
(* SignalEntry for TLC: one pair, on which the signal's handler, two       *)
(* requests, the manual order, the strategies and both closers meet.       *)
(***************************************************************************)
EXTENDS SignalEntry

Channels == [s1 |-> "BTC"]
=============================================================================
