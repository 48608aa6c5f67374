-------------------------- MODULE MCChannelHistory --------------------------
(* Six messages, two of them signals that can be replayed.                  *)
EXTENDS ChannelHistory

SixKinds == <<"signal", "bare", "signal", "report", "signal", "signal">>

\* A long with three targets in the channel's shares, a short with one target, the same with
\* shares that grow, and a signal at the market, which has no entry to replay from.
Long   == [side |-> "long", entry |-> 20, sl |-> 14, tp |-> 29, targets |-> <<23, 26, 29>>,
           weights |-> <<30, 20, 10>>, breakeven |-> FALSE]
Short  == [side |-> "short", entry |-> 20, sl |-> 23, tp |-> 14, targets |-> <<>>,
           weights |-> <<>>, breakeven |-> TRUE]
Grows  == [Short EXCEPT !.weights = <<10, 40, 10>>]
Market == [Long EXCEPT !.entry = NoPrice]
SixPlans == <<Short, Market, Long, Market, Grows, Market>>

\* Targets are jumped over, taken and missed, stops are hit before and after them.
SomeCandles == {<<26, 27, 22>>, <<23, 13>>, <<17, 21>>, <<16, 15, 19>>}
=============================================================================
