-------------------------- MODULE MCCloseAftermath --------------------------
(* Two positions of a channel, one of a channel that is executed exactly,  *)
(* and one of a strategy; any two of them are opened.                      *)
EXTENDS CloseAftermath

CONSTANTS x1, x2, e1, a1

TwoAndOthers ==
  [p \in {x1, x2, e1, a1} |->
     CASE p = a1 -> "algo" [] p = e1 -> "exact" [] OTHER -> "channel"]
SameChannel == Permutations({x1, x2})
WinLoss == {-1, 2}
=============================================================================
