--------------------------- MODULE MCConnections ---------------------------
(* A position on futures, which may or may not be the market of the settings. *)
EXTENDS Connections, TLC

OneEach == [p \in {"q"} |-> "futures"]

SameKind == Permutations(Updates) \cup Permutations(Requests)
=============================================================================
