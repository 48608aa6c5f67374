---------------------------- MODULE MCRiskManager ----------------------------
(***************************************************************************)
(* RiskManager on a small instance: two days and a midnight, a loss that   *)
(* reaches the tight limit at once and the loose one when it comes twice,  *)
(* a gain that brings the count back above either.                         *)
(***************************************************************************)
EXTENDS RiskManager

MCSizes == {5}
MCPnls == {-1, 1}
MCEquities == {70}

Profile(limit, cooldown) ==
  [limit |-> limit, maxOpen |-> 1, maxSize |-> 5, maxNotional |-> 5,
   maxDrawdown |-> 20, cooldown |-> cooldown]
MCProfiles == {Profile(1, 0), Profile(2, 1)}
=============================================================================
