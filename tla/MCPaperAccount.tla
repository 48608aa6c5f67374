---------------------------- MODULE MCPaperAccount ----------------------------
(***************************************************************************)
(* PaperAccount on a small instance: one volume, which halves once, and    *)
(* two prices, so that a position can gain and lose.                       *)
(***************************************************************************)
EXTENDS PaperAccount

MCAmounts == {2}
MCPrices == {2, 4}
MCPrice == {2}
=============================================================================
