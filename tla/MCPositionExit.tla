---------------------------- MODULE MCPositionExit ----------------------------
(***************************************************************************)
(* PositionExit on setups that differ where the code branches: a full      *)
(* ladder with equal shares; shares and a rule of the channel's own and no *)
(* stop; a short that was filled beyond its first target; a signal with a  *)
(* single target; shares that do not fit the ladder; a stop beyond the     *)
(* fill; an algorithm's entry.                                             *)
(***************************************************************************)
EXTENDS PositionExit

Signal(sign, entry, stop, ladder, shares, rule) ==
  [sign |-> sign, entry |-> entry, stop |-> stop, target |-> ladder[Len(ladder)],
   ladder |-> ladder, shares |-> shares, rule |-> rule, telegram |-> TRUE]
Single(target, telegram) ==
  [sign |-> 1, entry |-> 20, stop |-> 12, target |-> target, ladder |-> <<>>,
   shares |-> <<>>, rule |-> "default", telegram |-> telegram]

MCPlain == Signal(1, 20, 12, <<26, 32, 38>>, <<>>, "default")
MCSetups == {MCPlain,
             Signal(1, 20, 0, <<26, 32, 38>>, <<1, 4, 1>>, "breakeven"),
             Signal(-1, 24, 30, <<26, 20, 14>>, <<3, 3>>, "default"),
             Signal(1, 20, 24, <<26, 32, 38>>, <<>>, "default"),
             Single(38, TRUE), Single(26, FALSE)}
MCPlainSetups == {MCPlain}
MCPrices == {11, 15, 20, 26, 33, 38}
MCEdits == {14, 40}
=============================================================================
