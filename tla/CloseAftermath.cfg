\* Two positions of a channel, one of a channel whose signals are executed
\* exactly and one of a strategy; any two of them are opened, and closed by
\* anyone; one restart, reset or clearing of the tables.
\* It ends when all the positions are closed.
CONSTANTS
  x1 = x1
  x2 = x2
  e1 = e1
  a1 = a1
  Positions = {x1, x2, e1, a1}
  SourceOf <- TwoAndOthers
  Channels = {"channel", "exact"}
  Exact = {"exact"}
  Pnls <- WinLoss
  GuardCount = 1
  StreakCount = 2
  MinTrades = 1
  MaxTrades = 2
  MaxOrders = 2
  MaxUpsets = 1
CHECK_DEADLOCK FALSE
SYMMETRY SameChannel
SPECIFICATION Spec
INVARIANTS
  StatsAgree
PROPERTIES
  LockedEntersNot
  ExcludedForGood
