\* Two openings of two contracts, the watcher beside the channel or the dashboard, four mishaps.
CONSTANTS
  Lot = 2
  Cap = 2
  MaxStops = 2
  MaxOrders = 2
  MaxFills = 2
  Overlaps = {{"channel", "watch"}, {"request", "watch"}}
  Mishaps = {"partial confirmation", "foreign contracts", "crash", "wrong answer"}
SPECIFICATION Spec
INVARIANTS
  BookedOnce
  LedgerCovered
PROPERTIES
  NoStopLeftBehind
