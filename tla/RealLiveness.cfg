\* One opening and what is adopted; the loop goes on and restarts end.
CONSTANTS
  Lot = 2
  Cap = 2
  MaxStops = 2
  MaxOrders = 1
  MaxFills = 2
  Overlaps = {{"channel", "watch"}, {"request", "watch"}}
  Mishaps = {"partial confirmation", "foreign contracts", "crash", "wrong answer", "second row"}
SPECIFICATION LiveSpec
PROPERTIES
  GoneIsForgotten
  HeldIsTracked
