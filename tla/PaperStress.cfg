\* All four tasks on one symbol at once, so that two openings and two closes meet.
CONSTANTS
  Symbols = {"btc"}
  Amounts <- MCAmounts
  Prices <- MCPrice
  FeeRate = 1
  Capital = 100
  Tasks = {"signal", "manual", "loop", "api"}
  MaxOrders = 3
  MaxFailures = 0
SPECIFICATION Spec
INVARIANTS
  EntriesAreNotExits
