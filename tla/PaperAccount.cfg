\* One symbol at two prices: tasks that meet there, a failing write or read, resets, and crashes between any
\* two awaits.
CONSTANTS
  Symbols = {"btc"}
  Amounts <- MCAmounts
  Prices <- MCPrices
  FeeRate = 1
  Capital = 100
  Tasks = {"signal", "loop", "api"}
  MaxOrders = 3
  MaxFailures = 1
SPECIFICATION Spec
INVARIANTS
  PositionsAreBooked
  BalanceIsBooked
PROPERTIES
  ClosesFitTheOrder
