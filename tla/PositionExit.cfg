\* Six setups, every gap between six prices, one trailing distance.
CONSTANTS
  Setups <- MCSetups
  Amount = 6
  Prices <- MCPrices
  Edits <- MCEdits
  Trails = {0, 25}
  FeePct = 5
SPECIFICATION Spec
INVARIANTS
  TypeOK
  ExitsFitThePosition
  RestartKeepsThePlan
PROPERTIES
  TakeProfitIsAProfit
  StopStaysBehindPrice
  StopKeepsItsSide
