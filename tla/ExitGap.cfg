\* One ladder, no edits, no trailing: the price jumps a level.
CONSTANTS
  Setups <- MCPlainSetups
  Amount = 6
  Prices <- MCPrices
  Edits = {}
  Trails = {0}
  FeePct = 5
SPECIFICATION Spec
INVARIANTS
  LevelsFireOnce
