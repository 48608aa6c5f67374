\* The daily limit over a midnight, two modes, resets and restarts; cooldown.
CONSTANTS
  Symbols = {btc}
  Sizes <- MCSizes
  Pnls <- MCPnls
  Equities <- MCEquities
  StartupCapital = 100
  Profiles <- MCProfiles
  MaxDay = 1
  MaxBook = 2
  MaxElapsed = 1
  ResetBeforeRoll = FALSE
SPECIFICATION FairSpec
INVARIANTS
  TypeOK
  DailyInv
  BookedLossIsCounted
  LossStopsEntries
PROPERTIES
  KeepsTheDailyPromise
  StaleStopLifts
