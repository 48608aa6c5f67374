\* Six messages fetched by twos, of which one has no text and the oldest signal has no candles; a failure or a
\* restart anywhere.
CONSTANTS
  NoPrice = NoPrice
  NoLabel = NoLabel
  Length = 6
  Kind <- SixKinds
  Plan <- SixPlans
  Limit = 2
  SimLimit = 2
  Presses = {"s1"}
  NoCandles = {1}
  Candles <- SomeCandles
  MaxWaiting = 1
  MaxFaults = 1
SPECIFICATION FairSpec
INVARIANTS
  HistoryIsWhole
  LearnsSoundLabels
PROPERTIES
  Backfilled
  Labelled
