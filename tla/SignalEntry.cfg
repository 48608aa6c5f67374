\* One signal, two requests, manual orders, the close button, the loop and the refresh, on one
\* pair, which is sometimes listed only while it is open.
CONSTANTS
  Pairs = {"BTC"}
  Signals = {"s1"}
  PairOf <- Channels
  Requests = {"r1", "r2"}
  Clients = {"manual", "dashboard"}
  Universes = {{}, {"BTC"}}
  MaxOpen = 1
  MaxAlgo = 1
  MaxOrders = 2
SPECIFICATION FairSpec
INVARIANTS
  OpenIsTracked
  OpenIsCounted
  OpenIsLinked
PROPERTIES
  DecidedStays
  VisitedAgain
