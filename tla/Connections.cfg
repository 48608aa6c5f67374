\* Two exchanges, one of which cannot be watched, two markets, a position on one of them, two updates
\* and two requests at the same time.  It ends when the bounds are used up.
CONSTANTS
  Exchanges = {"binance", "okx"}
  Watchable = {"binance"}
  Markets = {"spot", "futures"}
  Positions = {"q"}
  MarketOf <- OneEach
  Updates = {u1, u2}
  Requests = {r1, r2}
  None = None
  MaxClients = 3
  MaxUpdates = 2
SYMMETRY SameKind
CHECK_DEADLOCK FALSE
SPECIFICATION Spec
INVARIANTS
  ClientsInUse
  WatchedOnce
  NothingForgotten
