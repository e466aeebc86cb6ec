SPECIFICATION Spec
CONSTANTS
  Clients = {c1}
  Replays <- MCReplays
  Seeks <- MCSeeks
  NoSession = NoSession
  NoEngine = NoEngine
  NoBars = NoBars
  LastMoment = 4
  LivePrice = LivePrice
  MaxRequests = 3
  MaxRestarts = 1
PROPERTIES
  OrdersPriceAtTheClock
CHECK_DEADLOCK FALSE
