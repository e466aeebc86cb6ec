SPECIFICATION ServicesSpec
CONSTANTS
  Clients = {c1, c2}
  Replays <- MCReplays
  Seeks <- MCSeeks
  NoSession = NoSession
  NoEngine = NoEngine
  NoBars = NoBars
  LastMoment = 4
  LivePrice = LivePrice
  MaxRequests = 4
  MaxRestarts = 1
  Triggers = {"stop"}
  Terms <- MCTerms
  OptionLegs = {"A", "B"}
  HeldAtStart <- MCHeld
  Quotes <- MCQuotes
  MaxAttempts = 2
  MaxUserCloses = 1
  MaxLoopRestarts = 1
  Contracts <- MCContracts
  MaxHeld = 2
  MaxLegs = 5
  ShareCounts = {100}
  Credits = {1, 3}
VIEW ServicesView
INVARIANTS
  PausedClockSettles
  LiveLoopLetsGo
  OrdersAreBounded
  GroupsPartitionTheBook
  ReservedCoversLoss
PROPERTIES
  PlayingEnds
  HitTriggersSettle
CHECK_DEADLOCK FALSE
