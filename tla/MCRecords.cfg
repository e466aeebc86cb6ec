SPECIFICATION RecordsSpec
CONSTANTS
  t1 = t1
  t2 = t2
  loop = loop
  request = request
  Tickets <- TwoTickets
  Prices <- MCPrices
  MaxShares = 4
  Submissions <- BracketAndShort
  NoOrder = NoOrder
  StartingCash = 20
  Margin = 1
  Tasks <- OneTask
  Requests <- EveryRequest
  MaxCrashes = 0
  Sockets = {s1, s2}
  Stocks = {y1, y2}
  Premiums = {}
  MaxSymbols = 1
  MaxFlushes = 1
  Passes = {"loop", "request"}
  Playbook = "poor_mans_wheel"
  StrikesOnOffer = {1}
  HandTrades = {"close_both"}
  BookAtStart <- MCBook
  StatusesTried = {"paused"}
  EarliestNow = 1
  MaxOrders = 2
  MaxSwitches = 1
  MaxPassRestarts = 1
  GexSymbols = {"AAPL", "SPY"}
  GexCallers = {"request", "screen", "warm"}
  MaxCached = 1
  MaxGexCalls = 4
  MaxFills = 3
  Syncs = {q1, q2}
  FetchLimit = 3
  JournalQty = 2
  JournalPrice = 3
  MaxEvents = 3
  MaxAccountResets = 1
  Universe = {x1, x2}
  Tapes <- MCTapes
  LastDay = 2
  NoRow = NoRow
  NoList = NoList
  MaxScannerTroubles = 2
SYMMETRY TabSymmetry
VIEW RecordsNow
INVARIANTS
  JournalIsTheRecord
  StreamsLetGo
  BatchIsFlushed
  OneFetchUnlessEvicted
  CursorPassesOnlyTheLate
  OncePerPass
  PlacedAgainOnlyWhenTorn
  FrozenIsThisMorning
PROPERTIES
  OrdersImplementBook
CHECK_DEADLOCK FALSE
