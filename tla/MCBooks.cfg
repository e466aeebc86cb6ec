CONSTANTS
  t1 = t1
  t2 = t2
  loop = loop
  request = request
  Tickets = {t1}
  Prices <- MCPrices
  MaxShares = 2
  Submissions <- StopBrackets
  NoOrder = NoOrder
  StartingCash = 20
  Margin = 1
  Tasks <- LoopAndRequest
  Requests <- PollAndReplace
  MaxCrashes = 1
  Contracts <- MCContracts
  Multiplier = 2
  Spots <- MCSpots
  Nets <- MCNets
  Limits <- MCLimits
  NoLimit = NoLimit
  NoPrice = NoPrice
  PackageTickets <- MCTickets
  ShareCounts <- MCShareCounts
  OptionsStartingCash = 9
  OptionsMargin = 1
  MaxQty = 1
  MaxRatio = 1
  MaxOrders = 3
  MaxShareTrades = 1
  Prints <- MCPrints
  Asides <- MCAsides
  Horizon = 1
  Window = 1
  MinMove = 50
  MinRvol = 1
  MinFraction = 5
  SurgeBars = 2
  BoxSlots = 1
  BreakWindow = 2
  MinTargetR = 2
  MeasuredMove = TRUE
  HourSlots = 1
  PivotWindow = 1
  MinBars = 3
  MinVisits = 2
  AtrWindow = 2
  MinSessions = 2
  OpenSlot = 2
  CloseSlot = 6
SPECIFICATION BooksSpec
VIEW BooksView
INVARIANTS
  QuietPositionIsFills
  FillsApplyAtMostOnce
  ClosesNeverReopen
  WalksAgree
  ScannerOverFlags
PROPERTIES
  SettlementKeepsEquity
  ExpiredContractsSettle
  EntriesStay
CHECK_DEADLOCK FALSE
