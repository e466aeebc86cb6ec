CONSTANTS
  t1 = t1
  t2 = t2
  Tickets <- TwoTickets
  Prices <- MCPrices
  MaxShares = 3
  Submissions <- MCSubmissions
  NoOrder = NoOrder
  StartingCash = 20
  Margin = 1
  StrikesOnTicket = {1, 2, 4, 7}
  LegsOnTicket <- MCLegs
  NetPrices = {1, 2}
  StockPrices = {4}
  Settlements <- MCSettlements
  ShareLots = {0, 2}
  Boards <- MCBoards
  Views <- MCViews
  Spot = 25
  Moves = {0, 12}
  Reports = {0, 9}
  Drifts = {0, 1}
  Outcomes = {5, 15, 22, 28, 35, 45}
  Crossings = {1}
  MaxExpiries = 3
  MaxCandidates = 100
  VerticalMaxWidth = 2
  FinalistSeats = 4
  PerStrategyCap = 2
  Underlyings <- MCUnderlyings
  ScreenRequests <- MCScreenRequests
  Equities = {0, 500}
  Failures <- MCFailures
  CandidateDeltas <- MCDeltas
  StripDays = 6
  FullWingDays = 4
  RefDays <- MCRefDays
  ComparableDays <- MCComparableDays
  DefaultWidth = 5
  UnknownWidth = 10
  MaxWidth = 20
  All = All
  Closes = {c1, c2}
  Wants = {2, All}
  Accounts <- MCAccounts
  MaxTroubles = 1
  MaxMoves = 1
  MaxHeld = 4
  EntryPrice = 2
  Rules <- MCRules
  BarPrices <- MCBarPrices
  Parts = 2
  MaxBars = 2
  MaxFills = 4
  MaxQty = 2
  FillPrices = {1, 3}
SPECIFICATION DeskSpec
SYMMETRY DeskSymmetry
INVARIANTS
  TypeOK
  ExitsFollowEntry
  OcoPairStandsTogether
  NeverWorseThanLimit
  AccountIsFills
  StatedRiskHolds
  BuiltRiskHolds
  NakedOnlyIfUncovered
  OutcomeIsTheTapes
  ShapesAreTickets
  AvoidedReportsAreAvoided
  ScreenAgreesWithTicket
  TripsAccountForCash
  SimCutsTheSameTrips
PROPERTIES
  StopLossIsTold
  FlatMeansFlat
CHECK_DEADLOCK FALSE
