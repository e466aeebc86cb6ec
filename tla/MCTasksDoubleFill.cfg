CONSTANTS
  t1 = t1
  t2 = t2
  loop = loop
  request = request
  Tickets = {t1}
  Prices <- MCPrices
  MaxShares = 4
  Submissions <- MarketableLimit
  NoOrder = NoOrder
  StartingCash = 20
  Margin = 1
  Tasks <- LoopAndRequest
  Requests <- PollAndSubmit
  MaxCrashes = 0
SPECIFICATION TasksSpec
INVARIANT QuietPositionIsFills
CHECK_DEADLOCK FALSE
