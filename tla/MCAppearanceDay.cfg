SPECIFICATION ScannerSpec
CONSTANTS
  Universe = {x1, x2}
  Tapes <- MCTapes
  LastDay = 2
  NoRow = NoRow
  NoList = NoList
  MaxScannerTroubles = 0
INVARIANT AppearancesAreOfTheirDay
CHECK_DEADLOCK FALSE
