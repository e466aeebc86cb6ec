SPECIFICATION TapeSpec
CONSTANTS
  Prints <- MCPrints
  Asides <- MCAsides
  Horizon = 1
  Window = 1
  MinMove = 50
  MinRvol = 1
  MinFraction = 5
  SurgeBars = 2
  BoxSlots = 1
  BreakWindow = 2
  MinTargetR = 2
  MeasuredMove = TRUE
  HourSlots = 1
  PivotWindow = 1
  MinBars = 3
  MinVisits = 2
  AtrWindow = 2
  MinSessions = 2
  OpenSlot = 2
  CloseSlot = 6
INVARIANT NightIsALevel
CHECK_DEADLOCK FALSE
