SPECIFICATION JournalSpec
CONSTANTS
  MaxFills = 4
  Syncs = {"request"}
  FetchLimit = 2
  JournalQty = 2
  JournalPrice = 3
  MaxEvents = 3
  MaxAccountResets = 0
INVARIANT CapDropsOnlyOldTrips
