SPECIFICATION CampaignsSpec
CONSTANTS
  Passes = {"request"}
  Playbook = "wheel"
  StrikesOnOffer = {1}
  HandTrades = {"expire_put", "expire_call"}
  BookAtStart <- MCStrangle
  StatusesTried = {}
  EarliestNow = 2
  MaxOrders = 2
  MaxSwitches = 0
  MaxPassRestarts = 0
INVARIANTS
  CursorPassesNothingUnseen
CHECK_DEADLOCK FALSE
