SPECIFICATION CampaignsSpec
CONSTANTS
  Passes = {"loop"}
  Playbook = "wheel"
  StrikesOnOffer = {1}
  HandTrades = {"expire_put"}
  BookAtStart <- MCBook
  StatusesTried = {}
  EarliestNow = 2
  MaxOrders = 2
  MaxSwitches = 1
  MaxPassRestarts = 0
INVARIANTS
  PremiumsAreTheOrders
CHECK_DEADLOCK FALSE
