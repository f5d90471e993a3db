SPECIFICATION Spec
CONSTANTS
  Services = {"inventory", "search"}
  SLOs <- InventorySLO
  Samples <- SomeSamples
  Downstream <- OnInventory
  Monitors = {"m1"}
  Weights = {0, 1, 100}
  MaxRuns = 2
  MinRemainingBudget = 10
  MaxAllowedBurnRate = 144
  MaxFailed = 3
INVARIANTS TypeOK ActiveRunIsOpen
 
