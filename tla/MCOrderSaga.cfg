SPECIFICATION Spec
CONSTANTS
  Items = {"mouse", "hub"}
  Stock <- OneHub
  Sagas = {1, 2}
  Keys = {"k"}
  NoKey = "no key"
  Carts <- SmallCarts
  MaxAttempts = 2
  MaxFaults = 1
  FailureThreshold = 1
  RecoveryInterval = 1
INVARIANTS TypeOK StockIsSoldOnce 
PROPERTIES KeepsTheBooks EveryRequestEnds KeysAreFreed
CHECK_DEADLOCK FALSE
