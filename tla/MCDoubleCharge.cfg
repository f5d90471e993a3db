SPECIFICATION Spec
CONSTANTS
  Items = {"mouse", "hub"}
  Stock <- OneHub
  Sagas = {1, 2}
  Keys = {"k"}
  NoKey = "no key"
  Carts <- OneCart
  MaxAttempts = 2
  MaxFaults = 1
  FailureThreshold = 1
  RecoveryInterval = 1
INVARIANT ChargedOncePerKey
CHECK_DEADLOCK FALSE
