SPECIFICATION Spec
CONSTANTS
  order = order
  inventory = inventory
  errors = errors
  stock = stock
  Services = {order}
  AlertNames = {errors}
  Fingerprints = {errors}
  AlertOf <- AlertsOfOneService
  Suspects <- EachItself
  Peers <- NoPeers
  Handlers = {1, 2}
  DurableStore = TRUE
  StoreMayFail = TRUE
  PriorRollbacks <- NoHistory
  LeaderElection = TRUE
  MaxRestarts = 1
INVARIANTS StateTracksPipeline  
CHECK_DEADLOCK FALSE
