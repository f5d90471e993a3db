SPECIFICATION Spec
CONSTANTS
  order = order
  inventory = inventory
  errors = errors
  stock = stock
  Services = {order, inventory}
  AlertNames = {errors, stock}
  Fingerprints = {errors, stock}
  AlertOf <- AlertsOfTwoServices
  Suspects <- CallChain
  Peers <- CallersOfEach
  Handlers = {1, 2}
  DurableStore = FALSE
  StoreMayFail = FALSE
  PriorRollbacks <- OneFailure
  LeaderElection = FALSE
  MaxRestarts = 0
INVARIANTS TypeOK AcknowledgedAlertHasIncident StateTracksPipeline
PROPERTIES  EscalatesAfterTwoFailures
CHECK_DEADLOCK FALSE
