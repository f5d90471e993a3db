SPECIFICATION Spec
CONSTANTS
  Requests = {1, 2, 3}
  Clients = {"a", "b"}
  Backends = {"orders"}
  FailureThreshold = 2
  RecoveryInterval = 1
  Burst = 2
  Rate = 1
  IdleLimit = 1
INVARIANTS TypeOK ClosedCountsFailures
PROPERTIES HealedBackendIsServed LimitsEachClient
