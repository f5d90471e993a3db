SPECIFICATION Spec
CONSTANTS
  Services = {"order", "inventory", "payment"}
  AlertNames = {}
  Configs = {"old", "new", "nil"}
  NoValues = "nil"
  Old = "old"
  New = "new"
  Seed <- OrderCalls
  Observable <- AlsoSeen
  BatchWindow = 1
  GateWindow = 3
  Alerting = {"inventory", "payment"}
  Horizon = 2
  MaxFaults = 1
INVARIANTS TypeOK CallersFollow 
PROPERTIES BlastRadius RootCauseIsDeepest
CHECK_DEADLOCK FALSE
