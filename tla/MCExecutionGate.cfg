SPECIFICATION Spec
CONSTANTS
  Services = {"order", "payment"}
  AlertNames = {"errors", "latency"}
  Recoveries = {r1, r2, r3}
  Windows = {1, 2}
  MaxTime = 3
INVARIANTS
  TypeOK
  WindowsDisjoint
  SuppressedOnlyByGrant
PROPERTIES
  ImplementsWindows
SYMMETRY Symmetry
CHECK_DEADLOCK FALSE
