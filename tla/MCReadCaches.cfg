SPECIFICATION CacheSpec
CONSTANTS
  r1 = r1
  r2 = r2
  r3 = r3
  Handlers <- ThreeHandlers
  Units = 2
  TTL = 2
  Delay = 1
  MaxLost = 1
SYMMETRY Symmetry
INVARIANTS CacheTypeOK BoundedStaleness ChangesInvalidate
