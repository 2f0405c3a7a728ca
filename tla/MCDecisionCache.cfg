CONSTANTS
  k1 = k1
  k2 = k2
  k3 = k3
  m1 = m1
  m2 = m2
  g1 = g1
  g2 = g2
  NoModel = NoModel
  Keys <- MCKeys
  Models <- MCModels
  Callers <- MCCallers
  MaxEntries = 2
  TTL = 1
  MaxClock = 2
  MaxCalls = 6
SYMMETRY MCSymmetry
SPECIFICATION Spec
INVARIANTS
  TypeOK
  IndexAgrees
  WithinLimit
  CountersAccount
  MissesAccount
PROPERTIES
  EvictionIsLRU
  ServedWithinTTL
  ImplementsMemo
CHECK_DEADLOCK FALSE
