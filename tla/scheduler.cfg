CONSTANTS
  Clients = {i1, i2}
  None = None
  Orphan = Orphan
  TTL = 3
  Slow = {i1}
  Second = 1
  Lag = 0
  Faults = TRUE
SPECIFICATION FairSchedSpec
CHECK_DEADLOCK FALSE
INVARIANTS
  SchedTypeOK
  ClaimIsBacked
  ExclusiveUnlessLost
  OneStaleRun
PROPERTIES
  UsesSessionLock
  DueIsRun
  StopEnds
