CONSTANTS
  Clients = {i1, i2}
  None = None
  Orphan = Orphan
  TTL = 6
  Second = 2
  Lag = 1
  Slow = {}
  Faults = FALSE
SPECIFICATION SchedSpec
CHECK_DEADLOCK FALSE
PROPERTY RunsWhenDue
