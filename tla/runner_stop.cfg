CONSTANTS
  RunnerProcs = {p1, p2}
  MaxStarts = 2
SPECIFICATION RunnerSpec
CHECK_DEADLOCK FALSE
PROPERTIES
  StopAlwaysReturns
