CONSTANTS
  Keys = {k1}
  Ids = {i1, i2, i3}
  NoTask = NoTask
  Delays = {1, 7}
  Period = 2
  N = 2
  CyclicFlags = {FALSE}
SPECIFICATION Spec
CHECK_DEADLOCK FALSE
INVARIANT DelIsEffective
