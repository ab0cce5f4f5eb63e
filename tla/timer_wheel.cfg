CONSTANTS
  Keys = {k1, k2}
  Ids = {i1, i2, i3}
  NoTask = NoTask
  Delays = {1, 5}
  Period = 2
  N = 2
  CyclicFlags = {TRUE}
SPECIFICATION TimedSpec
SYMMETRY Symmetry
CHECK_DEADLOCK FALSE
INVARIANTS
  TypeOK
  MapsConsistent
  WheelOnSchedule
  OneFate
PROPERTIES
  FiresAtItsTick
  QuietAfterClose
  FiresInWindow
