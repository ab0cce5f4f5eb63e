CONSTANTS
  Options <- MinimumOnly
  Counts = {1, 2}
  Sizes = {1}
  MaxTasks = 4
SPECIFICATION Spec
CHECK_DEADLOCK FALSE
INVARIANT FullBatchTicks
