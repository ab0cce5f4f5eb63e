CONSTANTS
  Options <- AllOptions
  Counts = {0, 1, 2}
  Sizes = {1, 2}
  MaxTasks = 4
  RunnerProcs = {p1, p2}
  MaxStarts = 2
  LoopKinds <- Kinds
  MaxCalls = 4
  NumFns = 3
  GroupKinds <- AllGroups
  Limit = 2
  GroupTasks = {t1, t2, t3}
SPECIFICATION TasksSpec
CHECK_DEADLOCK FALSE
INVARIANTS
  BatchesKept
  OneRunAtATime
  CallsAsAsked
  OutcomeIsReal
  TasksCovered
PROPERTIES
  ImplementsBgTask
  TasksProgress
