CONSTANTS
  Requests = {r1, r2}
  Instances = {i1}
  Kinds = {"Fetch", "FetchNew"}
  None = None
  Err = Err
  EmptyVersions = {}
  CacheEmpty = TRUE
  ShortTTL = FALSE
  Faults = FALSE
  MaxVersion = 1
SPECIFICATION Spec
CHECK_DEADLOCK FALSE
INVARIANTS
  FetchNewIsCurrent
