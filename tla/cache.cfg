CONSTANTS
  Requests = {r1, r2}
  Instances = {i1, i2}
  Kinds = {"Fetch", "FetchNew", "FetchBackend"}
  None = None
  Err = Err
  EmptyVersions = {1}
  CacheEmpty = FALSE
  ShortTTL = TRUE
  Faults = TRUE
  MaxVersion = 1
SPECIFICATION FairSpec
CHECK_DEADLOCK FALSE
INVARIANTS
  TypeOK
  CacheConsistent
  LeaderReadsCurrent
PROPERTIES
  AllReturn
