CONSTANTS
  Keys = {k1, k2}
  Ids = {i1, i2}
  NoTask = NoTask
  Delays = {4}
  Period = 2
  N = 2
  CyclicFlags = {TRUE, FALSE}
  BlockerProcs = {p1, p2}
  BlockerValues = {v1, NilValue}
  NilValue = NilValue
  BarrierProcs = {p1, p2}
  BarrierPeriod = 2
  MaxTime = 5
  ResultProcs = {p1, p2}
  ResultKeys = {1, 2}
  Nobody = Nobody
  MaxOps = 2
  Retriers = {p1, p2}
  CounterOptions <- MCOptions
  MaxRetries = 3
  Members = {"a", "b"}
  Maps = {1, 2, 3}
  Sets = {1, 2, 3}
  Half = 2
  NumBoltKeys = 2
  BoltPrefixes <- MCPrefixes
  BoltInts = {1}
  MaxId = 2
  StoreKeys = {s1, s2}
  StoreValues <- MCStoreValues
  MaxPuts = 3
  Limits <- MCLimits
  Expires = {0, 1, 3, 4}
  MaxNow = 5
  MaxCount = 4
  MaxGrants = 5
  CasTexts <- MCCasTexts
  CasInts <- MCCasInts
  Errors <- MCErrors
  RpcCodes = 1000000
  Powers = {10, 100, 1000, 10000}
  StateRequests = {r1, r2}
  StateKeys = {ka}
  NumMWs = 2
  AuthOptions <- MCAuthOptions
  Skews <- MCSkews
  Second = 2
  TTL = 2
  MaxAuthTime = 4
  NumRequests = 2
  SessionKeys = {"a"}
  SessionStores = {"cookie", "redis"}
  MaxChanges = 2
  TaskNames = {"skips", "delays"}
  TaskOptions <- MCTaskOptions
  MaxEntries = 3
  MaxRuns = 2
  Stoppers = {p1}
SPECIFICATION PartsSpec
CHECK_DEADLOCK FALSE
INVARIANTS
  LimitsKept
  ErrorsArrive
  OwnValuesSeen
  TokensJudged
  RunsGuarded
PROPERTIES
  BlocksUntilValue
  
  CollectionsKept
  TimerProgress
