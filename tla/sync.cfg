CONSTANTS
  Procs = {p1, p2, p3}
  Keys = {k1, k2}
  Values = {v1}
  Nil = Nil
  NoHolder = NoHolder
  Usages = {{"Get", "Put", "PutIfExist"}, {"Get", "PutIfExist", "Remove", "RemoveAll"}}
  MaxHolders = 3
  FlightProcs = {p1, p2, p3}
  FlightKeys = {k1}
  FlightValues = {v1, v2}
  MaxFlights = 2
  NoValue = NoValue
  LatchProcs = {p1, p2, p3}
  MaxEvents = 4
  Runners = {r1, r2}
  Callers = {p1, p2}
  MaxCalls = 5
SPECIFICATION SyncSpec
CHECK_DEADLOCK FALSE
INVARIANTS
  HoldersReleasedOnce
  WakeupsKept
  AnswerIsTrue
  GroupStops
PROPERTIES
  ImplementsFlights
  SyncProgress
