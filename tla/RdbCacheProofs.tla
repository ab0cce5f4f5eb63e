---------------------------- MODULE RdbCacheProofs ----------------------------
(***************************************************************************)
(* Proofs about RdbCache, for any number of requests, instances and        *)
(* versions, with and without faults.  The three promises about the values *)
(* (FreshIsCurrent, OwnerIsCurrent, LeaderReadsCurrent) hold up each other *)
(* and need two facts about the bookkeeping: what a load has read is not   *)
(* older than its request's call (LoadsConsistent), and the flight of an   *)
(* instance is led by the one request that is inside its function          *)
(* (FlightsConsistent).                                                    *)
(***************************************************************************)
EXTENDS RdbCache, TLAPS

Inside == {"get", "load", "backend", "del"}

\* Nothing was expired in the future, nor called after a later Expire.
Ordered ==
    /\ expired <= db
    /\ \A r \in Requests : req[r].since <= expired

\* A request has no load before it got the lock; a load that has read the backend
\* holds a value at least as new as its request's call, and one that has ended
\* holds a value or an error.
LoadsConsistent ==
    \A r \in Requests :
        /\ req[r].pc \in {"idle", "get", "backend", "join"} => load[r].pc = "none"
        /\ load[r].pc \in {"store", "delete"} => load[r].val \in Version
        /\ load[r].val \in Version => load[r].val >= req[r].since
        /\ load[r].pc \in {"unlock", "done"} => load[r].val # None
        /\ load[r].pc = "none" => load[r].val = None

\* The group's entry is the request inside its function; who joins waits for another.
FlightsConsistent ==
    /\ \A i \in Instances :
          flight[i] # None => (req[flight[i]].inst = i /\ req[flight[i]].pc \in Inside)
    /\ \A r \in Requests :
          /\ req[r].pc \in Inside => (req[r].inst \in Instances /\ flight[req[r].inst] = r)
          /\ req[r].pc = "join" => (req[r].leader \in Requests /\ req[r].leader # r)

\* Any value a FetchNew that leads its flight has, returned or about to be.
LeaderHasCurrent ==
    \A r \in Requests :
        (req[r].leader = r /\ req[r].kind = "FetchNew" /\ req[r].val \in Version) =>
            req[r].val >= req[r].since

Inv ==
    /\ TypeOK
    /\ Ordered
    /\ FreshIsCurrent
    /\ OwnerIsCurrent
    /\ LoadsConsistent
    /\ FlightsConsistent
    /\ LeaderHasCurrent
    /\ NeverNil

\* A version is a number, and neither nil nor an error.
LEMMA VersionFacts ==
    /\ Version \subseteq Nat
    /\ None \notin Version
    /\ Err \notin Version
    /\ None \notin Requests
    /\ None # Err
    /\ MaxVersion \in Nat
    /\ None \notin Instances
    /\ None \in Outcome /\ Err \in Outcome /\ Version \subseteq Outcome
  BY CacheAssumption DEF Version, Outcome

\* Versions are compared as numbers.
LEMMA VersionInt == \A v \in Version : v \in Int
  BY CacheAssumption DEF Version

\* The versions of a state and a request are in the order of time.
LEMMA BackendIsAhead ==
    ASSUME Inv, NEW r \in Requests
    PROVE  /\ db \in Version /\ expired \in Version /\ req[r].since \in Version
           /\ db >= expired /\ expired >= req[r].since /\ db >= req[r].since
  <1>1. req[r].since \in Version /\ expired \in Version /\ db \in Version
    BY DEF Inv, TypeOK, Request
  <1>2. req[r].since <= expired /\ expired <= db
    BY DEF Inv, Ordered
  <1> QED  BY <1>1, <1>2, VersionInt

\* An absent key, a key just written and a marked one.
LEMMA HashFacts ==
    /\ Absent \in Hash /\ Absent.v = None /\ Absent.t = "none" /\ Absent.o = None
    /\ \A x \in Version : [v |-> x, t |-> "none", o |-> None, ttl |-> TRUE] \in Hash
  BY DEF Absent, Hash

\* Marking an entry keeps its value.
LEMMA HashMarked ==
    ASSUME redis \in Hash,
           \/ redis' = [redis EXCEPT !.t = "expired", !.o = None]
           \/ redis' = [redis EXCEPT !.t = "expired", !.o = None, !.ttl = TRUE]
    PROVE  redis' \in Hash /\ redis'.v = redis.v /\ redis'.t = "expired" /\ redis'.o = None
  BY DEF Hash

\* So does the end of LockTTL, which leaves the owner too.
LEMMA HashTimedOut ==
    ASSUME redis \in Hash, redis' = [redis EXCEPT !.t = "expired"]
    PROVE  redis' \in Hash /\ redis'.v = redis.v /\ redis'.t = "expired" /\ redis'.o = redis.o
  BY DEF Hash

ReqPc == {"idle", "get", "load", "backend", "del", "finish", "join", "done"}
LoadPc == {"none", "query", "store", "delete", "unlock", "done"}

\* A request that moves on keeps its call, and the others keep everything.
LEMMA ReqMoves ==
    ASSUME TypeOK, NEW r \in Requests, NEW p \in ReqPc, NEW x \in Outcome,
           req' = [req EXCEPT ![r].pc = p, ![r].val = x]
    PROVE  /\ req' \in [Requests -> Request]
           /\ req'[r].pc = p
           /\ req'[r].val = x
           /\ \A s \in Requests : /\ req'[s].kind = req[s].kind /\ req'[s].inst = req[s].inst
                                   /\ req'[s].leader = req[s].leader
                                   /\ req'[s].since = req[s].since
           /\ \A s \in Requests \ {r} : req'[s] = req[s]
  BY DEF TypeOK, Request, ReqPc

\* A request that moves on without a value keeps the one it has.
LEMMA ReqPcMoves ==
    ASSUME TypeOK, NEW r \in Requests, NEW p \in ReqPc, req' = [req EXCEPT ![r].pc = p]
    PROVE  /\ req' \in [Requests -> Request]
           /\ req'[r].pc = p
           /\ \A s \in Requests : /\ req'[s].val = req[s].val
                                   /\ req'[s].kind = req[s].kind /\ req'[s].inst = req[s].inst
                                   /\ req'[s].leader = req[s].leader
                                   /\ req'[s].since = req[s].since
           /\ \A s \in Requests \ {r} : req'[s] = req[s]
  BY DEF TypeOK, Request, ReqPc

\* What a load that moves on has then.
LEMMA LoadMoves ==
    ASSUME TypeOK, NEW r \in Requests, NEW p \in LoadPc, NEW x \in Outcome,
           load' = [load EXCEPT ![r] = [pc |-> p, val |-> x]]
    PROVE  /\ load' \in [Requests -> Load]
           /\ load'[r].pc = p
           /\ load'[r].val = x
           /\ \A s \in Requests \ {r} : load'[s] = load[s]
  BY DEF TypeOK, Load, LoadPc

\* The load that ends keeps its value.
LEMMA LoadEnds ==
    ASSUME TypeOK, NEW r \in Requests, load' = [load EXCEPT ![r].pc = "done"]
    PROVE  /\ load' \in [Requests -> Load]
           /\ load'[r].pc = "done"
           /\ load'[r].val = load[r].val
           /\ \A s \in Requests \ {r} : load'[s] = load[s]
  BY DEF TypeOK, Load

\* The initial state satisfies the invariant.
LEMMA InitEstablishes == Init => Inv
  BY VersionFacts DEF Init, Inv, TypeOK, Ordered, FreshIsCurrent, OwnerIsCurrent, LoadsConsistent,
     FlightsConsistent, LeaderHasCurrent, NeverNil, Absent, Hash, Request, Load, Version, Outcome,
     Inside

\* A request that begins leads its flight or joins another one's.
LEMMA BeginPreserves ==
    ASSUME Inv, NEW r \in Requests, NEW k \in Kinds, NEW i \in Instances, Begin(r, k, i)
    PROVE Inv'
  <1>1. TypeOK'
    BY VersionFacts DEF Inv, TypeOK, Begin, Request, FirstIn
  <1>2. Ordered'
    BY VersionFacts DEF Inv, TypeOK, Begin, Ordered
  <1>3. FreshIsCurrent' /\ OwnerIsCurrent'
    BY DEF Inv, FreshIsCurrent, OwnerIsCurrent, Begin
  <1>4. LoadsConsistent'
    BY VersionFacts DEF Inv, TypeOK, LoadsConsistent, Begin
  <1>5. FlightsConsistent'
    <2>1. /\ req[r].pc = "idle"
          /\ \A s \in Requests \ {r} : req'[s] = req[s]
      BY DEF Inv, TypeOK, Begin
    <2>2. CASE FirstIn(i)
      <3>1. req'[r].pc \in {"backend", "get"} /\ req'[r].inst = i /\ flight' = [flight EXCEPT ![i] = r]
        BY <2>2 DEF Inv, TypeOK, Begin
      <3>2. \A s \in Requests \ {r} : req[s].pc \in Inside => req[s].inst # i
        BY <2>2, VersionFacts DEF Inv, FlightsConsistent, FirstIn
      <3> QED  BY <2>1, <3>1, <3>2, VersionFacts DEF Inv, TypeOK, FlightsConsistent, Inside
    <2>3. CASE ~FirstIn(i)
      <3>1. /\ req'[r].pc = "join" /\ req'[r].leader = flight[i]
            /\ flight' = flight
        BY <2>3 DEF Inv, TypeOK, Begin
      <3>2. flight[i] \in Requests /\ flight[i] # r
        BY <2>1, <2>3 DEF Inv, TypeOK, FlightsConsistent, FirstIn, Inside
      <3>3. \A j \in Instances : flight[j] # r
        BY <2>1, VersionFacts DEF Inv, FlightsConsistent, Inside
      <3> QED  BY <2>1, <3>1, <3>2, <3>3, VersionFacts DEF Inv, TypeOK, FlightsConsistent, Inside
    <2> QED  BY <2>2, <2>3
  <1>6. LeaderHasCurrent'
    BY VersionFacts DEF Inv, TypeOK, LeaderHasCurrent, Begin
  <1>7. NeverNil'
    BY DEF Inv, TypeOK, NeverNil, Begin
  <1> QED  BY <1>1, <1>2, <1>3, <1>4, <1>5, <1>6, <1>7 DEF Inv

\* A load of request r that moves on in step with redis: the parts of the invariant
\* about the hash are left to show.
LEMMA LoadStepPreserves ==
    ASSUME Inv, NEW r \in Requests, NEW x \in Outcome,
           NEW p \in {"store", "delete", "unlock", "done"},
           load[r].pc # "none",
           load' \in [Requests -> Load], load'[r].pc = p, load'[r].val = x,
           \A s \in Requests \ {r} : load'[s] = load[s],
           x # None,
           p \in {"store", "delete"} => x \in Version,
           x \in Version => x >= req[r].since,
           redis' \in Hash, redis'.t = "none" => redis'.o = None,
           FreshIsCurrent', OwnerIsCurrent',
           UNCHANGED <<db, expired, flight, req>>
    PROVE  Inv'
  <1>2. TypeOK'
    BY DEF Inv, TypeOK
  <1>3. LoadsConsistent'
    BY DEF Inv, LoadsConsistent
  <1> QED
    BY <1>2, <1>3 DEF Inv, Ordered, FlightsConsistent, LeaderHasCurrent, NeverNil

\* The value is read after the lock was taken, hence after the last Expire.
LEMMA QueryPreserves ==
    ASSUME Inv, NEW r \in Requests, query(r)
    PROVE Inv'
  <1>1. PICK p \in {"store", "delete", "unlock"}, x \in {db, Err} :
           /\ load' = [load EXCEPT ![r] = [pc |-> p, val |-> x]]
           /\ p = "unlock" <=> x = Err
    BY VersionFacts DEF Inv, TypeOK, query
  <1>2. /\ load' \in [Requests -> Load]
        /\ load'[r].pc = p
        /\ load'[r].val = x
        /\ \A s \in Requests \ {r} : load'[s] = load[s]
    BY <1>1, VersionFacts, LoadMoves DEF Inv, TypeOK, LoadPc
  <1>3. /\ db \in Version /\ db >= expired /\ db >= req[r].since
        /\ redis' = redis /\ expired' = expired
    BY BackendIsAhead DEF query
  <1>4. FreshIsCurrent' /\ OwnerIsCurrent'
    BY <1>1, <1>2, <1>3, VersionFacts DEF Inv, FreshIsCurrent, OwnerIsCurrent
  <1>5. /\ x \in Outcome /\ x # None
        /\ p \in {"store", "delete"} => x \in Version
        /\ x \in Version => x >= req[r].since
    BY <1>1, <1>3, VersionFacts
  <1>6. /\ redis' \in Hash
        /\ redis'.t = "none" => redis'.o = None
        /\ UNCHANGED <<db, expired, flight, req>>
        /\ load[r].pc # "none"
    BY DEF Inv, TypeOK, query
  <1> QED  BY <1>1, <1>2, <1>4, <1>5, <1>6, LoadStepPreserves
\* Only the owner of the lock stores, and what it stores is current.
LEMMA StorePreserves ==
    ASSUME Inv, NEW r \in Requests, store(r)
    PROVE Inv'
  <1>1. /\ load[r].pc = "store" /\ load[r].val \in Version
        /\ load[r].val >= req[r].since
        /\ UNCHANGED <<db, expired, flight, req>>
    BY DEF Inv, LoadsConsistent, store
  <1>2. PICK x \in {load[r].val, Err} :
           /\ load' \in [Requests -> Load]
           /\ load'[r].pc = "done"
           /\ load'[r].val = x
           /\ \A s \in Requests \ {r} : load'[s] = load[s]
    <2>1. CASE load' = [load EXCEPT ![r].pc = "done"]
      BY <2>1, LoadEnds DEF Inv
    <2>2. CASE load' = [load EXCEPT ![r] = [pc |-> "done", val |-> Err]]
      BY <2>2, LoadMoves, VersionFacts DEF Inv, LoadPc
    <2> QED  BY <2>1, <2>2 DEF store
  <1>4. \/ redis' = redis
        \/ redis' = Absent
        \/ redis.o = r /\ redis' = [v |-> load[r].val, t |-> "none", o |-> None, ttl |-> TRUE]
    BY DEF store, Stored, Written
  <1>5. redis' \in Hash /\ (redis'.t = "none" => redis'.o = None)
    BY <1>1, <1>4, HashFacts DEF Inv, TypeOK
  <1>6. OwnerIsCurrent'
    BY <1>1, <1>2, <1>4, HashFacts, VersionFacts DEF Inv, OwnerIsCurrent
  <1>7. FreshIsCurrent'
    BY <1>1, <1>4, HashFacts DEF Inv, FreshIsCurrent, OwnerIsCurrent
  <1>8. x \in Outcome /\ x # None /\ (x \in Version => x >= req[r].since)
    BY <1>1, VersionFacts
  <1> QED  BY <1>1, <1>2, <1>5, <1>6, <1>7, <1>8, LoadStepPreserves

\* Deleting the key takes the lock along; releasing it leaves the entry marked.
LEMMA DropPreserves ==
    ASSUME Inv, NEW r \in Requests, delete(r) \/ unlock(r)
    PROVE Inv'
  <1>1. /\ load[r].pc \in {"delete", "unlock"} /\ load[r].val # None /\ load[r].val \in Outcome
        /\ load[r].val \in Version => load[r].val >= req[r].since
        /\ UNCHANGED <<db, expired, flight, req>>
    BY VersionFacts DEF Inv, TypeOK, Load, LoadsConsistent, delete, unlock
  <1>2. PICK x \in {load[r].val, Err} :
           /\ load' \in [Requests -> Load]
           /\ load'[r].pc = "done"
           /\ load'[r].val = x
           /\ \A s \in Requests \ {r} : load'[s] = load[s]
    <2>1. CASE load' = [load EXCEPT ![r].pc = "done"]
      BY <2>1, LoadEnds DEF Inv
    <2>2. CASE load' = [load EXCEPT ![r] = [pc |-> "done", val |-> Err]]
      BY <2>2, LoadMoves, VersionFacts DEF Inv, LoadPc
    <2> QED  BY <2>1, <2>2 DEF delete, unlock
  <1>4. \/ redis' = redis
        \/ redis' = Absent
        \/ redis' \in Hash /\ redis'.t = "expired" /\ redis'.o = None
    BY HashMarked DEF Inv, TypeOK, delete, unlock
  <1>5. redis' \in Hash /\ (redis'.t = "none" => redis'.o = None)
    BY <1>4, HashFacts DEF Inv, TypeOK
  <1>6. OwnerIsCurrent'
    BY <1>1, <1>2, <1>4, HashFacts, VersionFacts DEF Inv, OwnerIsCurrent
  <1>7. FreshIsCurrent'
    BY <1>1, <1>4, HashFacts DEF Inv, FreshIsCurrent
  <1>8. x \in Outcome /\ x # None /\ (x \in Version => x >= req[r].since)
    BY <1>1, VersionFacts
  <1> QED  BY <1>1, <1>2, <1>5, <1>6, <1>7, <1>8, LoadStepPreserves

\* What the application and time do: the backend moves on, the entry is marked,
\* removed, or set to what the backend holds; the lock is lost with it.
LEMMA OutsidePreserves ==
    ASSUME Inv, Update \/ Expire \/ Del \/ Set \/ lockTimesOut \/ keyTimesOut
    PROVE Inv'
  <1>1. db \in Version /\ expired \in Version /\ expired <= db /\ UNCHANGED <<flight, req, load>>
    BY DEF Inv, TypeOK, Ordered, Update, Expire, Del, Set, lockTimesOut, keyTimesOut
  <1>2. /\ db' \in Version /\ expired' \in Version
        /\ db' >= db /\ expired' >= expired /\ expired' <= db'
    BY <1>1, VersionFacts DEF Version, Update, Expire, Del, Set, lockTimesOut, keyTimesOut
  <1>3. \/ redis' = redis /\ expired' = expired
        \/ redis' = Absent
        \/ redis' \in Hash /\ redis'.t = "expired" /\ redis'.o = None
        \/ redis' = [v |-> db, t |-> "none", o |-> None, ttl |-> TRUE] /\ expired' = expired
        \/ redis' \in Hash /\ redis'.t = "expired" /\ redis'.o = redis.o /\ expired' = expired
    BY HashMarked, HashTimedOut
    DEF Inv, TypeOK, Update, Expire, Del, Set, lockTimesOut, keyTimesOut, Marked, Written
  <1>4. redis' \in Hash /\ (redis'.t = "none" => redis'.o = None)
    BY <1>1, <1>3, HashFacts DEF Inv, TypeOK
  <1>5. FreshIsCurrent'
    BY <1>1, <1>3, HashFacts, VersionInt DEF Inv, FreshIsCurrent
  <1>6. OwnerIsCurrent'
    BY <1>1, <1>3, HashFacts, VersionFacts DEF Inv, OwnerIsCurrent
  <1>7. Ordered'
    <2>1. \A r \in Requests : req'[r].since <= expired'
      BY <1>1, <1>2, BackendIsAhead, VersionInt
    <2> QED  BY <1>2, <2>1 DEF Ordered
  <1> QED
    BY <1>1, <1>2, <1>4, <1>5, <1>6, <1>7
    DEF Inv, TypeOK, LoadsConsistent, FlightsConsistent, LeaderHasCurrent, NeverNil
\* A request that stays inside its function, or stays outside, keeps the flights.
LEMMA FlightsKept ==
    ASSUME Inv, NEW r \in Requests, flight' = flight,
           \A s \in Requests \ {r} : req'[s] = req[s],
           req'[r].pc \in Inside <=> req[r].pc \in Inside,
           req'[r].pc # "join", req'[r].inst = req[r].inst
    PROVE  FlightsConsistent'
  <1>1. \A i \in Instances : flight[i] # None => flight[i] \in Requests
    BY DEF Inv, TypeOK
  <1>2. \A s \in Requests : /\ req'[s].pc \in Inside <=> req[s].pc \in Inside
                            /\ req'[s].inst = req[s].inst
    OBVIOUS
  <1>3. ASSUME NEW s \in Requests, req'[s].pc = "join"
        PROVE  req'[s].leader \in Requests /\ req'[s].leader # s
    BY <1>3 DEF Inv, FlightsConsistent
  <1> QED  BY <1>1, <1>2, <1>3 DEF Inv, FlightsConsistent

\* A request inside its function that gets its result x: the parts of the invariant
\* about the hash are left to show.
LEMMA ResultPreserves ==
    ASSUME Inv, NEW r \in Requests, req[r].pc \in {"get", "load", "backend"}, NEW x \in Outcome,
           req' = [req EXCEPT ![r].pc = "del", ![r].val = x],
           x # None,
           (req[r].kind = "FetchNew" /\ x \in Version) => x >= req[r].since,
           \A s \in Requests \ {r} : load'[s] = load[s],
           load' \in [Requests -> Load],
           load'[r] = load[r] \/ load'[r] = [pc |-> "query", val |-> None],
           redis' \in Hash, redis'.t = "none" => redis'.o = None,
           FreshIsCurrent', OwnerIsCurrent',
           UNCHANGED <<db, expired, flight>>
    PROVE  Inv'
  <1>1. /\ req' \in [Requests -> Request]
        /\ req'[r].pc = "del"
        /\ req'[r].val = x
        /\ \A s \in Requests : /\ req'[s].kind = req[s].kind /\ req'[s].inst = req[s].inst
                                /\ req'[s].leader = req[s].leader
                                /\ req'[s].since = req[s].since
        /\ \A s \in Requests \ {r} : req'[s] = req[s]
    BY ReqMoves DEF Inv, ReqPc
  <1>2. TypeOK'
    BY <1>1 DEF Inv, TypeOK
  <1>3. Ordered'
    BY <1>1 DEF Inv, Ordered
  <1>4. LoadsConsistent'
    BY <1>1, VersionFacts DEF Inv, LoadsConsistent
  <1>5. FlightsConsistent'
    BY <1>1, FlightsKept DEF Inside
  <1>6. LeaderHasCurrent' /\ NeverNil'
    BY <1>1 DEF Inv, LeaderHasCurrent, NeverNil
  <1> QED  BY <1>2, <1>3, <1>4, <1>5, <1>6 DEF Inv

\* A value without the lock (FetchNew takes none that is marked), the result of a
\* load, or that of the backend.
LEMMA ReturnPreserves ==
    ASSUME Inv, NEW r \in Requests, getValue(r) \/ loadReturns(r) \/ backend(r)
    PROVE Inv'
  <1>1. UNCHANGED <<db, expired, redis, flight, load>> /\ req[r].pc \in {"get", "load", "backend"}
    BY DEF getValue, loadReturns, backend
  <1>2. /\ redis' \in Hash /\ (redis'.t = "none" => redis'.o = None)
        /\ load' \in [Requests -> Load]
        /\ FreshIsCurrent' /\ OwnerIsCurrent'
    BY <1>1 DEF Inv, TypeOK, FreshIsCurrent, OwnerIsCurrent
  <1>3. PICK x \in {redis.v, load[r].val, db, Err} :
           /\ req' = [req EXCEPT ![r].pc = "del", ![r].val = x]
           /\ x # None
           /\ (req[r].kind = "FetchNew" /\ x \in Version) => x >= req[r].since
    <2>1. CASE getValue(r)
      <3>1. /\ redis.v # None
            /\ req[r].kind = "FetchNew" => redis.t = "none"
        BY <2>1 DEF Inv, TypeOK, Hash, getValue, CanLock, Retry
      <3>2. (req[r].kind = "FetchNew" /\ redis.v \in Version) => redis.v >= req[r].since
        BY <3>1, BackendIsAhead, VersionInt DEF Inv, FreshIsCurrent
      <3> QED  BY <2>1, <3>1, <3>2 DEF getValue
    <2>2. CASE loadReturns(r)
      BY <2>2 DEF Inv, LoadsConsistent, loadReturns
    <2>3. CASE backend(r)
      BY <2>3, BackendIsAhead, VersionFacts DEF backend
    <2> QED  BY <2>1, <2>2, <2>3
  <1>4. x \in Outcome
    BY VersionFacts DEF Inv, TypeOK, Hash, Load
  <1> QED  BY <1>1, <1>2, <1>3, <1>4, ResultPreserves

\* The lock is taken before there is a load, so its new owner has read nothing yet.
LEMMA LockPreserves ==
    ASSUME Inv, NEW r \in Requests, req[r].pc = "get",
           redis' = LockedBy(r), UNCHANGED <<db, expired>>,
           \A s \in Requests \ {r} : load'[s] = load[s],
           load'[r] = load[r] \/ load'[r] = [pc |-> "query", val |-> None]
    PROVE  /\ redis' \in Hash /\ (redis'.t = "none" => redis'.o = None)
           /\ FreshIsCurrent' /\ OwnerIsCurrent'
  <1>1. redis' \in Hash /\ redis'.t = "held" /\ redis'.o = r
    BY DEF Inv, TypeOK, Hash, LockedBy
  <1>2. load'[r].pc # "store"
    BY DEF Inv, LoadsConsistent
  <1>3. FreshIsCurrent' /\ OwnerIsCurrent'
    BY <1>1, <1>2 DEF FreshIsCurrent, OwnerIsCurrent
  <1> QED  BY <1>1, <1>3

\* With the lock a request loads, and waits for it or returns the old value; that
\* value is marked, and only Fetch returns it.
LEMMA GetLockedPreserves ==
    ASSUME Inv, NEW r \in Requests, getLocked(r)
    PROVE Inv'
  <1>1. /\ req[r].pc = "get" /\ redis' = LockedBy(r)
        /\ UNCHANGED <<db, expired, flight>>
        /\ load' = [load EXCEPT ![r] = [pc |-> "query", val |-> None]]
    BY DEF getLocked
  <1>2. /\ load' \in [Requests -> Load]
        /\ load'[r] = [pc |-> "query", val |-> None]
        /\ \A s \in Requests \ {r} : load'[s] = load[s]
    BY <1>1, VersionFacts, LoadMoves DEF Inv, TypeOK, Load, LoadPc
  <1>3. /\ redis' \in Hash /\ (redis'.t = "none" => redis'.o = None)
        /\ FreshIsCurrent' /\ OwnerIsCurrent'
    BY <1>1, <1>2, LockPreserves
  <1>4. CASE redis.v = None \/ req[r].kind = "FetchNew"
    <2>1. req' = [req EXCEPT ![r].pc = "load"]
      BY <1>4 DEF getLocked
    <2>2. /\ req' \in [Requests -> Request]
          /\ req'[r].pc = "load"
          /\ \A s \in Requests : /\ req'[s].val = req[s].val
                                  /\ req'[s].kind = req[s].kind /\ req'[s].inst = req[s].inst
                                  /\ req'[s].leader = req[s].leader
                                  /\ req'[s].since = req[s].since
          /\ \A s \in Requests \ {r} : req'[s] = req[s]
      BY <2>1, ReqPcMoves DEF Inv, ReqPc
    <2>3. TypeOK' /\ Ordered'
      BY <1>1, <1>2, <1>3, <2>2 DEF Inv, TypeOK, Ordered
    <2>4. LoadsConsistent'
      BY <1>2, <2>2, VersionFacts DEF Inv, LoadsConsistent
    <2>5. FlightsConsistent'
      BY <1>1, <2>2, FlightsKept DEF Inside
    <2>6. LeaderHasCurrent' /\ NeverNil'
      BY <2>2 DEF Inv, LeaderHasCurrent, NeverNil
    <2> QED  BY <1>3, <2>3, <2>4, <2>5, <2>6 DEF Inv
  <1>5. CASE redis.v # None /\ req[r].kind # "FetchNew"
    <2>1. req' = [req EXCEPT ![r].pc = "del", ![r].val = redis.v]
      BY <1>5 DEF getLocked
    <2>2. redis.v \in Outcome
      BY VersionFacts DEF Inv, TypeOK, Hash
    <2> QED  BY <1>1, <1>2, <1>3, <1>5, <2>1, <2>2, ResultPreserves
  <1> QED  BY <1>4, <1>5

\* A failed call, with or without the lock it may have taken.
LEMMA GetFailsPreserves ==
    ASSUME Inv, NEW r \in Requests, getFails(r)
    PROVE Inv'
  <1>1. /\ req[r].pc = "get" /\ req' = [req EXCEPT ![r].pc = "del", ![r].val = Err]
        /\ UNCHANGED <<db, expired, flight, load>>
        /\ redis' = redis \/ redis' = LockedBy(r)
    BY DEF getFails
  <1>2. CASE redis' = redis
    BY <1>1, <1>2, ResultPreserves, VersionFacts
    DEF Inv, TypeOK, FreshIsCurrent, OwnerIsCurrent
  <1>3. CASE redis' = LockedBy(r)
    <2>1. /\ redis' \in Hash /\ (redis'.t = "none" => redis'.o = None)
          /\ FreshIsCurrent' /\ OwnerIsCurrent'
      BY <1>1, <1>3, LockPreserves
    <2>2. load' \in [Requests -> Load]
      BY <1>1 DEF Inv, TypeOK
    <2> QED  BY <1>1, <2>1, <2>2, ResultPreserves, VersionFacts
  <1> QED  BY <1>1, <1>2, <1>3

\* The end of a flight: the entry goes, then the result is there for those who joined.
LEMMA FlightEndPreserves ==
    ASSUME Inv, NEW r \in Requests, groupDel(r) \/ finish(r) \/ joinReturn(r)
    PROVE Inv'
  <1>1. UNCHANGED <<db, expired, redis, load>>
    BY DEF groupDel, finish, joinReturn
  <1>2. PICK p \in {"finish", "done"}, x \in Outcome :
           /\ x # None
           /\ req' = [req EXCEPT ![r].pc = p, ![r].val = x]
           /\ req[r].leader = r => x = req[r].val
    <2>1. CASE groupDel(r) \/ finish(r)
      <3>1. req[r].val \in Outcome /\ req[r].val # None
        BY <2>1 DEF Inv, TypeOK, Request, NeverNil, groupDel, finish
      <3>2. PICK p \in {"finish", "done"} : req' = [req EXCEPT ![r].pc = p]
        BY <2>1 DEF groupDel, finish
      <3>3. req' = [req EXCEPT ![r].pc = p, ![r].val = req[r].val]
        BY <3>2 DEF Inv, TypeOK, Request
      <3> QED  BY <3>1, <3>3
    <2>2. CASE joinReturn(r)
      <3>1. req[r].leader \in Requests /\ req[r].leader # r
        BY <2>2 DEF Inv, FlightsConsistent, joinReturn
      <3>2. req[req[r].leader].val \in Outcome /\ req[req[r].leader].val # None
        BY <2>2, <3>1 DEF Inv, TypeOK, Request, NeverNil, joinReturn
      <3> QED  BY <2>2, <3>1, <3>2 DEF joinReturn
    <2> QED  BY <2>1, <2>2
  <1>3. /\ req' \in [Requests -> Request]
        /\ req'[r].pc = p
        /\ req'[r].val = x
        /\ \A s \in Requests : /\ req'[s].kind = req[s].kind /\ req'[s].inst = req[s].inst
                                /\ req'[s].leader = req[s].leader
                                /\ req'[s].since = req[s].since
        /\ \A s \in Requests \ {r} : req'[s] = req[s]
    BY <1>2, ReqMoves DEF Inv, ReqPc
  <1>4. TypeOK'
    BY <1>1, <1>3 DEF Inv, TypeOK, groupDel, finish, joinReturn
  <1>5. Ordered' /\ FreshIsCurrent' /\ OwnerIsCurrent'
    BY <1>1, <1>3 DEF Inv, Ordered, FreshIsCurrent, OwnerIsCurrent
  <1>6. LoadsConsistent'
    BY <1>1, <1>3 DEF Inv, LoadsConsistent
  <1>7. FlightsConsistent'
    <2>1. CASE groupDel(r)
      <3>1. flight' = [flight EXCEPT ![req[r].inst] = None]
        BY <2>1 DEF groupDel
      <3>2. \A s \in Requests \ {r} : req[s].pc \in Inside => req[s].inst # req[r].inst
        BY <2>1, VersionFacts DEF Inv, FlightsConsistent, groupDel, Inside
      <3> QED  BY <1>3, <3>1, <3>2, VersionFacts DEF Inv, TypeOK, FlightsConsistent, Inside
    <2>2. CASE finish(r) \/ joinReturn(r)
      <3>1. req[r].pc \notin Inside /\ flight' = flight
        BY <2>2 DEF finish, joinReturn, Inside
      <3> QED  BY <1>3, <3>1, FlightsKept DEF Inside
    <2> QED  BY <2>1, <2>2
  <1>8. LeaderHasCurrent' /\ NeverNil'
    BY <1>2, <1>3 DEF Inv, LeaderHasCurrent, NeverNil
  <1> QED  BY <1>4, <1>5, <1>6, <1>7, <1>8 DEF Inv

-----------------------------------------------------------------------------
(* Theorems *)

\* Every step of the program preserves the invariant.
LEMMA NextPreserves == Inv /\ [Next]_vars => Inv'
  <1> SUFFICES ASSUME Inv, [Next]_vars PROVE Inv'
    OBVIOUS
  <1>1. ASSUME NEW r \in Requests, NEW k \in Kinds, NEW i \in Instances, Begin(r, k, i)
        PROVE  Inv'
    BY <1>1, BeginPreserves
  <1>2. ASSUME NEW r \in Requests, requestStep(r) PROVE Inv'
    BY <1>2, GetLockedPreserves, ReturnPreserves, FlightEndPreserves DEF requestStep
  <1>3. ASSUME NEW r \in Requests, getFails(r) PROVE Inv'
    BY <1>3, GetFailsPreserves
  <1>4. ASSUME NEW r \in Requests, loadStep(r) PROVE Inv'
    BY <1>4, QueryPreserves, StorePreserves, DropPreserves DEF loadStep
  <1>5. CASE UNCHANGED vars
    BY <1>5 DEF vars, Inv, TypeOK, Ordered, FreshIsCurrent, OwnerIsCurrent, LoadsConsistent,
                FlightsConsistent, LeaderHasCurrent, NeverNil
  <1> QED  BY <1>1, <1>2, <1>3, <1>4, <1>5, OutsidePreserves DEF Next

\* The invariant holds in every reachable state of the cache.
THEOREM InvariantHolds == Spec => []Inv
  BY InitEstablishes, NextPreserves, PTL DEF Spec

\* The hash, the flights, the requests and the loads stay well formed; an entry
\* without a lock time has no owner.
THEOREM TypeCorrect == Spec => []TypeOK
  <1>1. Inv => TypeOK  BY DEF Inv
  <1> QED  BY <1>1, InvariantHolds, PTL

\* cacheSetScript and cacheExpireScript: whatever loads, expiries and time-outs race,
\* a stale value in the hash is always marked.
THEOREM StaleIsMarked == Spec => []FreshIsCurrent
  <1>1. Inv => FreshIsCurrent  BY DEF Inv
  <1> QED  BY <1>1, InvariantHolds, PTL

\* The owner check of cacheSetScript is enough: who still owns the lock has read a
\* value that is current.
THEOREM OwnerCheckSuffices == Spec => []OwnerIsCurrent
  <1>1. Inv => OwnerIsCurrent  BY DEF Inv
  <1> QED  BY <1>1, InvariantHolds, PTL

\* FetchNew is strongly consistent for the request that leads its flight.
THEOREM LeaderIsConsistent == Spec => []LeaderReadsCurrent
  <1>1. Inv => LeaderReadsCurrent  BY DEF Inv, LeaderHasCurrent, LeaderReadsCurrent, Led
  <1> QED  BY <1>1, InvariantHolds, PTL

\* Fetch and FetchNew never convert a nil value to a string.
THEOREM NeverConvertsNil == Spec => []NeverNil
  <1>1. Inv => NeverNil  BY DEF Inv
  <1> QED  BY <1>1, InvariantHolds, PTL

\* CacheGroup lets one request of an instance at a time into its function.
THEOREM OneFlight == Spec => []SingleFlight
  <1>1. Inv => SingleFlight  BY DEF Inv, FlightsConsistent, SingleFlight, Inside
  <1> QED  BY <1>1, InvariantHolds, PTL

\* Together: the hash and the flights are consistent, for any number of requests,
\* instances and updates, with or without faults.
THEOREM CacheStaysConsistent == Spec => []CacheConsistent
  <1>1. FreshIsCurrent /\ OwnerIsCurrent /\ SingleFlight /\ NeverNil => CacheConsistent
    BY DEF CacheConsistent
  <1> QED  BY <1>1, StaleIsMarked, OwnerCheckSuffices, OneFlight, NeverConvertsNil, PTL
=============================================================================
