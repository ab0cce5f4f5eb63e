------------------------------- MODULE RdbCache -------------------------------
(***************************************************************************)
(* rdb/cache.go: a cache kept in a redis hash and shared by several        *)
(* program instances, in front of a backend.  A read that misses, or finds *)
(* its entry marked expired, takes a lock stored in the hash, loads from   *)
(* the backend and stores the value only if it still owns the lock.  In    *)
(* each instance the reads of a key go through a CacheGroup                *)
(* (async/cache_group.go), so that one request leads and the others join   *)
(* its flight and share its result.                                        *)
(*                                                                         *)
(* One key.  A Lua script is one atomic step on the hash.  The value of    *)
(* the backend is its version number: 1, 2, ... counts the updates.        *)
(***************************************************************************)
EXTENDS Integers, FiniteSets

CONSTANTS
    Requests,       \* calls of Fetch, FetchNew or FetchBackend, one each
    Instances,      \* program instances
    Kinds,          \* the methods that are called
    None,           \* nil
    Err,            \* an error instead of a value
    EmptyVersions,  \* versions of the backend whose value is the empty string
    CacheEmpty,     \* EmptyCacheTTL >= 0
    ShortTTL,       \* a TTL that, less its random part, may round down to 0 seconds
    Faults,         \* calls to redis and to the backend may fail
    MaxVersion      \* bound on the updates of the backend

ASSUME CacheAssumption ==
    /\ Kinds \subseteq {"Fetch", "FetchNew", "FetchBackend"}
    /\ MaxVersion \in Nat
    /\ EmptyVersions \subseteq Nat
    /\ None \notin Nat \cup Requests \cup Instances /\ Err \notin Nat /\ None # Err
    /\ CacheEmpty \in BOOLEAN /\ ShortTTL \in BOOLEAN /\ Faults \in BOOLEAN

VARIABLES
    db,         \* the backend's version
    expired,    \* history: the version current at the last Expire or Del
    redis,      \* the hash: v, t (lock time), o (lock owner), and whether it has a TTL
    flight,     \* CacheGroup of each instance: the request that leads, if any
    req,        \* requests
    load        \* calls of load(), by the request they are made for

vars == <<db, expired, redis, flight, req, load>>

Version == 0 .. MaxVersion
Outcome == Version \cup {None, Err}
Absent == [v |-> None, t |-> "none", o |-> None, ttl |-> FALSE]
Hash == [v : Version \cup {None}, t : {"none", "held", "expired"},
         o : Requests \cup {None}, ttl : BOOLEAN]
Request == [pc : {"idle", "get", "load", "backend", "del", "finish", "join", "done"},
            kind : Kinds \cup {None}, inst : Instances \cup {None}, leader : Requests \cup {None}, val : Outcome,
            since : Version]
Load == [pc : {"none", "query", "store", "delete", "unlock", "done"}, val : Outcome]

TypeOK ==
    /\ db \in Version
    /\ expired \in Version
    /\ redis \in Hash
    /\ redis.t = "none" => redis.o = None
    /\ flight \in [Instances -> Requests \cup {None}]
    /\ req \in [Requests -> Request]
    /\ load \in [Requests -> Load]

-----------------------------------------------------------------------------
(* fetchInCacheGroup and CacheGroup.Do *)

\* The request leads when the group has no holder for the key, else it joins.
FirstIn(i) == flight[i] = None

Begin(r, k, i) ==
    /\ req[r].pc = "idle"
    /\ req' = [req EXCEPT ![r] =
          [pc |-> IF ~FirstIn(i) THEN "join" ELSE IF k = "FetchBackend" THEN "backend" ELSE "get",
           kind |-> k, inst |-> i,
           leader |-> IF FirstIn(i) THEN r ELSE flight[i],
           val |-> None, since |-> expired]]
    /\ flight' = IF FirstIn(i) THEN [flight EXCEPT ![i] = r] ELSE flight
    /\ UNCHANGED <<db, expired, redis, load>>

\* The leader's function has returned: the group's entry is deleted,
groupDel(r) ==
    /\ req[r].pc = "del"
    /\ req' = [req EXCEPT ![r].pc = "finish"]
    /\ flight' = [flight EXCEPT ![req[r].inst] = None]
    /\ UNCHANGED <<db, expired, redis, load>>

\* and only then the holder gets its result and wg.Done().
finish(r) ==
    /\ req[r].pc = "finish"
    /\ req' = [req EXCEPT ![r].pc = "done"]
    /\ UNCHANGED <<db, expired, redis, flight, load>>

joinReturn(r) ==
    /\ req[r].pc = "join"
    /\ req[req[r].leader].pc = "done"
    /\ req' = [req EXCEPT ![r].pc = "done", ![r].val = req[req[r].leader].val]
    /\ UNCHANGED <<db, expired, redis, flight, load>>

-----------------------------------------------------------------------------
(* Fetch, FetchNew, FetchBackend *)

\* cacheGetScript locks an entry whose lock time has passed or that has no value.
CanLock_OnlyEmpty == redis.t = "none" /\ redis.v = None
CanLock == redis.t = "expired" \/ (redis.t = "none" /\ redis.v = None)

LockedBy(r) == [redis EXCEPT !.t = "held", !.o = r]

\* The loop of Fetch goes on while there is neither a value nor the lock, the loop
\* of FetchNew while somebody else has the lock.
Retry_FetchNewLikeFetch(k) == redis.v = None
Retry(k) == IF k = "Fetch" THEN redis.v = None ELSE redis.t # "none"

\* The lock was obtained: load at once and return the new value, or, when Fetch
\* has an old value, return that and load in another goroutine.
getLocked(r) ==
    /\ req[r].pc = "get"
    /\ CanLock
    /\ redis' = LockedBy(r)
    /\ load' = [load EXCEPT ![r] = [pc |-> "query", val |-> None]]
    /\ req' = IF redis.v = None \/ req[r].kind = "FetchNew"
              THEN [req EXCEPT ![r].pc = "load"]
              ELSE [req EXCEPT ![r].pc = "del", ![r].val = redis.v]
    /\ UNCHANGED <<db, expired, flight>>

getValue(r) ==
    /\ req[r].pc = "get"
    /\ ~CanLock
    /\ ~Retry(req[r].kind)
    /\ req' = [req EXCEPT ![r].pc = "del", ![r].val = redis.v]
    /\ UNCHANGED <<db, expired, redis, flight, load>>

\* The call fails, perhaps after the script took the lock: nobody releases it then.
getFails(r) ==
    /\ Faults
    /\ req[r].pc = "get"
    /\ \/ UNCHANGED redis
       \/ CanLock /\ redis' = LockedBy(r)
    /\ req' = [req EXCEPT ![r].pc = "del", ![r].val = Err]
    /\ UNCHANGED <<db, expired, flight, load>>

loadReturns(r) ==
    /\ req[r].pc = "load"
    /\ load[r].pc = "done"
    /\ req' = [req EXCEPT ![r].pc = "del", ![r].val = load[r].val]
    /\ UNCHANGED <<db, expired, redis, flight, load>>

backend(r) ==
    /\ req[r].pc = "backend"
    /\ \/ req' = [req EXCEPT ![r].pc = "del", ![r].val = db]
       \/ Faults /\ req' = [req EXCEPT ![r].pc = "del", ![r].val = Err]
    /\ UNCHANGED <<db, expired, redis, flight, load>>

-----------------------------------------------------------------------------
(* load, called by the request or in a goroutine of its own *)

\* onLoad: the backend is read, which may fail.
query(r) ==
    /\ load[r].pc = "query"
    /\ \/ load' = [load EXCEPT ![r] =
                     [pc |-> IF db \in EmptyVersions /\ ~CacheEmpty THEN "delete" ELSE "store",
                      val |-> db]]
       \/ Faults /\ load' = [load EXCEPT ![r] = [pc |-> "unlock", val |-> Err]]
    /\ UNCHANGED <<db, expired, redis, flight, req>>

\* What cacheSetScript leaves in redis: the value without a lock, or nothing when
\* the TTL rounds down to 0, since EXPIRE 0 deletes the key.
Written_KeepingOwner(x) == {[redis EXCEPT !.v = x, !.t = "none", !.ttl = TRUE]}
Written(x) ==
    {[v |-> x, t |-> "none", o |-> None, ttl |-> TRUE]} \cup IF ShortTTL THEN {Absent} ELSE {}

\* cacheSetScript with the owner: refused when the lock is no longer ours.
Stored_Unchecked(r) == Written(load[r].val)
Stored(r) == IF redis.o = r THEN Written(load[r].val) ELSE {redis}

store(r) ==
    /\ load[r].pc = "store"
    /\ \/ /\ redis' \in Stored(r)
          /\ load' = [load EXCEPT ![r].pc = "done"]
       \/ /\ Faults
          /\ redis' \in Stored(r) \cup {redis}
          /\ load' = [load EXCEPT ![r] = [pc |-> "done", val |-> Err]]
    /\ UNCHANGED <<db, expired, flight, req>>

\* An empty value that is not to be cached: the key is deleted, owner or not.
delete(r) ==
    /\ load[r].pc = "delete"
    /\ \/ /\ redis' = Absent
          /\ load' = [load EXCEPT ![r].pc = "done"]
       \/ /\ Faults
          /\ redis' \in {redis, Absent}
          /\ load' = [load EXCEPT ![r] = [pc |-> "done", val |-> Err]]
    /\ UNCHANGED <<db, expired, flight, req>>

\* cacheUnlockScript; its error is ignored.
unlock(r) ==
    /\ load[r].pc = "unlock"
    /\ \/ redis' = IF redis.o = r THEN [redis EXCEPT !.t = "expired", !.o = None] ELSE redis
       \/ Faults /\ UNCHANGED redis
    /\ load' = [load EXCEPT ![r].pc = "done"]
    /\ UNCHANGED <<db, expired, flight, req>>

-----------------------------------------------------------------------------
(* The application and the passing of time *)

\* The application updates the backend, and then calls Expire or Del.
Update ==
    /\ db < MaxVersion
    /\ db' = db + 1
    /\ UNCHANGED <<expired, redis, flight, req, load>>

\* cacheExpireScript does nothing to a key that does not exist.
Marked == IF redis = Absent THEN redis
          ELSE [redis EXCEPT !.t = "expired", !.o = None, !.ttl = TRUE]

Expire ==
    /\ redis' = Marked
    /\ expired' = db
    /\ UNCHANGED <<db, flight, req, load>>

Del ==
    /\ redis' = Absent
    /\ expired' = db
    /\ UNCHANGED <<db, flight, req, load>>

\* Set does not look at the lock; the application sets what it has read or written.
Set ==
    /\ redis' \in Written(db)
    /\ UNCHANGED <<db, expired, flight, req, load>>

\* LockTTL has passed.
lockTimesOut ==
    /\ redis.t = "held"
    /\ redis' = [redis EXCEPT !.t = "expired"]
    /\ UNCHANGED <<db, expired, flight, req, load>>

\* redis drops a key whose TTL has passed.
keyTimesOut ==
    /\ redis.ttl
    /\ redis' = Absent
    /\ UNCHANGED <<db, expired, flight, req, load>>

-----------------------------------------------------------------------------
Init ==
    /\ db = 0
    /\ expired = 0
    /\ redis = Absent
    /\ flight = [i \in Instances |-> None]
    /\ req = [r \in Requests |-> [pc |-> "idle", kind |-> None, inst |-> None, leader |-> None,
                                  val |-> None, since |-> 0]]
    /\ load = [r \in Requests |-> [pc |-> "none", val |-> None]]

requestStep(r) ==
    \/ getLocked(r) \/ getValue(r) \/ loadReturns(r) \/ backend(r)
    \/ groupDel(r) \/ finish(r) \/ joinReturn(r)

loadStep(r) == query(r) \/ store(r) \/ delete(r) \/ unlock(r)

Next ==
    \/ \E r \in Requests : \/ \E k \in Kinds, i \in Instances : Begin(r, k, i)
                           \/ requestStep(r)
                           \/ getFails(r)
                           \/ loadStep(r)
    \/ Update
    \/ Expire
    \/ Del
    \/ Set
    \/ lockTimesOut
    \/ keyTimesOut

Spec == Init /\ [][Next]_vars

\* Goroutines run on, a retry loop tries again after LockRetryDelay, and LockTTL passes.
\* Nothing makes a call fail, so getFails is not part of what must happen.
Fairness ==
    /\ \A r \in Requests : WF_vars(requestStep(r)) /\ WF_vars(loadStep(r))
    /\ WF_vars(lockTimesOut)

FairSpec == Spec /\ Fairness

-----------------------------------------------------------------------------
(* Properties *)

\* A value in the hash that is not marked (no lock time) is never older than the
\* version current at the last Expire or Del: stale values are always marked.
FreshIsCurrent == (redis.v # None /\ redis.t = "none") => redis.v >= expired

\* Who still owns the lock and has loaded a value did so after the last Expire, so
\* what it is about to store is not stale.
OwnerIsCurrent ==
    \A r \in Requests : (redis.o = r /\ load[r].pc = "store") => load[r].val >= expired

\* A request that led its flight to the end.
Led(r) == req[r].pc = "done" /\ req[r].leader = r

\* "strong consistency ... returns the latest value" (FetchNew): a FetchNew that
\* leads its flight returns no version older than the last Expire before the call.
LeaderReadsCurrent ==
    \A r \in Requests : (Led(r) /\ req[r].kind = "FetchNew" /\ req[r].val \in Version) =>
        req[r].val >= req[r].since

\* val.(string) is never applied to nil: a request has a value or an error before
\* its function returns.
NeverNil == \A r \in Requests : req[r].pc \in {"del", "finish", "done"} => req[r].val # None

\* Single flight: at most one request of an instance is inside its function.
SingleFlight ==
    \A r, s \in Requests :
        (/\ req[r].inst = req[s].inst
         /\ req[r].pc \in {"get", "load", "backend", "del"}
         /\ req[s].pc \in {"get", "load", "backend", "del"}) => r = s

\* The hash and the flights are consistent: what is not marked is current, who may store
\* has a current value, one request per instance loads, and none returns nil as a value.
CacheConsistent == FreshIsCurrent /\ OwnerIsCurrent /\ SingleFlight /\ NeverNil

\* Every request returns, whatever locks were lost on the way.
AllReturn == \A r \in Requests : (req[r].pc # "idle") ~> (req[r].pc = "done")

(* What the comment says and joined flights do not keep. *)

\* FetchNew "strong consistency": every FetchNew, joined or not, returns no version
\* older than the last Expire before the call.
FetchNewIsCurrent ==
    \A r \in Requests :
        (req[r].pc = "done" /\ req[r].kind = "FetchNew" /\ req[r].val \in Version) =>
            req[r].val >= req[r].since
=============================================================================
