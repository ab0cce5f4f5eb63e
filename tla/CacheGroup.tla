------------------------------ MODULE CacheGroup ------------------------------
(***************************************************************************)
(* async/cache_group.go: Do runs the task of the first caller of a key and *)
(* gives its result to everyone; the lock guards the map only, so the task *)
(* runs, its result is written and the holder's WaitGroup is released      *)
(* without it, and Del may take the holder out of the map meanwhile.  A    *)
(* task may panic (RdbCache, which uses the group, is modelled on its own).*)
(***************************************************************************)
EXTENDS Naturals

CONSTANTS
    FlightProcs,    \* calling goroutines
    FlightKeys, FlightValues,
    MaxFlights,     \* bound on the holders created
    NoValue         \* a nil result

ASSUME CacheGroupAssumption == MaxFlights \in Nat /\ NoValue \notin FlightValues

CacheHolders == 1 .. MaxFlights

VARIABLES
    cached,     \* g.holders; 0 is the absent entry
    cacheNew,   \* number of holders created
    released,   \* the holders whose WaitGroup is at zero
    cacheResult,\* holder.result
    cpc,        \* what each goroutine is doing
    chold,      \* the holder it uses
    cret,       \* what its last Do or Get returned
    paniced     \* the holders whose task has panicked

cacheVars == <<cached, cacheNew, released, cacheResult, cpc, chold, cret, paniced>>

CacheTypeOK ==
    /\ cached \in [FlightKeys -> 0 .. cacheNew]
    /\ cacheNew \in 0 .. MaxFlights
    /\ released \subseteq 1 .. cacheNew /\ paniced \subseteq 1 .. cacheNew
    /\ cacheResult \in [CacheHolders -> FlightValues \cup {NoValue}]
    /\ cpc \in [FlightProcs -> {"idle", "run", "done", "read", "wait"}]
    /\ chold \in [FlightProcs -> 0 .. cacheNew]
    /\ cret \in [FlightProcs -> FlightValues \cup {NoValue}]

\* Do, with g.lock held: the first caller creates the holder, the others wait for it.
Do_Anew(p, k) ==
    /\ cpc[p] = "idle"
    /\ cacheNew < MaxFlights
    /\ cacheNew' = cacheNew + 1
    /\ cached' = [cached EXCEPT ![k] = cacheNew']
    /\ cpc' = [cpc EXCEPT ![p] = "run"]
    /\ chold' = [chold EXCEPT ![p] = cacheNew']
    /\ UNCHANGED <<released, cacheResult, cret, paniced>>
Do(p, k) ==
    /\ cpc[p] = "idle"
    /\ IF cached[k] # 0
       THEN /\ cpc' = [cpc EXCEPT ![p] = "wait"]
            /\ chold' = [chold EXCEPT ![p] = cached[k]]
            /\ UNCHANGED <<cached, cacheNew>>
       ELSE /\ cacheNew < MaxFlights
            /\ cacheNew' = cacheNew + 1
            /\ cached' = [cached EXCEPT ![k] = cacheNew']
            /\ cpc' = [cpc EXCEPT ![p] = "run"]
            /\ chold' = [chold EXCEPT ![p] = cacheNew']
    /\ UNCHANGED <<released, cacheResult, cret, paniced>>

\* Get waits for the holder that is there, or returns nil.
Get(p, k) ==
    /\ cpc[p] = "idle" /\ cached[k] # 0
    /\ cpc' = [cpc EXCEPT ![p] = "wait"]
    /\ chold' = [chold EXCEPT ![p] = cached[k]]
    /\ UNCHANGED <<cached, cacheNew, released, cacheResult, cret, paniced>>

\* Del also returns holder.result, read while the task may be writing it.
Del(k) ==
    /\ cached[k] # 0
    /\ cached' = [cached EXCEPT ![k] = 0]
    /\ UNCHANGED <<cacheNew, released, cacheResult, cpc, chold, cret, paniced>>

\* holder.result = task.Run(), then wg.Done(), then holder.result is read again.
taskResult(p, v) ==
    /\ cpc[p] = "run"
    /\ cacheResult' = [cacheResult EXCEPT ![chold[p]] = v]
    /\ cpc' = [cpc EXCEPT ![p] = "done"]
    /\ UNCHANGED <<cached, cacheNew, released, chold, cret, paniced>>

taskPanics(p) ==
    /\ cpc[p] = "run"
    /\ paniced' = paniced \cup {chold[p]}
    /\ cpc' = [cpc EXCEPT ![p] = "idle"] /\ chold' = [chold EXCEPT ![p] = 0]
    /\ UNCHANGED <<cached, cacheNew, released, cacheResult, cret>>

wgDone_Missing(p) ==
    /\ cpc[p] = "done"
    /\ cpc' = [cpc EXCEPT ![p] = "read"]
    /\ UNCHANGED <<cached, cacheNew, released, cacheResult, chold, cret, paniced>>
wgDone(p) ==
    /\ cpc[p] = "done"
    /\ released' = released \cup {chold[p]}
    /\ cpc' = [cpc EXCEPT ![p] = "read"]
    /\ UNCHANGED <<cached, cacheNew, cacheResult, chold, cret, paniced>>

\* The result is read: by the owner at once, by the others after wg.Wait().
readResult(p) ==
    /\ cpc[p] = "read" \/ (cpc[p] = "wait" /\ chold[p] \in released)
    /\ cret' = [cret EXCEPT ![p] = cacheResult[chold[p]]]
    /\ cpc' = [cpc EXCEPT ![p] = "idle"] /\ chold' = [chold EXCEPT ![p] = 0]
    /\ UNCHANGED <<cached, cacheNew, released, cacheResult, paniced>>

-----------------------------------------------------------------------------
CacheInit ==
    /\ cached = [k \in FlightKeys |-> 0] /\ cacheNew = 0
    /\ released = {} /\ paniced = {}
    /\ cacheResult = [h \in CacheHolders |-> NoValue]
    /\ cpc = [p \in FlightProcs |-> "idle"] /\ chold = [p \in FlightProcs |-> 0]
    /\ cret = [p \in FlightProcs |-> NoValue]

cacheStep(p) ==
    (\E v \in FlightValues : taskResult(p, v)) \/ wgDone(p) \/ readResult(p)

CacheNext ==
    \/ \E p \in FlightProcs : \/ \E k \in FlightKeys : Do(p, k) \/ Get(p, k)
                              \/ cacheStep(p) \/ taskPanics(p)
    \/ \E k \in FlightKeys : Del(k)

\* A task returns or panics, and what was called goes on.
CacheFairness == \A p \in FlightProcs : WF_cacheVars(cacheStep(p) \/ taskPanics(p))

CacheSpec == CacheInit /\ [][CacheNext]_cacheVars /\ CacheFairness

-----------------------------------------------------------------------------
(* Properties *)

Flight == INSTANCE Flights WITH
    current <- cached, opened <- cacheNew, value <- cacheResult, asked <- chold, answer <- cret

\* CacheGroup is single flight: the result of the one task that a holder runs is what
\* everyone gets who found the holder, deletions and restarts notwithstanding.
ImplementsFlights == []CacheTypeOK /\ Flight!FlightsSpec

\* Do and Get return, unless the task they wait for panicked: nobody else releases
\* the holder (cache_group.go:44), even after it left the map.
DoReturns ==
    \A p \in FlightProcs : (cpc[p] = "wait") ~> (cpc[p] = "idle" \/ chold[p] \in paniced)
=============================================================================
