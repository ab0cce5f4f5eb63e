------------------------------- MODULE Flights --------------------------------
(***************************************************************************)
(* Single flight, as CacheGroup promises it (the comment on the type in    *)
(* async/cache_group.go): a key has at most one flight at a time, a flight *)
(* lands once with the result of one task, and everyone who asked for the  *)
(* key while the flight was the key's gets that result.                    *)
(***************************************************************************)
EXTENDS Naturals

CONSTANTS
    FlightProcs, FlightKeys, FlightValues,
    MaxFlights,     \* bound on the flights opened
    NoValue

VARIABLES
    current,    \* key -> its flight; 0 is none
    opened,     \* number of flights opened so far
    value,      \* flight -> the result it landed with
    asked,      \* process -> the flight it was told to wait for; 0 is none
    answer      \* process -> the last result it was given

flightVars == <<current, opened, value, asked, answer>>

FlightsInit ==
    /\ current = [k \in FlightKeys |-> 0]
    /\ opened = 0
    /\ value = [f \in 1 .. MaxFlights |-> NoValue]
    /\ asked = [p \in FlightProcs |-> 0]
    /\ answer = [p \in FlightProcs |-> NoValue]

Open(p, k) ==
    /\ asked[p] = 0 /\ current[k] = 0
    /\ opened' = opened + 1
    /\ current' = [current EXCEPT ![k] = opened']
    /\ asked' = [asked EXCEPT ![p] = opened']
    /\ UNCHANGED <<value, answer>>

Join(p, k) ==
    /\ asked[p] = 0 /\ current[k] # 0
    /\ asked' = [asked EXCEPT ![p] = current[k]]
    /\ UNCHANGED <<current, opened, value, answer>>

Land(f, v) ==
    /\ value[f] = NoValue
    /\ value' = [value EXCEPT ![f] = v]
    /\ UNCHANGED <<current, opened, asked, answer>>

Answer(p) ==
    /\ asked[p] # 0 /\ value[asked[p]] # NoValue
    /\ answer' = [answer EXCEPT ![p] = value[asked[p]]]
    /\ asked' = [asked EXCEPT ![p] = 0]
    /\ UNCHANGED <<current, opened, value>>

\* A process gives up: its own task panicked.
Fail(p) ==
    /\ asked[p] # 0
    /\ asked' = [asked EXCEPT ![p] = 0]
    /\ UNCHANGED <<current, opened, value, answer>>

Drop(k) ==
    /\ current[k] # 0
    /\ current' = [current EXCEPT ![k] = 0]
    /\ UNCHANGED <<opened, value, asked, answer>>

FlightsNext ==
    \/ \E p \in FlightProcs, k \in FlightKeys : Open(p, k) \/ Join(p, k)
    \/ \E f \in 1 .. MaxFlights, v \in FlightValues : Land(f, v)
    \/ \E p \in FlightProcs : Answer(p) \/ Fail(p)
    \/ \E k \in FlightKeys : Drop(k)

FlightsSpec == FlightsInit /\ [][FlightsNext]_flightVars
=============================================================================
