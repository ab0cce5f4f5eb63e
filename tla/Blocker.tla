------------------------------- MODULE Blocker --------------------------------
(***************************************************************************)
(* async/blocker.go: a value that Get waits for.  Put and Remove keep      *)
(* hasValue and the WaitGroup in step under the lock; Get waits for the    *)
(* WaitGroup without it and takes the lock to read the value afterwards.   *)
(* nil is a value too.  A goroutine that the WaitGroup has woken looks at  *)
(* it again, and panics if it was added to meanwhile ("WaitGroup is reused *)
(* before previous Wait has returned").                                    *)
(***************************************************************************)
EXTENDS Integers

CONSTANTS
    BlockerProcs,
    BlockerValues,  \* the values that are put
    NilValue        \* nil, which may be one of them

VARIABLES
    hasValue, val,  \* the fields of the Blocker
    blockerWg,      \* its WaitGroup
    getter,         \* what each goroutine in Get is doing
    got,            \* what its last Get returned
    undone          \* history: the goroutines in Get that a Remove has overtaken

blockerVars == <<hasValue, val, blockerWg, getter, got, undone>>

BlockerTypeOK ==
    /\ hasValue \in BOOLEAN /\ val \in BlockerValues \cup {NilValue}
    /\ blockerWg \in Nat        \* below zero Done() panics
    /\ getter \in [BlockerProcs -> {"idle", "wait", "woken", "read", "panicked"}]
    /\ got \in [BlockerProcs -> BlockerValues \cup {NilValue}]
    /\ undone \subseteq BlockerProcs

\* wg.Done wakes whoever waits.
BlockerPut_NilBlocks(v) ==
    /\ val' = v /\ hasValue' = TRUE
    /\ blockerWg' = IF hasValue \/ v = NilValue THEN blockerWg ELSE blockerWg - 1
    /\ getter' = IF blockerWg' = 0 THEN [p \in BlockerProcs |-> IF getter[p] = "wait" THEN "woken" ELSE getter[p]]
                                   ELSE getter
    /\ UNCHANGED <<got, undone>>
BlockerPut(v) ==
    /\ val' = v /\ hasValue' = TRUE
    /\ blockerWg' = IF hasValue THEN blockerWg ELSE blockerWg - 1
    /\ getter' = IF blockerWg' = 0 THEN [p \in BlockerProcs |-> IF getter[p] = "wait" THEN "woken" ELSE getter[p]]
                                   ELSE getter
    /\ UNCHANGED <<got, undone>>

BlockerRemove ==
    /\ val' = NilValue /\ hasValue' = FALSE
    /\ blockerWg' = IF hasValue THEN blockerWg + 1 ELSE blockerWg
    /\ undone' = {p \in BlockerProcs : getter[p] \in {"woken", "read"}}
    /\ UNCHANGED <<getter, got>>

\* Get begins to wait, or need not.
BlockerGet(p) ==
    /\ getter[p] = "idle"
    /\ getter' = [getter EXCEPT ![p] = IF blockerWg = 0 THEN "read" ELSE "wait"]
    /\ undone' = undone \ {p}
    /\ UNCHANGED <<hasValue, val, blockerWg, got>>

\* Woken, it sees whether the WaitGroup is still at zero.
getWaited(p) ==
    /\ getter[p] = "woken"
    /\ getter' = [getter EXCEPT ![p] = IF blockerWg = 0 THEN "read" ELSE "panicked"]
    /\ UNCHANGED <<hasValue, val, blockerWg, got, undone>>

getRead(p) ==
    /\ getter[p] = "read"
    /\ got' = [got EXCEPT ![p] = val]
    /\ getter' = [getter EXCEPT ![p] = "idle"]
    /\ UNCHANGED <<hasValue, val, blockerWg, undone>>

\* NewBlocker adds one to the WaitGroup, NewBlockerOf, of nil too, does not.
BlockerInit ==
    /\ \/ hasValue = FALSE /\ val = NilValue /\ blockerWg = 1
       \/ hasValue = TRUE /\ val \in BlockerValues \cup {NilValue} /\ blockerWg = 0
    /\ getter = [p \in BlockerProcs |-> "idle"]
    /\ got = [p \in BlockerProcs |-> NilValue]
    /\ undone = {}

BlockerNext ==
    \/ \E v \in BlockerValues : BlockerPut(v)
    \/ BlockerRemove
    \/ \E p \in BlockerProcs : BlockerGet(p) \/ getWaited(p) \/ getRead(p)

BlockerSpec == BlockerInit /\ [][BlockerNext]_blockerVars

-----------------------------------------------------------------------------
(* Properties *)

\* Get blocks exactly while nothing was put, nil being something: the WaitGroup and
\* hasValue stay in step through repeated Puts and Removes.
BlocksIffEmpty == blockerWg = IF hasValue THEN 0 ELSE 1

\* Nobody waits while there is a value.
NobodyLeftWaiting == hasValue => \A p \in BlockerProcs : getter[p] # "wait"

\* A Get comes back with the value that the Blocker holds, and without one, or panics,
\* only if a Remove came between the end of its wait and its reading of the value.
GetSeesValue ==
    [][\A p \in BlockerProcs :
          /\ getter[p] = "read" /\ getter'[p] = "idle" => got'[p] = val /\ (hasValue \/ p \in undone)
          /\ getter[p] = "woken" /\ getter'[p] = "panicked" => p \in undone]_blockerVars

\* A Get waits exactly until something is put, through repeated Puts and Removes, and
\* returns it unless a Remove overtakes it.
BlocksUntilValue == [](BlockerTypeOK /\ BlocksIffEmpty /\ NobodyLeftWaiting) /\ GetSeesValue

(* What the comment says and the use of the WaitGroup does not keep. *)

\* "Get blocks until it gets a value" (async/blocker.go:35): it neither returns before nor
\* fails.
GetGetsValue == \A p \in BlockerProcs : getter[p] # "panicked"
=============================================================================
