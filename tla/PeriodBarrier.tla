---------------------------- MODULE PeriodBarrier -----------------------------
(***************************************************************************)
(* async/barrier.go: a PeriodBarrier calls the function it is given unless *)
(* it has done so within the period or is doing so.  The time of the last  *)
(* call and the isInvoking flag are two atomics that allowInvoke reads and *)
(* afterInvoke writes one after the other.                                 *)
(***************************************************************************)
EXTENDS Integers, FiniteSets

CONSTANTS
    BarrierProcs,
    BarrierPeriod,
    MaxTime     \* bound on the clock

ASSUME BarrierAssumption == BarrierPeriod \in Nat \ {0} /\ MaxTime \in Nat

VARIABLES
    now,            \* the clock
    lastInvokeTime, \* b.lastInvokeTime, long ago at first
    isInvoking,     \* b.isInvoking
    bpc,            \* what each caller is doing
    readLast,       \* the lastInvokeTime its allowInvoke read
    begun           \* history: when its invocation began, and lastInvokeTime then

barrierVars == <<now, lastInvokeTime, isInvoking, bpc, readLast, begun>>

Times == -BarrierPeriod .. MaxTime

BarrierTypeOK ==
    /\ now \in 0 .. MaxTime /\ lastInvokeTime \in Times
    /\ isInvoking \in BOOLEAN
    /\ bpc \in [BarrierProcs -> {"idle", "swap", "fn", "set", "clear"}]
    /\ readLast \in [BarrierProcs -> Times]
    /\ begun \in [BarrierProcs -> [at : Times, last : Times]]

BarrierGoes(p, from, to) == bpc[p] = from /\ bpc' = [bpc EXCEPT ![p] = to]

Tick ==
    /\ now < MaxTime /\ now' = now + 1
    /\ UNCHANGED <<lastInvokeTime, isInvoking, bpc, readLast, begun>>

\* allowInvoke: the age of the last call; a caller that comes too early returns.
allowInvoke(p) ==
    /\ now - lastInvokeTime >= BarrierPeriod
    /\ BarrierGoes(p, "idle", "swap")
    /\ readLast' = [readLast EXCEPT ![p] = lastInvokeTime]
    /\ UNCHANGED <<now, lastInvokeTime, isInvoking, begun>>

\* isInvoking.CASwap(false)
swapInvoking(p) ==
    /\ BarrierGoes(p, "swap", IF isInvoking THEN "idle" ELSE "fn")
    /\ isInvoking' = TRUE
    /\ begun' = IF isInvoking THEN begun
                ELSE [begun EXCEPT ![p] = [at |-> now, last |-> lastInvokeTime]]
    /\ UNCHANGED <<now, lastInvokeTime, readLast>>

fnReturns(p) ==
    /\ BarrierGoes(p, "fn", "set")
    /\ UNCHANGED <<now, lastInvokeTime, isInvoking, readLast, begun>>

\* afterInvoke: the time, then the flag.
setTime(p) ==
    /\ BarrierGoes(p, "set", "clear")
    /\ lastInvokeTime' = now
    /\ UNCHANGED <<now, isInvoking, readLast, begun>>

clearInvoking(p) ==
    /\ BarrierGoes(p, "clear", "idle")
    /\ isInvoking' = FALSE
    /\ UNCHANGED <<now, lastInvokeTime, readLast, begun>>

-----------------------------------------------------------------------------
BarrierInit ==
    /\ now = 0 /\ lastInvokeTime = -BarrierPeriod /\ isInvoking = FALSE
    /\ bpc = [p \in BarrierProcs |-> "idle"]
    /\ readLast = [p \in BarrierProcs |-> -BarrierPeriod]
    /\ begun = [p \in BarrierProcs |-> [at |-> 0, last |-> -BarrierPeriod]]

BarrierNext ==
    \/ Tick
    \/ \E p \in BarrierProcs : allowInvoke(p) \/ swapInvoking(p) \/ fnReturns(p) \/ setTime(p) \/ clearInvoking(p)

BarrierSpec == BarrierInit /\ [][BarrierNext]_barrierVars

-----------------------------------------------------------------------------
(* Properties *)

Invoking(p) == bpc[p] \in {"fn", "set", "clear"}

\* Invocations never overlap, and isInvoking says whether there is one.
InvokesOneAtATime ==
    /\ Cardinality({p \in BarrierProcs : Invoking(p)}) <= 1
    /\ isInvoking <=> \E p \in BarrierProcs : Invoking(p)

\* An invocation began less than a period after the one before ended.
Early(p) == Invoking(p) /\ begun[p].at - begun[p].last < BarrierPeriod

\* OncePerPeriod below fails only when an invocation ended between the two halves of
\* allowInvoke: a call that begins too early has read an older time.
EarlyOnlyIfStale == \A p \in BarrierProcs : Early(p) => readLast[p] < begun[p].last

(* What the comment says and the two halves of allowInvoke do not keep. *)

\* "PeriodBarrier executes the function at most once per period" (barrier.go:36).
OncePerPeriod == \A p \in BarrierProcs : ~Early(p)
=============================================================================
