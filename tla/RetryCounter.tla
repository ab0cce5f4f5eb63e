----------------------------- MODULE RetryCounter -----------------------------
(***************************************************************************)
(* util/retry.go: goroutines in DoRetry that share one retryCounter.       *)
(* NextInterval counts a retry and widens the interval under the lock; 0   *)
(* means that no retry is left.                                            *)
(***************************************************************************)
EXTENDS Integers, FiniteSets

CONSTANTS
    Retriers,       \* the goroutines
    CounterOptions, \* [maxCount, init, step, maxInterval] of the counters that are made
    MaxRetries      \* bound: retries of a counter without a limit

\* The assertions of NewStepRetryCounter.
ASSUME RetryAssumption ==
    /\ IsFiniteSet(Retriers) /\ MaxRetries \in Nat
    /\ \A o \in CounterOptions :
          /\ o.maxCount \in Nat /\ o.init \in Nat /\ o.step \in Nat /\ o.maxInterval \in Nat
          /\ o.init > 0 \/ o.step > 0

VARIABLES
    opt, count, interval,   \* the fields of the counter
    retrier,                \* what each goroutine is doing
    slept,                  \* history: the interval it was given last
    fnCalls                 \* history: executions of its fn

retryVars == <<opt, count, interval, retrier, slept, fnCalls>>

RetryTypeOK ==
    /\ opt \in CounterOptions
    /\ count \in Nat /\ interval \in Nat
    /\ retrier \in [Retriers -> {"new", "next", "sleep", "ok", "failed"}]
    /\ slept \in [Retriers -> Nat] /\ fnCalls \in [Retriers -> Nat]

HasNext == opt.maxCount = 0 \/ count < opt.maxCount

\* The next interval: one step wider, capped, unless it had reached the cap before.
Widened ==
    LET wider == interval + opt.step
    IN  IF opt.step = 0 \/ (opt.maxInterval > 0 /\ interval >= opt.maxInterval) THEN interval
        ELSE IF opt.maxInterval > 0 /\ wider > opt.maxInterval THEN opt.maxInterval ELSE wider

\* fn runs: at once, and again after each sleep.
runFn(p) ==
    /\ retrier[p] \in {"new", "sleep"}
    /\ fnCalls' = [fnCalls EXCEPT ![p] = @ + 1]
    /\ \E to \in {"ok", "next"} : retrier' = [retrier EXCEPT ![p] = to]
    /\ UNCHANGED <<opt, count, interval, slept>>

NextInterval(p) ==
    /\ retrier[p] = "next"
    /\ opt.maxCount = 0 => count < MaxRetries
    /\ IF ~HasNext
       THEN /\ retrier' = [retrier EXCEPT ![p] = "failed"]
            /\ UNCHANGED <<count, interval, slept>>
       ELSE /\ count' = count + 1 /\ interval' = Widened
            /\ slept' = [slept EXCEPT ![p] = interval']
            /\ retrier' = [retrier EXCEPT ![p] = IF slept'[p] = 0 THEN "failed" ELSE "sleep"]
    /\ UNCHANGED <<opt, fnCalls>>

-----------------------------------------------------------------------------
RetryInit ==
    /\ opt \in CounterOptions
    /\ count = 0 /\ interval = opt.init
    /\ retrier = [p \in Retriers |-> "new"]
    /\ slept = [p \in Retriers |-> 0] /\ fnCalls = [p \in Retriers |-> 0]

RetryNext == \E p \in Retriers : runFn(p) \/ NextInterval(p)

RetrySpec == RetryInit /\ [][RetryNext]_retryVars

-----------------------------------------------------------------------------
(* Properties *)

\* The executions of the fns.
FnRuns == UNION {{p} \X (1 .. fnCalls[p]) : p \in Retriers}

\* The goroutines share one budget: however their calls interleave, each runs its fn once
\* and all of them together at most maxCount times more.
SharedBudget ==
    opt.maxCount > 0 => Cardinality(FnRuns) <= Cardinality(Retriers) + opt.maxCount

\* DoRetry gives up only when the budget is spent: an interval of 0, which is what
\* NextInterval says then, never comes up as an interval.
GivesUpWhenSpent == (\E p \in Retriers : retrier[p] = "failed") => ~HasNext

\* No goroutine waits longer than the greater of maxInterval and the initial interval, and
\* the intervals never shrink.
IntervalCapped ==
    opt.maxInterval > 0 =>
        \A p \in Retriers : slept[p] <= interval /\ (slept[p] <= opt.maxInterval \/ slept[p] <= opt.init)
=============================================================================
