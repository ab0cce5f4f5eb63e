------------------------------- MODULE Promise --------------------------------
(***************************************************************************)
(* async/promise.go: one call of DoAll, DoAny (serial), RunAll or RunAny   *)
(* (parallel) or of their cancelable forms.  Functions are run through     *)
(* RunCancelableTask (async/run.go), which waits for the function or for   *)
(* the context, whichever select finds first, and leaves the function      *)
(* running when the context wins.  The workers of the parallel forms share *)
(* the atomic cause and isOk.                                              *)
(***************************************************************************)
EXTENDS Integers, FiniteSets

CONSTANTS
    NumFns      \* how many functions are given

ASSUME PromiseAssumption == NumFns \in Nat

Fns == 1 .. NumFns

\* Errors: nil, that of a cancelled context, or the number of the failing function.
OK == 0
Canceled == -1

VARIABLES
    form,       \* which function was called
    mpc,        \* the caller: "new", "loop", "await", "wait", "returned"
    next,       \* the function its loop is at
    worker,     \* what the goroutine of g.Run is doing for each function
    fn,         \* what each function is doing
    result,     \* what RunCancelableTask returned for it
    parentDone, \* the caller's context is cancelled
    cxDone,     \* cancel() was called
    cause,      \* the error kept
    isOk,
    ret         \* what the call returned

promiseVars == <<form, mpc, next, worker, fn, result, parentDone, cxDone, cause, isOk, ret>>

Form == [parallel : BOOLEAN, any : BOOLEAN]
PromiseErrs == {OK, Canceled} \cup Fns

PromiseTypeOK ==
    /\ form \in Form
    /\ mpc \in {"new", "loop", "await", "wait", "returned"}
    /\ next \in 1 .. NumFns + 1
    /\ worker \in [Fns -> {"none", "check", "select", "decide", "record", "cancel", "gone"}]
    /\ fn \in [Fns -> {"new", "running", "ok", "failed"}]
    /\ result \in [Fns -> PromiseErrs]
    /\ {parentDone, cxDone, isOk} \subseteq BOOLEAN
    /\ cause \in PromiseErrs /\ ret \in PromiseErrs

Returns(v) == mpc' = "returned" /\ ret' = v

\* The worker leaves: wg.Done().
Leaves(i, pc) == worker' = [worker EXCEPT ![i] = pc]

-----------------------------------------------------------------------------
(* Functions and contexts *)

CancelParent ==
    /\ mpc # "new" /\ ~parentDone
    /\ parentDone' = TRUE
    /\ UNCHANGED <<form, mpc, next, worker, fn, result, cxDone, cause, isOk, ret>>

FnReturns(i, ok) ==
    /\ fn[i] = "running"
    /\ fn' = [fn EXCEPT ![i] = IF ok THEN "ok" ELSE "failed"]
    /\ UNCHANGED <<form, mpc, next, worker, result, parentDone, cxDone, cause, isOk, ret>>

\* The select of RunCancelableTask: the context, or the result of RunTask.
Selected(i) ==
    {r \in PromiseErrs :
        \/ /\ r = Canceled
           /\ parentDone \/ cxDone
        \/ r = OK /\ fn[i] = "ok"
        \/ r = i /\ fn[i] = "failed"}

-----------------------------------------------------------------------------
(* DoAll, DoCancelableAll, DoAny, DoCancelableAny *)

\* RunTask is called in the select: it starts the function whatever the context.
serialStart ==
    /\ mpc = "loop" /\ ~form.parallel
    /\ IF next > NumFns
       THEN Returns(cause) /\ UNCHANGED fn
       ELSE mpc' = "await" /\ fn' = [fn EXCEPT ![next] = "running"] /\ UNCHANGED ret
    /\ UNCHANGED <<form, next, worker, result, parentDone, cxDone, cause, isOk>>

\* The first error ends DoAll, the first success DoAny.
Decisive(r) == IF form.any THEN r = OK ELSE r # OK

serialResult ==
    /\ mpc = "await"
    /\ \E r \in Selected(next) :
          /\ result' = [result EXCEPT ![next] = r]
          /\ cause' = r
          /\ next' = next + 1
          /\ IF Decisive(r) THEN Returns(r) ELSE mpc' = "loop" /\ UNCHANGED ret
    /\ UNCHANGED <<form, worker, fn, parentDone, cxDone, isOk>>

-----------------------------------------------------------------------------
(* RunCancelableAll, RunCancelableAny: the caller *)

\* Nothing more to run: a function has failed, or one has succeeded.
Settled == IF form.any THEN isOk ELSE cause # OK

parallelStart ==
    /\ mpc = "loop" /\ form.parallel
    /\ IF next > NumFns \/ Settled
       THEN mpc' = "wait" /\ UNCHANGED <<next, worker>>
       ELSE next' = next + 1 /\ Leaves(next, "check") /\ UNCHANGED mpc
    /\ UNCHANGED <<form, fn, result, parentDone, cxDone, cause, isOk, ret>>

\* g.Wait(), and the deferred cancel().
parallelReturn ==
    /\ mpc = "wait"
    /\ \A i \in Fns : worker[i] \in {"none", "gone"}
    /\ cxDone' = TRUE
    /\ Returns(IF form.any /\ isOk THEN OK ELSE cause)
    /\ UNCHANGED <<form, next, worker, fn, result, parentDone, cause, isOk>>

-----------------------------------------------------------------------------
(* RunCancelableAll, RunCancelableAny: the workers *)

workerCheck(i) ==
    /\ worker[i] = "check"
    /\ IF Settled THEN Leaves(i, "gone") /\ UNCHANGED fn
       ELSE Leaves(i, "select") /\ fn' = [fn EXCEPT ![i] = "running"]
    /\ UNCHANGED <<form, mpc, next, result, parentDone, cxDone, cause, isOk, ret>>

workerSelect(i) ==
    /\ worker[i] = "select"
    /\ \E r \in Selected(i) : result' = [result EXCEPT ![i] = r]
    /\ Leaves(i, "decide")
    /\ UNCHANGED <<form, mpc, next, fn, parentDone, cxDone, cause, isOk, ret>>

\* RunAny looks at isOk again before it looks at its own result.
workerDecide(i) ==
    /\ worker[i] = "decide"
    /\ Leaves(i, IF (form.any /\ isOk) \/ (~form.any /\ result[i] = OK) THEN "gone" ELSE "record")
    /\ UNCHANGED <<form, mpc, next, fn, result, parentDone, cxDone, cause, isOk, ret>>

\* RunAll: cause.SetIfAbsent(err), and cancel() by the one that set it.
\* RunAny: cause.Set(err), or the swap of isOk, and cancel() by the one that swapped.
workerRecord_LastError(i) ==
    /\ worker[i] = "record"
    /\ cause' = result[i] /\ UNCHANGED isOk
    /\ Leaves(i, "cancel")
    /\ UNCHANGED <<form, mpc, next, fn, result, parentDone, cxDone, ret>>
workerRecord(i) ==
    LET first == IF form.any THEN result[i] = OK /\ ~isOk ELSE cause = OK
    IN  /\ worker[i] = "record"
        /\ cause' = IF form.any THEN (IF result[i] # OK THEN result[i] ELSE cause)
                    ELSE IF cause = OK THEN result[i] ELSE cause
        /\ isOk' = (isOk \/ (form.any /\ result[i] = OK))
        /\ Leaves(i, IF first THEN "cancel" ELSE "gone")
        /\ UNCHANGED <<form, mpc, next, fn, result, parentDone, cxDone, ret>>

workerCancel_Missing(i) ==
    /\ worker[i] = "cancel"
    /\ Leaves(i, "gone")
    /\ UNCHANGED <<form, mpc, next, fn, result, parentDone, cxDone, cause, isOk, ret>>
workerCancel(i) ==
    /\ worker[i] = "cancel"
    /\ cxDone' = TRUE
    /\ Leaves(i, "gone")
    /\ UNCHANGED <<form, mpc, next, fn, result, parentDone, cause, isOk, ret>>

-----------------------------------------------------------------------------
PromiseInit ==
    /\ form \in Form
    /\ mpc = "new" /\ next = 1
    /\ worker = [i \in Fns |-> "none"] /\ fn = [i \in Fns |-> "new"]
    /\ result = [i \in Fns |-> OK]
    /\ parentDone = FALSE /\ cxDone = FALSE /\ isOk = FALSE
    /\ cause = OK /\ ret = OK

PromiseCall ==
    /\ mpc = "new" /\ mpc' = "loop"
    /\ UNCHANGED <<form, next, worker, fn, result, parentDone, cxDone, cause, isOk, ret>>

callerStep == serialStart \/ serialResult \/ parallelStart \/ parallelReturn
workerStep(i) == workerCheck(i) \/ workerSelect(i) \/ workerDecide(i) \/ workerRecord(i) \/ workerCancel(i)

PromiseNext ==
    \/ PromiseCall \/ CancelParent
    \/ callerStep
    \/ \E i \in Fns : workerStep(i) \/ \E ok \in BOOLEAN : FnReturns(i, ok)

\* The goroutines run on; a function need not return.
PromiseFairness ==
    /\ WF_promiseVars(callerStep)
    /\ \A i \in Fns : WF_promiseVars(workerStep(i))

PromiseSpec == PromiseInit /\ [][PromiseNext]_promiseVars /\ PromiseFairness

-----------------------------------------------------------------------------
(* Properties *)

Returned == mpc = "returned"

\* DoAll and RunAll return nil only when every function has run and succeeded, DoAny
\* and RunAny only when one has: no early exit, skipped worker or cancelled wait is
\* taken for a success.
NilIsSuccess ==
    Returned /\ ret = OK /\ NumFns > 0 =>
        IF form.any THEN \E i \in Fns : fn[i] = "ok" ELSE \A i \in Fns : fn[i] = "ok"

\* An error is that of a function that failed; "canceled" means that the caller's
\* context was cancelled, never the cancel() by which one worker stops the others.
ErrorIsReal ==
    Returned /\ ret # OK => IF ret = Canceled THEN parentDone ELSE fn[ret] = "failed"

\* The serial forms run one function at a time, unless the context was cancelled
\* under the one that runs (promise.go:19, 43).
SerialUnlessCanceled ==
    ~form.parallel /\ Cardinality({i \in Fns : fn[i] = "running"}) > 1 => parentDone

\* What the caller is told is what the functions did: nil and errors are real although
\* workers cancel each other, and the serial forms are serial.
OutcomeIsReal == PromiseTypeOK /\ NilIsSuccess /\ ErrorIsReal /\ SerialUnlessCanceled

\* RunAll returns as soon as one function has failed, RunAny as soon as one has
\* succeeded, and both once the context is cancelled, although the other functions
\* may never return.
ReturnsEarly ==
    (form.parallel /\ mpc # "new"
        /\ (parentDone \/ \E i \in Fns : fn[i] = IF form.any THEN "ok" ELSE "failed"))
        ~> Returned
=============================================================================
