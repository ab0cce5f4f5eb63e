------------------------------- MODULE RunLoop --------------------------------
(***************************************************************************)
(* The loops that call a task again and again (async/run.go, do.go): on a  *)
(* ticker (RunCancelableInterval, RunTimeLimitInterval, RunIntervalHelper) *)
(* or without a pause (DoUntilCancel, RunUtilCancel), until the context is *)
(* done or the task aborts.  The task is given a Context (async/ctx.go):   *)
(* the loop's own BaseCtx for the last call, a FreezeCtx for the others,   *)
(* so that a context that ends during a call is noticed by one call only.  *)
(***************************************************************************)
EXTENDS Integers

CONSTANTS
    LoopKinds,      \* the loops that are started
    MaxCalls        \* bound on the calls of the task that are counted

\* fn: who wraps the task; delayed: initRunDelay differs from interval;
\* maxRetry: RunIntervalHelper.maxRetryCount; timeout: the context has a deadline
\* of its own and a cancel function.
LoopKind == [fn : {"interval", "limit", "helper", "until"}, delayed : BOOLEAN,
             maxRetry : Int, timeout : BOOLEAN]

\* RunIntervalHelper asserts maxRetryCount >= 0, or leaves it at -1: no limit.
ASSUME LoopAssumption ==
    /\ LoopKinds \subseteq LoopKind
    /\ \A k \in LoopKinds : k.maxRetry >= -1
    /\ MaxCalls \in Nat

VARIABLES
    kind,       \* the loop that runs
    lpc,        \* "new", then "select", "task" or the "last" call, until it has "ended"
    ctxErr,     \* ctx.Err() of the context the caller gave, or of its deadline
    cancelled,  \* the wrapper of the task called cancel()
    ticker,     \* which ticker is running: the one of initRunDelay or of interval
    ticked,     \* ticker.C, a channel of capacity one, is full
    abort,      \* BaseCtx.abort
    ctxCount,   \* BaseCtx.count
    retry,      \* retry, in RunIntervalHelper.Run
    frozen,     \* the call in progress was given a FreezeCtx
    seen        \* history: calls made, calls from the first ticker, calls that
                \* returned with ctx.Done() true though they did not abort

loopVars == <<kind, lpc, ctxErr, cancelled, ticker, ticked, abort, ctxCount, retry, frozen, seen>>

Errs == {"nil", "canceled", "deadline"}

LoopTypeOK ==
    /\ kind \in LoopKinds
    /\ lpc \in {"new", "select", "task", "last", "ended"}
    /\ ctxErr \in Errs
    /\ ticker \in {"init", "interval", "none"}
    /\ {cancelled, ticked, abort, frozen} \subseteq BOOLEAN
    /\ {ctxCount} \cup {seen.calls, seen.initial, seen.done} \subseteq 0 .. MaxCalls + 1
    /\ retry \in -1 .. kind.maxRetry

-----------------------------------------------------------------------------
(* Context *)

\* The context the loop selects on is done.
CtxDone == ctxErr # "nil" \/ cancelled

\* BaseCtx.Done and FreezeCtx.Done, whose done field is false.
BaseCtxDone(aborted) == CtxDone \/ aborted
FreezeCtxDone(aborted) == aborted

Done(isFrozen, aborted) == IF isFrozen THEN FreezeCtxDone(aborted) ELSE BaseCtxDone(aborted)

-----------------------------------------------------------------------------
(* The loop *)

Ticking == kind.fn # "until"

FirstTicker == IF ~Ticking THEN "none" ELSE IF kind.delayed THEN "init" ELSE "interval"

\* The next round: incrCount, then the select.
NextRound == lpc' = "select" /\ ctxCount' = ctxCount + 1

LoopStart ==
    /\ lpc = "new"
    /\ ticker' = FirstTicker
    /\ retry' = kind.maxRetry
    /\ NextRound
    /\ UNCHANGED <<kind, ctxErr, cancelled, ticked, abort, frozen, seen>>

\* The caller cancels its context, or a deadline passes.
ContextEnds(e) ==
    /\ ctxErr = "nil"
    /\ e = "deadline" => kind.timeout
    /\ ctxErr' = e
    /\ UNCHANGED <<kind, lpc, cancelled, ticker, ticked, abort, ctxCount, retry, frozen, seen>>

TickerTicks ==
    /\ lpc \in {"select", "task", "last"} /\ Ticking /\ ~ticked
    /\ ticked' = TRUE
    /\ UNCHANGED <<kind, lpc, ctxErr, cancelled, ticker, abort, ctxCount, retry, frozen, seen>>

\* task(c) or task(newFreezeCtx(c, false)).
CallTask(call, isFrozen) ==
    /\ lpc' = call /\ frozen' = isFrozen
    /\ seen' = [seen EXCEPT !.calls = @ + 1,
                            !.initial = IF call = "task" /\ ticker = "init" THEN @ + 1 ELSE @]
    /\ UNCHANGED <<kind, ctxErr, cancelled, ticker, abort, ctxCount, retry>>

SelectDone_Missing == FALSE
SelectDone == lpc = "select" /\ CtxDone /\ CallTask("last", FALSE) /\ UNCHANGED ticked

\* The tick of an interval loop; DoUntilCancel takes the default case, which a
\* context that is done excludes.
SelectTick_NotFrozen ==
    /\ lpc = "select"
    /\ IF Ticking THEN ticked ELSE ~CtxDone
    /\ seen.calls < MaxCalls
    /\ CallTask("task", FALSE)
    /\ ticked' = FALSE
SelectTick ==
    /\ lpc = "select"
    /\ IF Ticking THEN ticked ELSE ~CtxDone
    /\ seen.calls < MaxCalls
    /\ CallTask("task", TRUE)
    /\ ticked' = FALSE

\* RunIntervalHelper.Run: what the wrapper does after the task has returned.
helperRetry(done) == kind.fn = "helper" /\ ~done /\ retry > 0
helperAborts(done) == kind.fn = "helper" /\ ~done /\ retry = 0

\* cancel() releases a context made with a deadline: the helper and
\* RunTimeLimitInterval call it as soon as the task's context is done, DoUntilTimeout
\* when it returns.
releases(done) == kind.fn \in {"helper", "limit"} /\ kind.timeout /\ done

\* After the first tick the ticker of initRunDelay is replaced.
NextTicker == IF ticker = "init" THEN "interval" ELSE ticker

\* The task returns, having called Abort() or not; then its wrapper and the rest of
\* the round.  A FreezeCtx passes Abort on to the loop's own context.
TaskReturns(aborts) ==
    LET done == Done(frozen, abort \/ aborts)
        ends == abort \/ aborts \/ helperAborts(done)
    IN  /\ lpc \in {"task", "last"}
        /\ abort' = ends
        /\ retry' = IF helperRetry(done) THEN retry - 1 ELSE retry
        /\ IF lpc = "last" \/ ends
           THEN lpc' = "ended" /\ ticker' = "none" /\ ticked' = FALSE /\ UNCHANGED ctxCount
           ELSE /\ NextRound
                /\ ticker' = NextTicker
                /\ ticked' = (ticked /\ ticker = NextTicker)
        /\ cancelled' = (cancelled \/ releases(done \/ ends)
                                   \/ (kind.fn = "until" /\ kind.timeout /\ lpc' = "ended"))
        /\ seen' = [seen EXCEPT !.done = IF Done(frozen, abort) THEN @ + 1 ELSE @]
        /\ UNCHANGED <<kind, ctxErr, frozen>>

-----------------------------------------------------------------------------
LoopInit ==
    /\ kind \in LoopKinds
    /\ lpc = "new" /\ ctxErr = "nil" /\ ticker = "none"
    /\ cancelled = FALSE /\ ticked = FALSE /\ abort = FALSE /\ frozen = FALSE
    /\ ctxCount = 0 /\ retry = -1
    /\ seen = [calls |-> 0, initial |-> 0, done |-> 0]

LoopNext ==
    \/ LoopStart
    \/ \E e \in Errs \ {"nil"} : ContextEnds(e)
    \/ TickerTicks
    \/ SelectDone
    \/ SelectTick
    \/ \E aborts \in BOOLEAN : TaskReturns(aborts)

\* The task returns; select chooses at random among the cases that are ready, so
\* that a context that stays done is not passed over for ever.
LoopFairness ==
    /\ SF_loopVars(SelectDone)
    /\ WF_loopVars(\E aborts \in BOOLEAN : TaskReturns(aborts))

LoopSpec == LoopInit /\ [][LoopNext]_loopVars /\ LoopFairness

-----------------------------------------------------------------------------
(* Properties *)

\* The comments at run.go:32 and ctx.go:68: a context that ends during a call must
\* not make two calls of the task find it done.
DoneSeenOnce == seen.done <= 1

\* WithMaxRetryCount(n): "the task is executed at most n+1 times"
\* (run_interval_helper.go:50), the call that finds the context done included.
AtMostRetries ==
    kind.fn = "helper" /\ kind.maxRetry >= 0 => seen.calls <= kind.maxRetry + 1

\* However late the first tick is handled, the ticker of initRunDelay calls the task
\* once (run.go:42).
OneInitialRun == seen.initial <= 1

\* A context made with a deadline is released before the loop ends, whichever way it
\* ends (run_interval_helper.go:84, run.go:185, do.go:32).
DeadlineReleased ==
    lpc = "ended" /\ kind.fn # "interval" /\ kind.timeout => cancelled

\* The task is called as often as was asked for, on whichever side of a call the context
\* ends, and nothing is left behind.
CallsAsAsked == LoopTypeOK /\ DoneSeenOnce /\ AtMostRetries /\ OneInitialRun /\ DeadlineReleased

Task == INSTANCE BgTask WITH ctxDone <- lpc # "new" /\ ctxErr # "nil", closed <- lpc = "ended"

\* Every loop is a BgTask: it ends once its context is done.
ImplementsBgTask == Task!TaskSpec
=============================================================================
