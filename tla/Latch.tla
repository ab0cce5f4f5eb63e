-------------------------------- MODULE Latch ---------------------------------
(***************************************************************************)
(* async/latch.go: Wait blocks while the latch is closed.  isClosed is     *)
(* atomic and read without the lock by every operation before it takes     *)
(* cond.L; a closed latch is waited for on the condition variable.         *)
(* WaitOrCanceled and WaitOrTimeout run Wait in a goroutine of its own     *)
(* (DoCancelableTask, async/do.go) and may leave it behind.                *)
(***************************************************************************)
EXTENDS FiniteSets

CONSTANTS
    LatchProcs      \* goroutines that wait, open and close

VARIABLES
    isClosed,   \* l.isClosed
    latchPc,    \* what each goroutine is doing; those at "cond" are in cond.Wait()
    expect,     \* expectIsClosed of the CASwap a goroutine is about to make
    cancelable, \* the waits that were called with a context
    leftBehind  \* waiting goroutines whose caller was told that the context is done

latchVars == <<isClosed, latchPc, expect, cancelable, leftBehind>>

LatchTypeOK ==
    /\ isClosed \in BOOLEAN
    /\ latchPc \in [LatchProcs -> {"idle", "lock", "cond", "swap"}]
    /\ expect \in [LatchProcs -> BOOLEAN]
    /\ cancelable \subseteq LatchProcs /\ leftBehind \subseteq cancelable

\* Open and CAOpen (closed = TRUE), Close and CAClose (closed = FALSE): the state is
\* looked at without the lock; if it is right already the call returns.
Switch(p, closed) ==
    /\ latchPc[p] = "idle" /\ isClosed = closed
    /\ latchPc' = [latchPc EXCEPT ![p] = "swap"]
    /\ expect' = [expect EXCEPT ![p] = closed]
    /\ UNCHANGED <<isClosed, cancelable, leftBehind>>

\* CASwap with cond.L held; whoever opens the latch wakes all.
CASwap_NoBroadcast(p) ==
    /\ latchPc[p] = "swap"
    /\ isClosed' = IF isClosed = expect[p] THEN ~expect[p] ELSE isClosed
    /\ latchPc' = [latchPc EXCEPT ![p] = "idle"]
    /\ UNCHANGED <<expect, cancelable, leftBehind>>
CASwap(p) ==
    /\ latchPc[p] = "swap"
    /\ isClosed' = IF isClosed = expect[p] THEN ~expect[p] ELSE isClosed
    /\ latchPc' = [q \in LatchProcs |->
                     IF q = p THEN "idle"
                     ELSE IF latchPc[q] = "cond" /\ isClosed /\ ~isClosed' THEN "lock"
                     ELSE latchPc[q]]
    /\ UNCHANGED <<expect, cancelable, leftBehind>>

\* Wait: the fast path returns at once.
Wait(p, withCtx) ==
    /\ latchPc[p] = "idle" /\ isClosed
    /\ latchPc' = [latchPc EXCEPT ![p] = "lock"]
    /\ cancelable' = IF withCtx THEN cancelable \cup {p} ELSE cancelable
    /\ UNCHANGED <<isClosed, expect, leftBehind>>

\* With cond.L held the state is tested again, then cond.Wait() gives the lock up.
waitLocked(p) ==
    /\ latchPc[p] = "lock"
    /\ IF isClosed
       THEN /\ latchPc' = [latchPc EXCEPT ![p] = "cond"]
            /\ UNCHANGED <<cancelable, leftBehind>>
       ELSE /\ latchPc' = [latchPc EXCEPT ![p] = "idle"]
            /\ cancelable' = cancelable \ {p} /\ leftBehind' = leftBehind \ {p}
    /\ UNCHANGED <<isClosed, expect>>

\* The context ends first: the caller returns its error, the goroutine waits on.
waitCanceled(p) ==
    /\ p \in cancelable \ leftBehind
    /\ leftBehind' = leftBehind \cup {p}
    /\ UNCHANGED <<isClosed, latchPc, expect, cancelable>>

-----------------------------------------------------------------------------
LatchInit ==
    /\ isClosed \in BOOLEAN
    /\ latchPc = [p \in LatchProcs |-> "idle"]
    /\ expect = [p \in LatchProcs |-> FALSE]
    /\ cancelable = {} /\ leftBehind = {}

latchStep(p) == CASwap(p) \/ waitLocked(p)

LatchNext ==
    \E p \in LatchProcs :
        \/ latchStep(p) \/ waitCanceled(p)
        \/ \E b \in BOOLEAN : Switch(p, b) \/ Wait(p, b)

\* Goroutines run on and get the lock they wait for.
LatchFairness == \A p \in LatchProcs : WF_latchVars(latchStep(p))

LatchSpec == LatchInit /\ [][LatchNext]_latchVars /\ LatchFairness

-----------------------------------------------------------------------------
(* Properties *)

\* No wake-up is lost: whoever sleeps on the condition sleeps behind a closed latch,
\* whatever was read before the lock was taken.
NoLostWakeup == (\E p \in LatchProcs : latchPc[p] = "cond") => isClosed

\* The latch keeps whom it has to keep, and nobody else.
WakeupsKept == LatchTypeOK /\ NoLostWakeup

\* Nobody waits at a latch that stays open, those left behind by a cancelled
\* WaitOrCanceled included.
OpenLetsThrough ==
    \A p \in LatchProcs :
        (latchPc[p] \in {"lock", "cond"} /\ ~isClosed)
            ~> (latchPc[p] \notin {"lock", "cond"} \/ isClosed)
=============================================================================
