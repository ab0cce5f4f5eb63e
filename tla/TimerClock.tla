------------------------------ MODULE TimerClock ------------------------------
(***************************************************************************)
(* TimerExecutor composed with the time.Ticker it owns: real time advances *)
(* in units, and every Period units the ticker leaves a tick in its        *)
(* channel, which onTick takes.  The composition answers when a task fires *)
(* in real time rather than in ticks.  run() is taken to be prompt: time   *)
(* does not advance while a tick is waiting in the channel.                *)
(***************************************************************************)
EXTENDS TimerExecutor, TLC

VARIABLES
    phase,      \* time since the last tick of the ticker
    tickReady,  \* a tick is in e.ticker.C
    age         \* history: time since the task in the wheel was put

clockVars == <<phase, tickReady, age>>
timedVars == <<vars, clockVars>>

\* Task objects and keys are interchangeable.
Symmetry == Permutations(Ids) \cup Permutations(Keys)

\* time.Ticker, outside this repository: a tick every Period.
Elapse ==
    /\ ~tickReady
    /\ ~runDone
    /\ phase' = IF phase + 1 = Period THEN 0 ELSE phase + 1
    /\ tickReady' = (phase + 1 = Period)
    /\ age' = [id \in Ids |-> IF InWheel(id) THEN age[id] + 1 ELSE 0]
    /\ UNCHANGED vars

\* The wheel's own actions take no time.
KeepAge == age' = [id \in Ids |-> IF InWheel(id) /\ InWheel(id)' THEN age[id] ELSE 0]

ClockTick ==
    /\ tickReady
    /\ onTick
    /\ tickReady' = FALSE
    /\ UNCHANGED phase
    /\ KeepAge

OtherEvent ==
    /\ \/ \E k \in Keys, d \in Delays, c \in CyclicFlags : PutTask(k, d, c)
       \/ \E k \in Keys : Del(k)
       \/ WithOnClosedHandler
       \/ Close
       \/ CloseReturn
       \/ onClosed
       \/ \E id \in Ids : runHandler(id) \/ reputAccepted(id) \/ reputRefused(id)
    /\ UNCHANGED <<phase, tickReady>>
    /\ KeepAge

TimedInit ==
    /\ Init
    /\ phase = 0
    /\ tickReady = FALSE
    /\ age = [id \in Ids |-> 0]

TimedNext == Elapse \/ ClockTick \/ OtherEvent

TimedSpec == TimedInit /\ [][TimedNext]_timedVars

-----------------------------------------------------------------------------
(* Properties *)

\* A pending task's age keeps step with the ticks it has seen: it differs from
\* the time those ticks span by less than the part of a period it was put in.
Lead == phase + (IF tickReady THEN Period ELSE 0)
AgeInStep ==
    \A id \in Ids : Pending(id) =>
        /\ age[id] <= heap[id].waited * Period + Lead
        /\ age[id] + Period >= heap[id].waited * Period + Lead

\* A task fires when at least its delay rounded down to whole periods has passed and no
\* later than one period after its delay; until then its age is in step.  That is what
\* resetTaskPosition does (timer.go:188).  The test's comment (timer_test.go:30) has the window
\* of a delay of at least a period begin with the delay itself: that is FiresAfterDelay
\* below, which TLC refutes (timer_window.cfg).
FiresInWindow ==
    /\ []AgeInStep
    /\ [][\A id \in Ids : (~InTodo(id) /\ InTodo(id)') =>
               /\ age[id] >= Steps(heap[id].delay) * Period
               /\ age[id] <= heap[id].delay + Period]_timedVars

(* What the test says and resetTaskPosition does not keep. *)

\* timer_test.go of a task's actual delay: "if task.delay>=executor.period:
\* task.delay~task.delay+executor.period".
FiresAfterDelay ==
    [][\A id \in Ids : (~InTodo(id) /\ InTodo(id)' /\ heap[id].delay >= Period) =>
           age[id] \in heap[id].delay .. heap[id].delay + Period]_timedVars
=============================================================================
