------------------------------ MODULE TaskRunner ------------------------------
(***************************************************************************)
(* async/runner.go: a TaskRunner runs a BgTask in the background.  Start   *)
(* and Stop hold no lock: they swap isRunning atomically and then go on    *)
(* with the context and the WaitGroup, which other callers, and the        *)
(* goroutine of a run that has just ended, use at the same time.           *)
(*                                                                         *)
(* The BgTask is known by its contract (module BgTask): it may end at any  *)
(* time, and ends once its context is done.                                *)
(***************************************************************************)
EXTENDS Integers, FiniteSets

CONSTANTS
    RunnerProcs,    \* the callers of Start, Stop and Wait
    MaxStarts       \* bound on the runs started

ASSUME RunnerAssumption ==
    MaxStarts \in Nat /\ IsFiniteSet(RunnerProcs) /\ RunnerProcs \cap (1 .. MaxStarts) = {}

\* A run is the goroutine of one Start, numbered in the order of the go statements.
Runs == 1 .. MaxStarts

\* Contexts are numbered in the order of their creation; 0 is nil.
MaxContexts == MaxStarts + 1

VARIABLES
    overtaken,  \* history: the Starts, and the runs they made, that a waitDone went ahead of
    builtWith,  \* history: WithContext was called before the runner was used
    isRunning,  \* g.isRunning
    taskCtx,    \* g.taskCtx
    contexts,   \* number of contexts created
    canceled,   \* the contexts that are cancelled
    taskDone,   \* g.taskDone, a sync.WaitGroup
    starts,     \* number of runs started
    runCtx,     \* the context that a run's task was given
    rpc         \* what every caller, and the goroutine of every run, is doing

runnerVars == <<overtaken, builtWith, isRunning, taskCtx, contexts, canceled, taskDone, starts,
                runCtx, rpc>>

StopSteps == {"cancel", "sleep", "wait"}
RunnerStates == {"idle", "add", "ctx", "create", "go", "waitSleep", "waitDone",
                 "begin", "run", "done", "stop"} \cup StopSteps

RunnerTypeOK ==
    /\ {isRunning, builtWith} \subseteq BOOLEAN
    /\ taskCtx \in 0 .. contexts /\ contexts \in 0 .. MaxContexts
    /\ canceled \subseteq 1 .. contexts
    /\ taskDone \in Nat        \* below zero Done() panics
    /\ starts \in 0 .. MaxStarts
    /\ runCtx \in [Runs -> 0 .. contexts]
    /\ rpc \in [RunnerProcs \cup Runs -> RunnerStates]
    /\ overtaken \subseteq RunnerProcs \cup Runs

Move(q, from, to) == rpc[q] = from /\ rpc' = [rpc EXCEPT ![q] = to]

Starting == {p \in RunnerProcs : rpc[p] \in {"add", "ctx", "create", "go"}}

-----------------------------------------------------------------------------
(* WithContext, which returns the runner and is called while it is built.  *)
(* The context it is given may be cancelled by its owner.                   *)

WithContext(p) ==
    /\ starts = 0 /\ contexts = 0 /\ \A q \in RunnerProcs : rpc[q] = "idle"
    /\ builtWith' = TRUE
    /\ taskCtx' = 1 /\ contexts' = 1
    /\ UNCHANGED <<overtaken, isRunning, canceled, taskDone, starts, runCtx, rpc>>

OwnerCancels ==
    /\ builtWith /\ 1 \notin canceled
    /\ canceled' = canceled \cup {1}
    /\ UNCHANGED <<overtaken, builtWith, isRunning, taskCtx, contexts, taskDone, starts, runCtx, rpc>>

-----------------------------------------------------------------------------
(* Start *)

\* CASwap(false); a Start that finds the runner running returns.
startSwap(p) ==
    /\ starts + Cardinality(Starting) < MaxStarts
    /\ Move(p, "idle", "add")
    /\ ~isRunning /\ isRunning' = TRUE
    /\ UNCHANGED <<overtaken, builtWith, taskCtx, contexts, canceled, taskDone, starts, runCtx>>

startAdd(p) ==
    /\ Move(p, "add", "ctx")
    /\ taskDone' = taskDone + 1
    /\ UNCHANGED <<overtaken, builtWith, isRunning, taskCtx, contexts, canceled, starts, runCtx>>

startContext(p) ==
    /\ Move(p, "ctx", IF taskCtx = 0 THEN "create" ELSE "go")
    /\ UNCHANGED <<overtaken, builtWith, isRunning, taskCtx, contexts, canceled, taskDone, starts, runCtx>>

startCreate(p) ==
    /\ Move(p, "create", "go")
    /\ contexts' = contexts + 1 /\ taskCtx' = contexts'
    /\ UNCHANGED <<overtaken, builtWith, isRunning, canceled, taskDone, starts, runCtx>>

startGo(p) ==
    /\ rpc[p] = "go"
    /\ starts' = starts + 1
    /\ rpc' = [rpc EXCEPT ![p] = "idle", ![starts'] = "begin"]
    /\ overtaken' = IF p \in overtaken THEN (overtaken \ {p}) \cup {starts'} ELSE overtaken
    /\ UNCHANGED <<builtWith, isRunning, taskCtx, contexts, canceled, taskDone, runCtx>>

-----------------------------------------------------------------------------
(* The goroutine of a run *)

\* It reads g.taskCtx itself, later than the Start that made it.
runBegins(r) ==
    /\ Move(r, "begin", "run")
    /\ runCtx' = [runCtx EXCEPT ![r] = taskCtx]
    /\ UNCHANGED <<overtaken, builtWith, isRunning, taskCtx, contexts, canceled, taskDone, starts>>

\* The channel returned by task.Run is closed.
taskEnds(r) ==
    /\ Move(r, "run", "done")
    /\ UNCHANGED <<overtaken, builtWith, isRunning, taskCtx, contexts, canceled, taskDone, starts, runCtx>>

runDone(r) ==
    /\ Move(r, "done", "stop")
    /\ taskDone' = taskDone - 1
    /\ UNCHANGED <<overtaken, builtWith, isRunning, taskCtx, contexts, canceled, starts, runCtx>>

\* The g.Stop() of the goroutine, whatever run the runner is at by now.
runStops(r) ==
    /\ Move(r, "stop", IF isRunning THEN "cancel" ELSE "idle")
    /\ isRunning' = FALSE
    /\ UNCHANGED <<overtaken, builtWith, taskCtx, contexts, canceled, taskDone, starts, runCtx>>

-----------------------------------------------------------------------------
(* Stop and Wait *)

\* CASwap(true); a Stop of a runner that is not running returns.
stopSwap(p) ==
    /\ isRunning
    /\ Move(p, "idle", "cancel")
    /\ isRunning' = FALSE
    /\ UNCHANGED <<overtaken, builtWith, taskCtx, contexts, canceled, taskDone, starts, runCtx>>

\* Cancel of a nil CancelableContext does nothing.
stopCancel(q) ==
    /\ Move(q, "cancel", "sleep")
    /\ canceled' = canceled \cup ({taskCtx} \ {0})
    /\ UNCHANGED <<overtaken, builtWith, isRunning, taskCtx, contexts, taskDone, starts, runCtx>>

\* waitDone sleeps "so that Start gets to its taskDone.Add(1)" (runner.go:88), but nothing
\* makes the Start as fast as that: the sleep may be over before the Add.
waitSleeps(q) ==
    /\ Move(q, "sleep", "wait") \/ Move(q, "waitSleep", "waitDone")
    /\ overtaken' = overtaken \cup {p \in RunnerProcs : rpc[p] = "add"}
    /\ UNCHANGED <<builtWith, isRunning, taskCtx, contexts, canceled, taskDone, starts, runCtx>>

\* taskDone.Wait()
waitReturns_Early(q) ==
    /\ Move(q, "wait", "idle") \/ Move(q, "waitDone", "idle")
    /\ UNCHANGED <<overtaken, builtWith, isRunning, taskCtx, contexts, canceled, taskDone, starts, runCtx>>
waitReturns(q) ==
    /\ taskDone = 0
    /\ Move(q, "wait", "idle") \/ Move(q, "waitDone", "idle")
    /\ UNCHANGED <<overtaken, builtWith, isRunning, taskCtx, contexts, canceled, taskDone, starts, runCtx>>

Wait(p) ==
    /\ isRunning
    /\ Move(p, "idle", "waitSleep")
    /\ UNCHANGED <<overtaken, builtWith, isRunning, taskCtx, contexts, canceled, taskDone, starts, runCtx>>

-----------------------------------------------------------------------------
RunnerInit ==
    /\ overtaken = {}
    /\ builtWith = FALSE /\ isRunning = FALSE
    /\ taskCtx = 0 /\ contexts = 0 /\ canceled = {}
    /\ taskDone = 0 /\ starts = 0
    /\ runCtx = [r \in Runs |-> 0]
    /\ rpc = [q \in RunnerProcs \cup Runs |-> "idle"]

startStep(p) == startAdd(p) \/ startContext(p) \/ startCreate(p) \/ startGo(p)
stopStep(q) == stopCancel(q) \/ waitSleeps(q) \/ waitReturns(q)
runStep(r) == runBegins(r) \/ runDone(r) \/ runStops(r)

RunnerNext ==
    \/ OwnerCancels
    \/ \E p \in RunnerProcs : \/ WithContext(p) \/ startSwap(p) \/ stopSwap(p) \/ Wait(p)
                              \/ startStep(p)
    \/ \E r \in Runs : runStep(r) \/ taskEnds(r)
    \/ \E q \in RunnerProcs \cup Runs : stopStep(q)

\* Goroutines run on, and a task whose context is done ends; nobody has to call.
RunnerFairness ==
    /\ \A p \in RunnerProcs : WF_runnerVars(startStep(p))
    /\ \A r \in Runs : /\ WF_runnerVars(runStep(r))
                       /\ WF_runnerVars(runCtx[r] \in canceled /\ taskEnds(r))
    /\ \A q \in RunnerProcs \cup Runs : WF_runnerVars(stopStep(q))

RunnerSpec == RunnerInit /\ [][RunnerNext]_runnerVars /\ RunnerFairness

-----------------------------------------------------------------------------
(* Properties *)

Running(r) == rpc[r] = "run"

\* The CASwap of Start lets one run in at a time: two tasks with a live context run
\* together only while the Stop that ended the first is about to cancel it.
OneLiveRun ==
    builtWith =>
        \A r, s \in Runs : Running(r) /\ Running(s) /\ r # s =>
            \/ {runCtx[r], runCtx[s]} \cap canceled # {}
            \/ \E q \in RunnerProcs \cup Runs : rpc[q] = "cancel"

\* IsRunning() is false and no Start or Stop is under way, that of a run's own
\* goroutine (runner.go:73) included.
RunnerIdle ==
    /\ ~isRunning /\ Starting = {}
    /\ \A q \in RunnerProcs \cup Runs : rpc[q] \notin StopSteps

TaskRuns(r) == rpc[r] \in {"begin", "run"}

\* An idle runner runs no task, unless the Start of that task was still before its
\* taskDone.Add(1) when a waitDone had slept; and even then, if the runner was built with
\* a context, the context of the task is cancelled, so it is about to end.
IdleIsStopped ==
    RunnerIdle => \A r \in Runs : TaskRuns(r) =>
                r \in overtaken /\ (builtWith => taskCtx \in canceled)

\* However Start, Stop and the goroutines of ended runs overtake each other, a runner has
\* one run with a live context at a time, and when it is idle none that its Stop could
\* have known of.
OneRunAtATime == RunnerTypeOK /\ OneLiveRun /\ IdleIsStopped

(* What the comments say and the sleep does not ensure. *)

\* "Stop cancels the task's ctx and waits for the task to end" (runner.go:77): so once
\* everybody who called it is back and isRunning is false, no task runs.
IdleRunsNothing == RunnerIdle => \A r \in Runs : ~TaskRuns(r)

-----------------------------------------------------------------------------
StopWaits(p) == rpc[p] = "wait"

\* "Stop cancels the task's ctx and waits for the task to end" (runner.go:77): it
\* returns, as the task does end then.
StopAlwaysReturns == \A p \in RunnerProcs : StopWaits(p) ~> ~StopWaits(p)

\* It does if the runner was built with a context: then there is something to cancel
\* whatever Start it overtakes.
StopReturns == \A p \in RunnerProcs : (builtWith /\ StopWaits(p)) ~> ~StopWaits(p)
=============================================================================
