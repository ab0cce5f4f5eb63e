------------------------------- MODULE MCTasks -------------------------------
(***************************************************************************)
(* The parts of package async that run tasks: TickerExecutor, TaskRunner,  *)
(* the run loops, Promise and the groups.  They share no state: a          *)
(* behaviour picks one of them and the others stay as they were made.      *)
(***************************************************************************)
EXTENDS TickerExecutor, TaskRunner, RunLoop, Promise, Groups

VARIABLE part       \* the part that runs

Kinds ==
    {k \in [fn : {"interval", "limit", "helper", "until"}, delayed : BOOLEAN,
            maxRetry : {-1, 0, 2}, timeout : BOOLEAN] :
        k.fn # "helper" =>
            /\ k.maxRetry = -1 /\ ~k.delayed
            /\ (k.fn = "limit" => k.timeout)
            /\ (k.fn = "interval" => ~k.timeout)}

AllGroups == {"WaitGroup", "WorkerGroup", "RoutineGroup", "EnsureRun", "EnsureDone"}

partVars == <<part, vars, runnerVars, loopVars, promiseVars, groupVars>>

TasksInit ==
    /\ part \in {"ticker", "runner", "loop", "promise", "group"}
    /\ Init /\ RunnerInit /\ LoopInit /\ PromiseInit /\ GroupInit
    /\ part # "ticker" => option = Counting
    /\ part # "loop" => kind = [fn |-> "interval", delayed |-> FALSE, maxRetry |-> -1, timeout |-> FALSE]
    /\ part # "promise" => form = [parallel |-> FALSE, any |-> FALSE]
    /\ part # "group" => group = "WaitGroup"

TasksNext ==
    \/ part = "ticker" /\ Next /\ UNCHANGED <<part, runnerVars, loopVars, promiseVars, groupVars>>
    \/ part = "runner" /\ RunnerNext /\ UNCHANGED <<part, vars, loopVars, promiseVars, groupVars>>
    \/ part = "loop" /\ LoopNext /\ UNCHANGED <<part, vars, runnerVars, promiseVars, groupVars>>
    \/ part = "promise" /\ PromiseNext /\ UNCHANGED <<part, vars, runnerVars, loopVars, groupVars>>
    \/ part = "group" /\ GroupNext /\ UNCHANGED <<part, vars, runnerVars, loopVars, promiseVars>>

\* The fairness of each part; of a part that does not run nothing is enabled.
TasksSpec ==
    /\ TasksInit /\ [][TasksNext]_partVars
    /\ Fairness /\ RunnerFairness /\ LoopFairness /\ PromiseFairness /\ GroupFairness

-----------------------------------------------------------------------------
(* Properties *)

\* Nobody who runs tasks waits for ever: batches are handled and the consumer ends
\* (TickerExecutor), Stop returns (TaskRunner, if built with a context), a promise returns
\* as soon as its outcome is known, Wait returns (groups).
TasksProgress == EventuallyHandled /\ ConsumerEnds /\ StopReturns /\ ReturnsEarly /\ WaitReturns
=============================================================================
