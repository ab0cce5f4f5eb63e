-------------------------------- MODULE Groups --------------------------------
(***************************************************************************)
(* async/group.go and EnsureRun, EnsureDone of async/run.go: tasks started *)
(* in goroutines of their own and counted in a sync.WaitGroup.  WorkerGroup *)
(* has permits for `limit` tasks, WaitGroup none; RoutineGroup starts       *)
(* `limit` copies of its task at once; EnsureRun counts a task as soon as   *)
(* its goroutine runs, EnsureDone when the task has returned.               *)
(***************************************************************************)
EXTENDS Integers, FiniteSets

CONSTANTS
    GroupKinds, \* the groups that are used
    Limit,      \* limit of a WorkerGroup or a RoutineGroup
    GroupTasks  \* the tasks given to the group

ASSUME GroupsAssumption ==
    /\ GroupKinds \subseteq {"WaitGroup", "WorkerGroup", "RoutineGroup", "EnsureRun", "EnsureDone"}
    /\ Limit \in Nat \ {0} /\ IsFiniteSet(GroupTasks) /\ Cardinality(GroupTasks) >= Limit

VARIABLES
    group,      \* which group is used
    wg,         \* g.wg
    permit,     \* permits taken: what is in the channel g.permit
    task,       \* where each task is
    waiter      \* the goroutine that calls Wait

groupVars == <<group, wg, permit, task, waiter>>

GroupTypeOK ==
    /\ group \in GroupKinds
    /\ wg \in 0 .. Cardinality(GroupTasks)
    /\ permit \in 0 .. Limit
    /\ task \in [GroupTasks -> {"new", "added", "ready", "running", "returned", "released", "gone"}]
    /\ waiter \in {"idle", "waiting", "returned"}

Goes(t, from, to) == task[t] = from /\ task' = [task EXCEPT ![t] = to]

\* wg.Add(1) of Run, which takes its permit afterwards and starts the goroutine.
\* After Wait was called nothing may be added (the comments on Wait).
Run(t) ==
    /\ group \in {"WaitGroup", "WorkerGroup"} /\ waiter = "idle"
    /\ Goes(t, "new", IF group = "WorkerGroup" THEN "added" ELSE "ready")
    /\ wg' = wg + 1
    /\ UNCHANGED <<group, permit, waiter>>

takePermit(t) ==
    /\ permit < Limit
    /\ Goes(t, "added", "ready")
    /\ permit' = permit + 1
    /\ UNCHANGED <<group, wg, waiter>>

\* RoutineGroup.Start, EnsureRun and EnsureDone add everything at once.
StartAll ==
    /\ group \in {"RoutineGroup", "EnsureRun", "EnsureDone"} /\ waiter = "idle"
    /\ \A t \in GroupTasks : task[t] = "new"
    /\ \E T \in SUBSET GroupTasks :
          /\ IF group = "RoutineGroup" THEN Cardinality(T) = Limit ELSE T = GroupTasks
          /\ task' = [t \in GroupTasks |-> IF t \in T THEN "ready" ELSE "new"]
          /\ wg' = Cardinality(T)
    /\ UNCHANGED <<group, permit, waiter>>

\* The goroutine; EnsureRun calls Done before the task.
begin(t) ==
    /\ Goes(t, "ready", "running")
    /\ wg' = IF group = "EnsureRun" THEN wg - 1 ELSE wg
    /\ UNCHANGED <<group, permit, waiter>>

return(t) ==
    /\ Goes(t, "running", "returned")
    /\ UNCHANGED <<group, wg, permit, waiter>>

\* The deferred calls: the permit is given back, then Done.
releasePermit(t) ==
    /\ Goes(t, "returned", "released")
    /\ permit' = IF group = "WorkerGroup" THEN permit - 1 ELSE permit
    /\ UNCHANGED <<group, wg, waiter>>

done(t) ==
    /\ Goes(t, "released", "gone")
    /\ wg' = IF group = "EnsureRun" THEN wg ELSE wg - 1
    /\ UNCHANGED <<group, permit, waiter>>

GroupWait_NotWaiting ==
    /\ waiter = "idle" /\ \E t \in GroupTasks : task[t] # "new"
    /\ waiter' = "returned"
    /\ UNCHANGED <<group, wg, permit, task>>
GroupWait ==
    /\ waiter = "idle" /\ \E t \in GroupTasks : task[t] # "new"
    /\ waiter' = IF wg = 0 THEN "returned" ELSE "waiting"
    /\ UNCHANGED <<group, wg, permit, task>>

waitOver ==
    /\ waiter = "waiting" /\ wg = 0
    /\ waiter' = "returned"
    /\ UNCHANGED <<group, wg, permit, task>>

-----------------------------------------------------------------------------
GroupInit ==
    /\ group \in GroupKinds
    /\ wg = 0 /\ permit = 0 /\ waiter = "idle"
    /\ task = [t \in GroupTasks |-> "new"]

taskStep(t) == takePermit(t) \/ begin(t) \/ return(t) \/ releasePermit(t) \/ done(t)

GroupNext == (\E t \in GroupTasks : Run(t)) \/ StartAll \/ GroupWait \/ waitOver \/ \E t \in GroupTasks : taskStep(t)

\* Goroutines run on and tasks return.
GroupFairness == WF_groupVars(waitOver) /\ \A t \in GroupTasks : WF_groupVars(taskStep(t))

GroupSpec == GroupInit /\ [][GroupNext]_groupVars /\ GroupFairness

-----------------------------------------------------------------------------
(* Properties *)

\* WorkerGroup: at most limit tasks run at once, and every running one has a permit.
PermitsBound ==
    group = "WorkerGroup" =>
        Cardinality({t \in GroupTasks : task[t] \in {"ready", "running", "returned"}}) = permit

\* When Wait returns, what was given to the group before is done: the tasks that were
\* still waiting for a permit included, and for EnsureRun: has begun.
WaitCovers ==
    waiter = "returned" =>
        \A t \in GroupTasks :
            task[t] \in {"new", "gone"}
                \cup (IF group = "EnsureRun" THEN {"running", "returned", "released"} ELSE {})

\* A group neither exceeds its permits nor lets Wait return before its tasks are through.
TasksCovered == GroupTypeOK /\ PermitsBound /\ WaitCovers

\* Wait returns although more tasks were given than there are permits.
WaitReturns == waiter = "waiting" ~> waiter = "returned"
=============================================================================
