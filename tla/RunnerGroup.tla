----------------------------- MODULE RunnerGroup ------------------------------
(***************************************************************************)
(* RunnerGroup of async/runner.go: Start and Stop start and stop the       *)
(* members one by one while they hold the lock of the group; Add and Del   *)
(* take it as well.  The members are TaskRunners: Start starts the task if *)
(* the runner does not run, Stop tells the task to end and waits until it  *)
(* has, but a Stop that finds another one at work returns at once.  Only   *)
(* the group starts its members; they are stopped from outside as well.    *)
(***************************************************************************)
EXTENDS Naturals, FiniteSets

CONSTANTS
    Runners,
    Callers,        \* goroutines that call the group
    MaxCalls        \* bound: calls of the group

NoCaller == "nobody"

ASSUME RunnerGroupAssumption == MaxCalls \in Nat /\ NoCaller \notin Callers

VARIABLES
    members,        \* g.runners
    lockHeld,       \* the caller that holds g.lock
    gcall,          \* what each caller does: "idle", "start", "stop"
    left,           \* the members its loop has still to handle
    member,         \* each runner: "idle", "running", "stopping" (by the group) or "outside" (by others)
    calls,          \* history: calls so far
    stoppedAll      \* history: the members when a Stop returned, until the next Start or Stop

rgVars == <<members, lockHeld, gcall, left, member, calls, stoppedAll>>

RunnerGroupTypeOK ==
    /\ members \subseteq Runners
    /\ lockHeld \in Callers \cup {NoCaller}
    /\ \A p \in Callers : gcall[p] # "idle" <=> lockHeld = p
    /\ \A p \in Callers : left[p] \subseteq members
    /\ member \in [Runners -> {"idle", "running", "stopping", "outside"}]
    /\ calls \in 0 .. MaxCalls

Lock(p) == lockHeld = NoCaller /\ gcall[p] = "idle" /\ calls < MaxCalls /\ calls' = calls + 1

AddRunner(p, r) == Lock(p) /\ members' = members \cup {r} /\ UNCHANGED <<lockHeld, gcall, left, member, stoppedAll>>
DelRunner(p, r) == Lock(p) /\ members' = members \ {r} /\ UNCHANGED <<lockHeld, gcall, left, member, stoppedAll>>

\* Start and Stop take the lock and range over the members.
Enter(p, what) ==
    /\ Lock(p) /\ lockHeld' = p
    /\ gcall' = [gcall EXCEPT ![p] = what] /\ left' = [left EXCEPT ![p] = members]
    /\ stoppedAll' = {}
    /\ UNCHANGED <<members, member>>

startMember(p, r) ==
    /\ gcall[p] = "start" /\ r \in left[p]
    /\ member' = IF member[r] \in {"idle", "outside"} THEN [member EXCEPT ![r] = "running"] ELSE member
    /\ left' = [left EXCEPT ![p] = @ \ {r}]
    /\ UNCHANGED <<members, lockHeld, gcall, calls, stoppedAll>>

\* Stop of a member: cancel, then wait for the end of the task, unless the runner was not
\* running or is being stopped by others.
stopMember(p, r) ==
    /\ gcall[p] = "stop" /\ r \in left[p] /\ member[r] = "running"
    /\ member' = [member EXCEPT ![r] = "stopping"]
    /\ UNCHANGED <<members, lockHeld, gcall, left, calls, stoppedAll>>
stopWaited_NotWaiting(p, r) ==
    /\ gcall[p] = "stop" /\ r \in left[p] /\ member[r] # "running"
    /\ left' = [left EXCEPT ![p] = @ \ {r}]
    /\ UNCHANGED <<members, lockHeld, gcall, member, calls, stoppedAll>>
stopWaited(p, r) ==
    /\ gcall[p] = "stop" /\ r \in left[p] /\ member[r] \in {"idle", "outside"}
    /\ left' = [left EXCEPT ![p] = @ \ {r}]
    /\ UNCHANGED <<members, lockHeld, gcall, member, calls, stoppedAll>>

Unlock(p) ==
    /\ gcall[p] # "idle" /\ left[p] = {}
    /\ stoppedAll' = IF gcall[p] = "stop" THEN members ELSE {}
    /\ gcall' = [gcall EXCEPT ![p] = "idle"] /\ lockHeld' = NoCaller
    /\ UNCHANGED <<members, left, member, calls>>

\* The task ends: because it was cancelled, or by itself.
taskEnds(r) ==
    /\ member[r] # "idle" /\ member' = [member EXCEPT ![r] = "idle"]
    /\ UNCHANGED <<members, lockHeld, gcall, left, calls, stoppedAll>>

\* A Stop from outside has told the task to end.
stopOutside(r) ==
    /\ member[r] = "running" /\ member' = [member EXCEPT ![r] = "outside"]
    /\ UNCHANGED <<members, lockHeld, gcall, left, calls, stoppedAll>>

-----------------------------------------------------------------------------
RunnerGroupInit ==
    /\ members = {} /\ lockHeld = NoCaller
    /\ gcall = [p \in Callers |-> "idle"] /\ left = [p \in Callers |-> {}]
    /\ member = [r \in Runners |-> "idle"] /\ calls = 0 /\ stoppedAll = {}

RunnerGroupNext ==
    \/ \E p \in Callers :
          \/ Enter(p, "start") \/ Enter(p, "stop") \/ Unlock(p)
          \/ \E r \in Runners :
                AddRunner(p, r) \/ DelRunner(p, r) \/ startMember(p, r) \/ stopMember(p, r) \/ stopWaited(p, r)
    \/ \E r \in Runners : taskEnds(r) \/ stopOutside(r)

\* A goroutine that can go on does, and a task that was told to end ends.
callerStep(p) ==
    Unlock(p) \/ \E r \in Runners : startMember(p, r) \/ stopMember(p, r) \/ stopWaited(p, r)

RunnerGroupFairness ==
    /\ \A p \in Callers : WF_rgVars(callerStep(p))
    /\ \A r \in Runners : WF_rgVars(member[r] \in {"stopping", "outside"} /\ taskEnds(r))

RunnerGroupSpec == RunnerGroupInit /\ [][RunnerGroupNext]_rgVars /\ RunnerGroupFairness

-----------------------------------------------------------------------------
(* Properties *)

\* After a Stop of the group has returned, and until the next Start, no task of those that
\* were members runs, except one that others were stopping: for that Stop does not wait.
StopCoversMembers == \A r \in stoppedAll : member[r] \in {"idle", "outside"}

\* A Stop of the group has stopped the members it found, also while others add, delete and
\* stop members.
GroupStops == RunnerGroupTypeOK /\ StopCoversMembers

\* Start and Stop of the group return: the lock is free again, although Stop holds it
\* while it waits for one task after the other.
GroupReturns == \A p \in Callers : gcall[p] # "idle" ~> gcall[p] = "idle"
=============================================================================
