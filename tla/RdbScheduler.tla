----------------------------- MODULE RdbScheduler -----------------------------
(***************************************************************************)
(* rdb/scheduler: every instance of a program calls runTask for the same   *)
(* task at an interval.  A call goes on only if the task's next invocation *)
(* time, kept in redis, has come and if it obtains the task's lock, a      *)
(* SessionLock; the task itself may set the next time.  The module adds    *)
(* the instances to SessionLock, whose clients they are: each action that  *)
(* touches the lock is one of its actions.                                 *)
(*                                                                         *)
(* One task, its lock enabled.  A call outside InvokeTimeRange, or one     *)
(* whose request fails before redis has executed it, does nothing but wait *)
(* for the next tick and is left out.                                      *)
(***************************************************************************)
EXTENDS SessionLock

CONSTANT Faults     \* calls to redis may fail for no reason, instances may crash

ASSUME FaultsAssumption == Faults \in BOOLEAN

VARIABLES
    inst,       \* the instances: the loop of runTask, isRunning, rootCtx, redis client
    due,        \* redis: the next invocation time is absent or has come
    staleRuns   \* history: runs each instance began although the time had not come

schedVars == <<inst, due, staleRuns>>
allVars == <<lockVars, schedVars>>

Instance == [pc : {"idle", "wait", "read", "lock", "obtain", "run", "release", "ended"},
             isRunning : BOOLEAN, cancelled : BOOLEAN, closed : BOOLEAN]
NewScheduler == [pc |-> "idle", isRunning |-> FALSE, cancelled |-> FALSE, closed |-> FALSE]

SchedTypeOK ==
    /\ LockTypeOK
    /\ inst \in [Clients -> Instance]
    /\ due \in BOOLEAN
    /\ staleRuns \in [Clients -> 0 .. 2]

Goto(i, pc) == inst' = [inst EXCEPT ![i].pc = pc]

\* A call with rootCtx fails at once when it is cancelled or the client is closed.
CanCall(i) == ~inst[i].cancelled /\ ~inst[i].closed
MayFail(i) == Faults \/ ~CanCall(i)

-----------------------------------------------------------------------------
(* Start and Stop *)

Start(i) ==
    /\ inst[i].pc = "idle"
    /\ inst' = [inst EXCEPT ![i].isRunning = TRUE, ![i].pc = "wait"]
    /\ UNCHANGED <<lockVars, due, staleRuns>>

Stop(i) ==
    /\ inst[i].isRunning
    /\ inst' = [inst EXCEPT ![i].isRunning = FALSE, ![i].cancelled = TRUE]
    /\ UNCHANGED <<lockVars, due, staleRuns>>

\* Stop, 3 seconds later.
closeClient(i) ==
    /\ inst[i].cancelled
    /\ ~inst[i].closed
    /\ inst' = [inst EXCEPT ![i].closed = TRUE]
    /\ UNCHANGED <<lockVars, due, staleRuns>>

-----------------------------------------------------------------------------
(* The loop of runTask *)

\* A tick of the interval, when the scheduler is running.
invoke(i) ==
    /\ inst[i].pc = "wait"
    /\ inst[i].isRunning
    /\ Goto(i, "read")
    /\ UNCHANGED <<lockVars, due, staleRuns>>

\* rootCtx is cancelled: the last call does nothing.
endLoop(i) ==
    /\ inst[i].pc = "wait"
    /\ inst[i].cancelled
    /\ Goto(i, "ended")
    /\ UNCHANGED <<lockVars, due, staleRuns>>

\* The time is read, it is absent or has come.
isTaskNextInvokeTimeUp(i) == due /\ CanCall(i)

readNextTime_Ignored(i) ==
    /\ inst[i].pc = "read"
    /\ Goto(i, IF CanCall(i) THEN "lock" ELSE "wait")
    /\ UNCHANGED <<lockVars, due, staleRuns>>
readNextTime(i) ==
    /\ inst[i].pc = "read"
    /\ Goto(i, IF isTaskNextInvokeTimeUp(i) THEN "lock" ELSE "wait")
    /\ UNCHANGED <<lockVars, due, staleRuns>>

\* obtainLock: the lock is taken,
obtainLock(i) ==
    /\ inst[i].pc = "lock"
    /\ CanCall(i)
    /\ Obtain(i)
    /\ Goto(i, "obtain")
    /\ UNCHANGED <<due, staleRuns>>

\* or it is not: the call waits for the next tick.
obtainRefused(i) ==
    /\ inst[i].pc = "lock"
    /\ key # None \/ ~CanCall(i)
    /\ Goto(i, "wait")
    /\ UNCHANGED <<lockVars, due, staleRuns>>

\* The lock is there and task.Run begins.
taskBegins(i) ==
    /\ inst[i].pc = "obtain"
    /\ ObtainReturns(i)
    /\ Goto(i, "run")
    /\ staleRuns' = [staleRuns EXCEPT ![i] = IF due THEN @ ELSE @ + 1]
    /\ UNCHANGED due

obtainFails(i) ==
    /\ inst[i].pc = "obtain"
    /\ MayFail(i)
    /\ ObtainFails(i)
    /\ Goto(i, "wait")
    /\ UNCHANGED <<due, staleRuns>>

\* The task calls SetTaskNextInvokeTime with a time to come.
setNextTime(i) ==
    /\ inst[i].pc = "run"
    /\ CanCall(i)
    /\ due' = FALSE
    /\ UNCHANGED <<lockVars, inst, staleRuns>>

taskReturns(i) ==
    /\ inst[i].pc = "run"
    /\ Goto(i, "release")
    /\ UNCHANGED <<lockVars, due, staleRuns>>

\* releaseLock, deferred.
releaseLock_Forgotten(i) ==
    /\ inst[i].pc = "release"
    /\ Goto(i, "wait")
    /\ UNCHANGED <<lockVars, due, staleRuns>>
releaseLock_NotWaiting(i) ==
    /\ inst[i].pc = "release"
    /\ \/ /\ Release(i)
          /\ Goto(i, IF sess[i].released THEN "wait" ELSE "release")
       \/ /\ sess[i].pc = "stopping"
          /\ sess' = [sess EXCEPT ![i] = NoSession]
          /\ key' = Deleted(i)
          /\ ttl' = IF key' = None THEN 0 ELSE ttl
          /\ Goto(i, "wait")
    /\ UNCHANGED <<due, staleRuns>>
releaseLock(i) ==
    /\ inst[i].pc = "release"
    /\ \/ /\ Release(i)
          /\ Goto(i, IF sess[i].released THEN "wait" ELSE "release")
       \/ StopReturns(i) /\ UNCHANGED inst
       \/ CanCall(i) /\ Unlock(i) /\ Goto(i, "wait")
       \/ MayFail(i) /\ UnlockFails(i) /\ Goto(i, "wait")
    /\ UNCHANGED <<due, staleRuns>>

-----------------------------------------------------------------------------
\* The refresh loop of the instance's session: it has a context of its own, but
\* needs the client.
refreshLock(i) ==
    /\ \/ refreshTick(i) \/ refreshReturns(i) \/ refreshChecks(i) \/ refreshReports(i)
       \/ refreshEnds(i)
       \/ ~inst[i].closed /\ refreshExec(i)
       \/ inst[i].closed /\ refreshFails(i)
    /\ UNCHANGED schedVars

refreshBreaks(i) ==
    /\ Faults \/ sess[i].pc = "stopping"
    /\ refreshFails(i)
    /\ UNCHANGED schedVars

crash(i) ==
    /\ Faults
    /\ Crash(i)
    /\ inst' = [inst EXCEPT ![i] = [@ EXCEPT !.pc = "ended", !.isRunning = FALSE]]
    /\ UNCHANGED <<due, staleRuns>>

timePasses == Elapse /\ UNCHANGED schedVars

\* The next invocation time comes.
timeComes ==
    /\ ~due
    /\ due' = TRUE
    /\ staleRuns' = [i \in Clients |-> 0]
    /\ UNCHANGED <<lockVars, inst>>

-----------------------------------------------------------------------------
SchedInit ==
    /\ LockInit
    /\ inst = [i \in Clients |-> NewScheduler]
    /\ due = TRUE
    /\ staleRuns = [i \in Clients |-> 0]

loopStep(i) ==
    \/ invoke(i) \/ endLoop(i) \/ readNextTime(i) \/ obtainLock(i) \/ obtainRefused(i)
    \/ taskBegins(i) \/ taskReturns(i) \/ releaseLock(i)

SchedNext ==
    \/ \E i \in Clients : \/ Start(i) \/ Stop(i) \/ closeClient(i)
                          \/ loopStep(i) \/ obtainFails(i) \/ setNextTime(i)
                          \/ refreshLock(i) \/ refreshBreaks(i) \/ crash(i)
    \/ timePasses
    \/ timeComes

SchedSpec == SchedInit /\ [][SchedNext]_allVars

\* Goroutines run on, tasks return, time passes, and the answer to Obtain is not lost
\* every time; the select of the refresh loop, which chooses at random, does not take a
\* tick for ever when its context is done.  Nobody is obliged to Start, to Stop or to fail.
SchedFairness ==
    /\ \A i \in Clients :
          /\ WF_allVars(loopStep(i))
          /\ WF_allVars(refreshLock(i))
          /\ SF_allVars(taskBegins(i))
          /\ SF_allVars(refreshEnds(i) /\ UNCHANGED schedVars)
    /\ WF_allVars(timePasses)

FairSchedSpec == SchedSpec /\ SchedFairness

-----------------------------------------------------------------------------
(* Properties *)

Running(i) == inst[i].pc = "run"

\* The instances use the lock as its module says clients do, so what SessionLock
\* guarantees holds of the scheduler's lock: it is a lease, taken from no instance that
\* still counts on it and is in time.
UsesSessionLock == LockSpec /\ ImplementsLease

\* The lock keeps instances apart: two run the task at once only when one of them has
\* lost its session (a refresh failed) and goes on running without the lock, or is late
\* (a refresh takes so long that the key may expire under it).
ExclusiveUnlessLost ==
    \A i, j \in Clients : (i # j /\ Running(i) /\ Running(j)) =>
        \E k \in {i, j} : sess[k].released \/ sess[k].late

\* The next time is read before the lock is obtained, so it may have been set in
\* between; but an instance begins at most one run on such a stale reading.
OneStaleRun == \A i \in Clients : staleRuns[i] <= 1

\* A task that is due is run by some instance, as long as one goes on running: no lost
\* lock, crashed holder or failed release keeps the lock for ever.
DueIsRun ==
    \A i \in Clients : (due /\ inst[i].pc # "idle") ~>
        (~due \/ ~inst[i].isRunning \/ \E j \in Clients : Running(j))

\* After Stop the loop of the instance ends.
StopEnds == \A i \in Clients : inst[i].cancelled ~> inst[i].pc = "ended"

(* What the comment says and the order of the checks does not keep. *)

\* "every call runs the task only if all of the following hold: ... the current time is
\* later than the task's next invocation time" (Scheduler): a run begins only when due.
RunsWhenDue ==
    [][\A i \in Clients : (~Running(i) /\ Running(i)') => due]_allVars
=============================================================================
