---------------------------- MODULE TimerExecutor ----------------------------
(***************************************************************************)
(* The time wheel of async/timer.go.  One goroutine, run(), owns the map   *)
(* e.tasks, the buckets and currentBucketIdx and serves one event at a     *)
(* time: a tick, a task from putCh, a key from delCh or the close signal.  *)
(* Both channels are unbuffered, so the hand-over of a task together with  *)
(* the handler that run() executes for it is one action.  Every tick that  *)
(* finds due tasks starts a goroutine (a runner) that calls the user's     *)
(* handler for each of them, in the random order of a map iteration, and   *)
(* puts cyclic tasks again.                                                *)
(*                                                                         *)
(* A *timerExecutorTask is an element of Ids and heap gives its fields, so *)
(* that `removed', set through e.tasks, is seen through the bucket.  The   *)
(* task's value is only passed through and is left out.  An object that    *)
(* nothing refers to any more is garbage: its record becomes Blank and its *)
(* identity may stand for a new task.                                      *)
(***************************************************************************)
EXTENDS Integers, FiniteSets

CONSTANTS
    Keys,       \* task keys
    Ids,        \* identities of task objects; bounds the objects alive at once
    NoTask,     \* the absent map entry
    Delays,     \* the delays callers pass, in units of time
    Period,     \* the tick period, in the same unit
    N,          \* bucketsNum
    CyclicFlags \* the values callers pass for `cyclic'

ASSUME WheelAssumption ==
    /\ N \in Nat \ {0}
    /\ Period \in Nat \ {0}
    /\ Delays \subseteq Nat \ {0}
    /\ NoTask \notin Ids
    /\ CyclicFlags \subseteq BOOLEAN

VARIABLES
    tasks,          \* e.tasks: key -> task
    buckets,        \* e.buckets: index -> key -> task
    cur,            \* e.currentBucketIdx
    heap,           \* the task objects
    runners,        \* goroutines in runTasks: tasks left, task being put again
    onClosedSet,    \* e.onClosedHandler # nil
    closeDone,      \* closeDoneCh is closed
    runDone,        \* runDoneCh is closed: run() has returned
    closer,         \* the Close() call that won the race
    handedOver      \* history: tasks passed to onClosedHandler

wheel == <<tasks, buckets, cur, heap>>
vars == <<tasks, buckets, cur, heap, runners, onClosedSet, closeDone, runDone,
          closer, handedOver>>

Idx == 0 .. N-1
IdOrNone == Ids \cup {NoTask}
\* Two fields are history: `waited', the ticks handled since the task was put,
\* and `cancelled', that Del was called for its key when it was pending.
TaskObject == [key : Keys \cup {NoTask}, delay : Delays \cup {0}, bucketIdx : Idx,
               round : Nat, removed : BOOLEAN, cyclic : BOOLEAN,
               waited : Nat, cancelled : BOOLEAN]
Blank == [key |-> NoTask, delay |-> 0, bucketIdx |-> 0, round |-> 0,
          removed |-> FALSE, cyclic |-> FALSE, waited |-> 0, cancelled |-> FALSE]
Runner == [todo : SUBSET Ids, reput : IdOrNone]

TypeOK ==
    /\ tasks \in [Keys -> IdOrNone]
    /\ buckets \in [Idx -> [Keys -> IdOrNone]]
    /\ cur \in Idx
    /\ heap \in [Ids -> TaskObject]
    /\ runners \in SUBSET Runner
    /\ onClosedSet \in BOOLEAN
    /\ closeDone \in BOOLEAN
    /\ runDone \in BOOLEAN
    /\ closer \in {"none", "waiting", "returned"}
    /\ handedOver \in SUBSET Ids

-----------------------------------------------------------------------------
(* Where a task can be referred to from. *)
InWheel(id) == \E b \in Idx, k \in Keys : buckets[b][k] = id
InTodo(id) == \E r \in runners : id \in r.todo
InReput(id) == \E r \in runners : r.reput = id
Indexed(id) == \E k \in Keys : tasks[k] = id
Referenced(id) == Indexed(id) \/ InWheel(id) \/ InTodo(id) \/ InReput(id)

\* A task that is still going to fire.
Pending(id) == InWheel(id) /\ ~heap[id].removed

Steps(delay) == delay \div Period

-----------------------------------------------------------------------------
(* resetTaskPosition *)
BucketFor_NoWrap(delay) == Steps(delay) % N
BucketFor(delay) == (Steps(delay) + cur) % N

RoundFor_OneMore(delay) == Steps(delay) \div N + 1
RoundFor(delay) == Steps(delay) \div N

\* The key's task in e.tasks, if any, is marked removed.
MarkRemoved(k) ==
    [i \in Ids |-> IF i = tasks[k] THEN [heap[i] EXCEPT !.removed = TRUE] ELSE heap[i]]

\* The position of the task is computed and it becomes the key's entry in
\* e.tasks and in its bucket, where it may overwrite an older task of the key.
onPut(id, k, d, c) ==
    LET b   == BucketFor(d)
        new == [key |-> k, delay |-> d, bucketIdx |-> b, round |-> RoundFor(d),
                removed |-> FALSE, cyclic |-> c, waited |-> 0, cancelled |-> FALSE]
    IN  /\ heap' = [i \in Ids |-> IF i = id THEN new
                                  ELSE IF i = buckets[b][k] THEN Blank
                                  ELSE MarkRemoved(k)[i]]
        /\ tasks' = [tasks EXCEPT ![k] = id]
        /\ buckets' = [buckets EXCEPT ![b] = [@ EXCEPT ![k] = id]]
        /\ UNCHANGED <<cur, onClosedSet, closeDone, runDone, closer, handedOver>>

-----------------------------------------------------------------------------
(* The caller's operations. *)

\* PutTask: run() takes the task.  A select of which both cases are ready may
\* take either, so a task may still be accepted between close and onClosed().
\* A refused call (closeDone) changes nothing.
PutTask(k, d, c) ==
    /\ ~runDone
    /\ \E id \in Ids : ~Referenced(id) /\ onPut(id, k, d, c)
    /\ UNCHANGED runners

\* Del: run() marks the task that e.tasks has for the key.
Del(k) ==
    /\ ~runDone
    /\ heap' = [i \in Ids |->
                  [MarkRemoved(k)[i] EXCEPT !.cancelled =
                     @ \/ (Pending(i) /\ heap[i].key = k)]]
    /\ UNCHANGED <<tasks, buckets, cur, runners, onClosedSet, closeDone, runDone,
                   closer, handedOver>>

WithOnClosedHandler ==
    /\ ~onClosedSet
    /\ onClosedSet' = TRUE
    /\ UNCHANGED <<wheel, runners, closeDone, runDone, closer, handedOver>>

\* Close: only the call that closes closeDoneCh waits for run() to return.
Close ==
    /\ ~closeDone
    /\ closeDone' = TRUE
    /\ closer' = "waiting"
    /\ UNCHANGED <<wheel, runners, onClosedSet, runDone, handedOver>>

CloseReturn_NoWait ==
    /\ closer = "waiting"
    /\ closer' = "returned"
    /\ UNCHANGED <<wheel, runners, onClosedSet, closeDone, runDone, handedOver>>
CloseReturn ==
    /\ closer = "waiting"
    /\ runDone
    /\ closer' = "returned"
    /\ UNCHANGED <<wheel, runners, onClosedSet, closeDone, runDone, handedOver>>

-----------------------------------------------------------------------------
(* The run() goroutine's own events. *)

InBucket(b) == {id \in Ids : \E k \in Keys : buckets[b][k] = id}
RemovedIn(b) == {id \in InBucket(b) : heap[id].removed}
LaterIn(b) == {id \in InBucket(b) : ~heap[id].removed /\ heap[id].round > 0}
DueIn_IgnoringRound(b) == {id \in InBucket(b) : ~heap[id].removed}
DueIn_IgnoringRemoved(b) == {id \in InBucket(b) : heap[id].round = 0}
DueIn(b) == {id \in InBucket(b) : ~heap[id].removed /\ heap[id].round = 0}

\* delTask for every task of a set: both maps are cleared by the task's key,
\* whichever task e.tasks has for that key.
IndexWithout_Keeping(S) == tasks
IndexWithout(S) ==
    [k \in Keys |-> IF \E id \in S : heap[id].key = k THEN NoTask ELSE tasks[k]]
BucketsWithout(S) ==
    [b \in Idx |-> [k \in Keys |->
        IF \E id \in S : heap[id].bucketIdx = b /\ heap[id].key = k
        THEN NoTask ELSE buckets[b][k]]]

NextIdx_LateWrap == IF cur = N THEN 0 ELSE cur + 1
NextIdx == IF cur + 1 = N THEN 0 ELSE cur + 1

\* What a tick does to a task it leaves in its bucket, and to any other.
NextRound(task) == [task EXCEPT !.round = @ - 1, !.waited = @ + 1]
Waited(task) == [task EXCEPT !.waited = @ + 1]

\* run() takes ticks until it returns.
Ticking == ~runDone

onTick ==
    LET removed == RemovedIn(cur)
        due == DueIn(cur)
    IN  /\ Ticking
        /\ tasks' = IndexWithout(removed \cup due)
        /\ buckets' = BucketsWithout(removed \cup due)
        /\ heap' = [id \in Ids |->
                      IF id \in removed \ due THEN Blank
                      ELSE IF id \in LaterIn(cur) THEN NextRound(heap[id])
                      ELSE IF InWheel(id) THEN Waited(heap[id])
                      ELSE heap[id]]
        /\ cur' = NextIdx
        /\ runners' = IF due = {} THEN runners
                      ELSE runners \cup {[todo |-> due, reput |-> NoTask]}
        /\ UNCHANGED <<onClosedSet, closeDone, runDone, closer, handedOver>>

onClosed_WithoutSignal ==
    /\ closeDone
    /\ ~runDone
    /\ handedOver' = IF onClosedSet THEN {id \in Ids : Indexed(id)} ELSE {}
    /\ UNCHANGED <<wheel, runners, onClosedSet, closeDone, runDone, closer>>
\* onClosed: the ticker stops, every task of e.tasks goes to onClosedHandler,
\* and runDoneCh is closed.
onClosed ==
    /\ closeDone
    /\ ~runDone
    /\ runDone' = TRUE
    /\ handedOver' = IF onClosedSet THEN {id \in Ids : Indexed(id)} ELSE {}
    /\ UNCHANGED <<wheel, runners, onClosedSet, closeDone, closer>>

-----------------------------------------------------------------------------
(* The goroutines in runTasks. *)

\* What is left of runner r after it has called the handler for `id'.
AfterHandler(r, id) ==
    IF heap[id].cyclic THEN {[todo |-> r.todo \ {id}, reput |-> id]}
    ELSE IF r.todo = {id} THEN {}
    ELSE {[todo |-> r.todo \ {id}, reput |-> NoTask]}
AfterReput(r) ==
    IF r.todo = {} THEN {} ELSE {[todo |-> r.todo, reput |-> NoTask]}

runHandler(id) ==
    /\ \E r \in runners :
          /\ id \in r.todo
          /\ r.reput = NoTask
          /\ runners' = (runners \ {r}) \cup AfterHandler(r, id)
    /\ heap' = IF heap[id].cyclic THEN heap ELSE [heap EXCEPT ![id] = Blank]
    /\ UNCHANGED <<tasks, buckets, cur, onClosedSet, closeDone, runDone, closer,
                   handedOver>>

\* The runner's own PutTask for a cyclic task.  The object put is a new one;
\* the old one is garbage from here on, so its identity is used again.
reputAccepted(id) ==
    /\ ~runDone
    /\ \E r \in runners :
          /\ r.reput = id
          /\ runners' = (runners \ {r}) \cup AfterReput(r)
    /\ onPut(id, heap[id].key, heap[id].delay, TRUE)

reputRefused(id) ==
    /\ closeDone
    /\ \E r \in runners :
          /\ r.reput = id
          /\ runners' = (runners \ {r}) \cup AfterReput(r)
    /\ heap' = [heap EXCEPT ![id] = Blank]
    /\ UNCHANGED <<tasks, buckets, cur, onClosedSet, closeDone, runDone, closer,
                   handedOver>>

-----------------------------------------------------------------------------
\* NewTimerExecutor
Init ==
    /\ tasks = [k \in Keys |-> NoTask]
    /\ buckets = [b \in Idx |-> [k \in Keys |-> NoTask]]
    /\ cur = 0
    /\ heap = [id \in Ids |-> Blank]
    /\ runners = {}
    /\ onClosedSet = FALSE
    /\ closeDone = FALSE
    /\ runDone = FALSE
    /\ closer = "none"
    /\ handedOver = {}

Next ==
    \/ \E k \in Keys, d \in Delays, c \in CyclicFlags : PutTask(k, d, c)
    \/ \E k \in Keys : Del(k)
    \/ WithOnClosedHandler
    \/ Close
    \/ CloseReturn
    \/ onTick
    \/ onClosed
    \/ \E id \in Ids : runHandler(id) \/ reputAccepted(id) \/ reputRefused(id)

Spec == Init /\ [][Next]_vars

\* The ticker keeps ticking and select picks at random among the ready cases,
\* so neither a tick nor the close signal waits for ever; goroutines run on.
Fairness ==
    /\ WF_vars(onTick)
    /\ WF_vars(onClosed)
    /\ WF_vars(CloseReturn)
    /\ \A id \in Ids : /\ WF_vars(runHandler(id))
                       /\ WF_vars(reputAccepted(id) \/ reputRefused(id))

FairSpec == Spec /\ Fairness

-----------------------------------------------------------------------------
(* Properties *)

\* A bucket holds a task under the task's own key and at the index the task
\* records, so delTask clears the entry it was reached through; no object is
\* both in the wheel and with a runner.
BucketsConsistent ==
    \A b \in Idx, k \in Keys, id \in Ids : buckets[b][k] = id =>
        /\ heap[id].key = k
        /\ heap[id].bucketIdx = b
        /\ ~InTodo(id)
        /\ ~InReput(id)

\* e.tasks never refers to a task that has left the wheel: what Del and a
\* second Put mark as removed through e.tasks is a task that has not fired.
IndexConsistent ==
    \A k \in Keys, id \in Ids : tasks[k] = id =>
        buckets[heap[id].bucketIdx][k] = id

\* delTask, Put and Del reach tasks through two maps, and the maps agree.
MapsConsistent == BucketsConsistent /\ IndexConsistent

\* Ticks left before the tick at which a task of the wheel is due: the distance
\* to its bucket on the wheel and whole turns for its rounds.
TicksLeft(id) ==
    ((heap[id].bucketIdx - cur + N) % N) + heap[id].round * N

\* Whatever the wheel did since a pending task was put (turns, rounds, other
\* puts and dels), ticks waited and ticks left add up to the steps asked for.
WheelOnSchedule ==
    \A id \in Ids : Pending(id) => heap[id].waited + TicksLeft(id) = Steps(heap[id].delay)

\* A task is handed to a runner by the tick that follows `steps' others, neither
\* earlier nor later (onTick, resetTaskPosition).
FiresAtItsTick ==
    [][\A id \in Ids : (~InTodo(id) /\ InTodo(id)') =>
            heap[id].waited = Steps(heap[id].delay)]_vars

\* A task that Del or a newer Put marked removed is not in a runner's hands.
RemovedNeverRuns == \A id \in Ids : InTodo(id) => ~heap[id].removed

\* No task is given both to the handler and to onClosedHandler.
DeliveredOnce == \A id \in handedOver : ~InTodo(id) /\ ~InReput(id)

\* A task has one fate: what was removed, or handed over when the executor closed, is not
\* run as well.
OneFate == RemovedNeverRuns /\ DeliveredOnce

\* Once the winning Close has returned the wheel no longer changes: no tick is
\* handled and no Put, by a caller or a runner, is accepted.
QuietAfterClose == [][closer = "returned" => UNCHANGED <<tasks, buckets, cur>>]_vars

\* A task in the wheel fires, is removed or replaced, or the executor closes.
LeavesWheel == \A id \in Ids : InWheel(id) ~> (~InWheel(id) \/ runDone)

\* A fired task reaches the handler, even when its runner is blocked putting a
\* cyclic task again while the executor closes.
FiredIsHandled == \A id \in Ids : InTodo(id) ~> ~InTodo(id)

\* Close returns.
CloseReturns == closer = "waiting" ~> closer = "returned"

\* Nothing gets stuck in the executor: tasks leave the wheel, runners finish and Close
\* returns, although runners and callers put tasks through the channel that Close shuts.
TimerProgress == LeavesWheel /\ FiredIsHandled /\ CloseReturns

(* What the test says and the code does not do. *)

\* "ex2.Del(2) //task2 is not executed": a task that was in the wheel when its
\* key was deleted does not fire.
DelIsEffective == \A id \in Ids : InTodo(id) => ~heap[id].cancelled
=============================================================================
