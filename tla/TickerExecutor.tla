---------------------------- MODULE TickerExecutor ----------------------------
(***************************************************************************)
(* async/ticker.go: a TickerExecutor collects tasks and hands them to its  *)
(* handler in one batch whenever its Ticker ticks.  The Ticker ticks when  *)
(* enough has been counted (IncrCount, called by Add with the executor's   *)
(* lock held) or periodically (the goroutine ranging over a time.Ticker,   *)
(* which holds no lock).  Both end in fireTick, whose accesses to the      *)
(* counter and to the one-place channel are separate atomic steps, so the  *)
(* two interleave with each other and with the consumer goroutine.         *)
(*                                                                         *)
(* Tasks are numbered in the order in which Add accepts them.              *)
(***************************************************************************)
EXTENDS Integers, Sequences

CONSTANTS
    Options,            \* the TickerOptions executors are created with
    Counts,             \* the counts callers pass to Add
    Sizes,              \* how many tasks callers pass to Add
    MaxTasks            \* bound on the tasks accepted

\* HasPeriod is Period > 0: there is a time ticker.
TickerOption == [MinCount : Nat, MaxCount : Nat, HasPeriod : BOOLEAN]

\* What MustNormalize asserts of an option; MinDelay > 0 as soon as there is a period.
MustNormalize(o) ==
    /\ o.MinCount <= o.MaxCount
    /\ o.MinCount > 0 \/ o.MaxCount > 0 \/ o.HasPeriod

ASSUME OptionAssumption ==
    /\ Options \subseteq TickerOption
    /\ \A o \in Options : MustNormalize(o)
    /\ Counts \subseteq Nat /\ Sizes \subseteq Nat \ {0} /\ MaxTasks \in Nat

\* The kinds of option: ticks by count only, by count and time, and by time once there is
\* a minimum.
Counting == [MinCount |-> 0, MaxCount |-> 3, HasPeriod |-> FALSE]
Periodic == [MinCount |-> 0, MaxCount |-> 2, HasPeriod |-> TRUE]
WithMinimum == [MinCount |-> 1, MaxCount |-> 2, HasPeriod |-> TRUE]
AllOptions == {Counting, Periodic, WithMinimum}
MinimumOnly == {WithMinimum}

VARIABLES
    option,         \* t.option
    tasks,          \* e.tasks
    closed,         \* e.isClosed, t.isClosed and close(tickStream): set under the lock
    count,          \* t.currentCount
    ticks,          \* ticks in tickStream, a channel of capacity one
    delayPassed,    \* time.Since(lastTickTime) >= MinDelay
    fire,           \* where the two callers of fireTick are, and the count they read
    consumer,       \* the goroutine ranging over e.ticker.C
    accepted,       \* history: number of tasks accepted
    handled,        \* history: the tasks given to the handler, in order
    backlog         \* history: what was counted since the handler was last called

vars == <<option, tasks, closed, count, ticks, delayPassed, fire, consumer,
          accepted, handled, backlog>>

\* The callers of fireTick: the Add that holds the lock, and the time ticker.
Callers == {"add", "timer"}
FireState == [pc : {"idle", "count", "delay", "read", "send", "settle"}, cc : Int]
Idle == [pc |-> "idle", cc |-> 0]

TypeOK ==
    /\ option \in Options
    /\ tasks \in Seq(Nat)
    /\ closed \in BOOLEAN
    /\ count \in Int
    /\ ticks \in 0 .. 1
    /\ delayPassed \in BOOLEAN
    /\ fire \in [Callers -> FireState]
    /\ consumer \in {"range", "invoke", "exited"}
    /\ accepted \in Nat
    /\ handled \in Seq(Nat)
    /\ backlog \in Nat

\* Add is the only caller that keeps the lock across steps.
LockFree == fire["add"].pc = "idle"

\* The numbers given to tasks, from..to.
Numbered(from, to) == [i \in 1 .. to - from + 1 |-> from + i - 1]

-----------------------------------------------------------------------------
(* Executor operations, all under e.lock *)

\* IncrCount: whether the tick fires.
Reaches(n) == count + n >= option.MaxCount

Add(n, m) ==
    /\ LockFree
    /\ ~closed
    /\ accepted + m <= MaxTasks
    /\ tasks' = tasks \o Numbered(accepted + 1, accepted + m)
    /\ accepted' = accepted + m
    /\ backlog' = backlog + n
    /\ IF n > 0 /\ option.MaxCount > 0
       THEN /\ count' = count + n
            /\ fire' = IF Reaches(n) THEN [fire EXCEPT !["add"] = [pc |-> "read", cc |-> 0]]
                       ELSE fire
       ELSE UNCHANGED <<count, fire>>
    /\ UNCHANGED <<option, closed, ticks, delayPassed, consumer, handled>>

\* invoke: the batch is taken, the count reset, the handler called.
invoke_KeepingTasks ==
    /\ handled' = handled \o tasks
    /\ count' = IF tasks # <<>> /\ ~closed' THEN 0 ELSE count
    /\ backlog' = 0
    /\ UNCHANGED <<tasks, accepted>>
invoke ==
    /\ handled' = handled \o tasks
    /\ tasks' = <<>>
    /\ count' = IF tasks # <<>> /\ ~closed' THEN 0 ELSE count
    /\ backlog' = 0
    /\ UNCHANGED accepted

InvokeNow ==
    /\ LockFree
    /\ UNCHANGED closed
    /\ invoke
    /\ UNCHANGED <<option, ticks, delayPassed, fire, consumer>>

\* Close: the ticker is closed first, then what is left is handled.
Close ==
    /\ LockFree
    /\ ~closed
    /\ closed' = TRUE
    /\ invoke
    /\ UNCHANGED <<option, ticks, delayPassed, fire, consumer>>

-----------------------------------------------------------------------------
(* The consumer goroutine *)

consumerReceive ==
    /\ consumer = "range"
    /\ ticks > 0
    /\ ticks' = ticks - 1
    /\ consumer' = "invoke"
    /\ UNCHANGED <<option, tasks, closed, count, delayPassed, fire, accepted, handled, backlog>>

consumerInvoke ==
    /\ consumer = "invoke"
    /\ LockFree
    /\ consumer' = "range"
    /\ UNCHANGED closed
    /\ invoke
    /\ UNCHANGED <<option, ticks, delayPassed, fire>>

\* The channel is closed and drained.
consumerExit ==
    /\ consumer = "range"
    /\ closed /\ ticks = 0
    /\ consumer' = "exited"
    /\ UNCHANGED <<option, tasks, closed, count, ticks, delayPassed, fire, accepted, handled, backlog>>

-----------------------------------------------------------------------------
(* The time ticker's goroutine: handleTickEvent.  A tick of the time.Ticker  *)
(* that was due when it was stopped may still be handled after Close.        *)

timePasses ==
    /\ option.HasPeriod
    /\ ~delayPassed
    /\ delayPassed' = TRUE
    /\ UNCHANGED <<option, tasks, closed, count, ticks, fire, consumer, accepted, handled, backlog>>

timerEvent ==
    /\ option.HasPeriod
    /\ fire["timer"].pc = "idle"
    /\ fire' = [fire EXCEPT !["timer"] = [pc |-> "count", cc |-> 0]]
    /\ UNCHANGED <<option, tasks, closed, count, ticks, delayPassed, consumer, accepted, handled, backlog>>

timerCheckCount ==
    /\ fire["timer"].pc = "count"
    /\ fire' = [fire EXCEPT !["timer"] =
                  IF option.MinCount > 0 /\ count < option.MinCount THEN Idle
                  ELSE [pc |-> "delay", cc |-> 0]]
    /\ UNCHANGED <<option, tasks, closed, count, ticks, delayPassed, consumer, accepted, handled, backlog>>

timerCheckDelay ==
    /\ fire["timer"].pc = "delay"
    /\ fire' = [fire EXCEPT !["timer"] =
                  IF delayPassed THEN [pc |-> "read", cc |-> 0] ELSE Idle]
    /\ UNCHANGED <<option, tasks, closed, count, ticks, delayPassed, consumer, accepted, handled, backlog>>

-----------------------------------------------------------------------------
(* fireTick *)

\* isClosed is tested and the count read.
fireRead(p) ==
    /\ fire[p].pc = "read"
    /\ fire' = [fire EXCEPT ![p] = IF closed THEN Idle ELSE [pc |-> "send", cc |-> count]]
    /\ UNCHANGED <<option, tasks, closed, count, ticks, delayPassed, consumer, accepted, handled, backlog>>

\* The send that does not block.  A send on the closed channel panics and
\* util.Recover ends the call; a full channel takes the default case.
fireSend(p) ==
    /\ fire[p].pc = "send"
    /\ \/ /\ closed \/ ticks = 1
          /\ fire' = [fire EXCEPT ![p] = Idle]
          /\ UNCHANGED ticks
       \/ /\ ~closed /\ ticks = 0
          /\ fire' = [fire EXCEPT ![p].pc = "settle"]
          /\ ticks' = ticks + 1
    /\ UNCHANGED <<option, tasks, closed, count, delayPassed, consumer, accepted, handled, backlog>>

\* What was read is taken off the count, lastTickTime is stored.
fireSettle(p) ==
    /\ fire[p].pc = "settle"
    /\ count' = count - fire[p].cc
    /\ delayPassed' = FALSE
    /\ fire' = [fire EXCEPT ![p] = Idle]
    /\ UNCHANGED <<option, tasks, closed, ticks, consumer, accepted, handled, backlog>>

-----------------------------------------------------------------------------
Init ==
    /\ option \in Options
    /\ tasks = <<>>
    /\ closed = FALSE
    /\ count = 0
    /\ ticks = 0
    /\ delayPassed = FALSE
    /\ fire = [p \in Callers |-> Idle]
    /\ consumer = "range"
    /\ accepted = 0
    /\ handled = <<>>
    /\ backlog = 0

timerStep == timerEvent \/ timerCheckCount \/ timerCheckDelay
fireStep(p) == fireRead(p) \/ fireSend(p) \/ fireSettle(p)
consumerStep == consumerReceive \/ consumerInvoke \/ consumerExit

Next ==
    \/ \E n \in Counts, m \in Sizes : Add(n, m)
    \/ InvokeNow
    \/ Close
    \/ consumerStep
    \/ timePasses
    \/ timerStep
    \/ \E p \in Callers : fireStep(p)

Spec == Init /\ [][Next]_vars

\* The goroutines run on, the ticker ticks and time passes; nobody is obliged to
\* call Add, InvokeNow or Close.
Fairness ==
    /\ WF_vars(consumerReceive) /\ WF_vars(consumerInvoke) /\ WF_vars(consumerExit)
    /\ WF_vars(timePasses) /\ WF_vars(timerStep)
    /\ \A p \in Callers : WF_vars(fireStep(p))

FairSpec == Spec /\ Fairness

-----------------------------------------------------------------------------
(* Properties *)

\* Whatever the goroutines do, the handler gets every accepted task once and in
\* the order of acceptance: handled and waiting tasks are 1, 2, ..., accepted.
HandledInOrder == handled \o tasks = Numbered(1, accepted)

\* Close leaves no task behind and none is accepted later.
ClosedIsFlushed == closed => tasks = <<>>

\* A tick is on its way to the consumer, or fireTick is running.
TickUnderWay == ticks > 0 \/ consumer = "invoke" \/ ~LockFree \/ fire["timer"].pc # "idle"

\* "CurrentCount >= MaxCount fires a tick at once" (TickerOption.MaxCount): as soon
\* as what was counted since the last batch reaches MaxCount, a tick is under way.
FullBatchTicks ==
    (option.MaxCount > 0 /\ backlog >= option.MaxCount /\ ~closed) => TickUnderWay

\* It does where only IncrCount, under the executor's lock, calls fireTick.
CountedBatchTicks == ~option.HasPeriod => FullBatchTicks

\* Without a time ticker the count is what was counted since the last batch, or less
\* once a tick for it is under way; it is never negative.
CountIsBacklog ==
    ~option.HasPeriod =>
        /\ 0 <= count /\ (~closed => count <= backlog)
        /\ ~TickUnderWay /\ ~closed => count = backlog

\* Between the two sources of ticks, the consumer and Close, batches are neither lost nor
\* repeated nor reordered, and without a period a full batch always ticks.
BatchesKept == TypeOK /\ HandledInOrder /\ ClosedIsFlushed /\ CountedBatchTicks /\ CountIsBacklog

\* With a period and no minimum, every accepted task is eventually handled.
EventuallyHandled ==
    (option.HasPeriod /\ option.MinCount = 0 /\ tasks # <<>>) ~> tasks = <<>>

\* The consumer goroutine ends once the executor is closed.
ConsumerEnds == closed ~> consumer = "exited"
=============================================================================
