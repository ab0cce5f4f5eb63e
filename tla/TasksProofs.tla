------------------------------ MODULE TasksProofs ------------------------------
(***************************************************************************)
(* The parts of package async that run tasks, for any number of tasks,     *)
(* goroutines and calls: a TickerExecutor keeps its batches, a run loop    *)
(* calls its task as often as it was asked to and is a BgTask, a Promise   *)
(* tells the truth, a group's Wait covers its tasks, and a TaskRunner has  *)
(* one run at a time.                                                      *)
(***************************************************************************)
EXTENDS TickerExecutor, TaskRunner, RunLoop, Promise, Groups,
        FiniteSetTheorems, SequenceTheorems, TLAPS

-----------------------------------------------------------------------------
(* TickerExecutor: without a time ticker nothing changes the count while Add *)
(* is in fireTick, and the consumer has to wait for it.                      *)

FiringInv ==
    /\ fire["timer"].pc = "idle"
    /\ fire["add"].pc \in {"send", "settle"} => fire["add"].cc = count
    /\ fire["add"].pc = "settle" => ticks > 0 \/ consumer = "invoke"

\* What was counted is the backlog until a tick is under way, which it is when the
\* count reaches MaxCount.
BacklogInv ==
    /\ 0 <= count
    /\ ~closed => count <= backlog
    /\ ~closed /\ tasks = <<>> => backlog = 0
    /\ ~closed /\ ~TickUnderWay => count = backlog /\ count < option.MaxCount

TickerInv ==
    /\ TypeOK /\ HandledInOrder /\ ClosedIsFlushed
    /\ closed => LockFree
    /\ ~option.HasPeriod => FiringInv /\ BacklogInv

\* Concatenation of sequences of tasks is associative.
LEMMA BatchAssociative ==
    ASSUME NEW r \in Seq(Nat), NEW t \in Seq(Nat), NEW u \in Seq(Nat)
    PROVE  r \o (t \o u) = (r \o t) \o u
<1>1. r \o t \in Seq(Nat) /\ t \o u \in Seq(Nat)
  BY ConcatProperties
<1>2. r \o (t \o u) \in Seq(Nat) /\ (r \o t) \o u \in Seq(Nat)
  BY <1>1, ConcatProperties
<1>3. /\ Len(r \o (t \o u)) = Len(r) + Len(t) + Len(u) /\ Len((r \o t) \o u) = Len(r) + Len(t) + Len(u)
      /\ Len(r) \in Nat /\ Len(t) \in Nat /\ Len(u) \in Nat
  BY <1>1, ConcatProperties, LenProperties
<1>4. \A i \in 1 .. Len(r) + Len(t) + Len(u) : (r \o (t \o u))[i] = ((r \o t) \o u)[i]
  BY <1>1, <1>2, <1>3
<1> QED BY <1>2, <1>3, <1>4, SeqEqual

\* The numbers of the tasks an Add accepts.
LEMMA NumberedSeq ==
    ASSUME NEW a \in Nat, NEW m \in Nat
    PROVE  /\ Numbered(a + 1, a + m) \in Seq(Nat) /\ Len(Numbered(a + 1, a + m)) = m
           /\ \A i \in 1 .. m : Numbered(a + 1, a + m)[i] = a + i
<1> DEFINE s == Numbered(a + 1, a + m)
<1>1. s = [i \in 1 .. m |-> a + i]
  BY DEF Numbered
<1>2. DOMAIN s = 1 .. m /\ \A i \in 1 .. m : s[i] = a + i /\ s[i] \in Nat
  BY <1>1
<1>3. s \in [1 .. m -> Nat]
  BY <1>1, <1>2
<1>4. s \in Seq(Nat)
  BY <1>3
<1> HIDE DEF s
<1>5. Len(s) = m
  BY <1>2, <1>4, LenProperties
<1> QED BY <1>2, <1>4, <1>5 DEF s

\* They go on where the numbers before them end.
LEMMA NumberedConcat ==
    ASSUME NEW a \in Nat, NEW m \in Nat
    PROVE  Numbered(1, a) \o Numbered(a + 1, a + m) = Numbered(1, a + m)
<1> DEFINE s == Numbered(1, a)
           t == Numbered(a + 1, a + m)
           u == Numbered(1, a + m)
<1>1. s \in Seq(Nat) /\ Len(s) = a /\ \A i \in 1 .. a : s[i] = i
  <2>1. s = Numbered(0 + 1, 0 + a) /\ \A i \in 1 .. a : 0 + i = i
    OBVIOUS
  <2>2. /\ Numbered(0 + 1, 0 + a) \in Seq(Nat) /\ Len(Numbered(0 + 1, 0 + a)) = a
        /\ \A i \in 1 .. a : Numbered(0 + 1, 0 + a)[i] = 0 + i
    BY NumberedSeq
  <2> QED BY <2>1, <2>2
<1>2. t \in Seq(Nat) /\ Len(t) = m /\ \A i \in 1 .. m : t[i] = a + i
  BY NumberedSeq
<1>3. u \in Seq(Nat) /\ Len(u) = a + m /\ \A i \in 1 .. a + m : u[i] = i
  <2>1. u = Numbered(0 + 1, 0 + (a + m)) /\ a + m \in Nat
    OBVIOUS
  <2> QED BY <2>1, NumberedSeq
<1> HIDE DEF s, t, u
<1>4. /\ s \o t \in Seq(Nat) /\ Len(s \o t) = a + m
      /\ \A i \in 1 .. a + m : (s \o t)[i] = IF i <= a THEN s[i] ELSE t[i - a]
  BY <1>1, <1>2, ConcatProperties
<1>5. \A i \in 1 .. a + m : (s \o t)[i] = u[i]
  BY <1>1, <1>2, <1>3, <1>4
<1>6. s \o t = u
  BY <1>3, <1>4, <1>5, SeqEqual
<1> QED BY <1>6 DEF s, t, u


LEMMA OptionType ==
    ASSUME TypeOK
    PROVE  /\ option.MaxCount \in Nat /\ option.MinCount \in Nat
           /\ ~option.HasPeriod => option.MaxCount > 0
  BY OptionAssumption DEF TypeOK, TickerOption, MustNormalize

\* Tasks are accepted.
LEMMA AddKeeps ==
    ASSUME TickerInv, NEW n \in Counts, NEW m \in Sizes, Add(n, m)
    PROVE  TickerInv'
<1> USE OptionType DEF TickerInv
<1>1. /\ fire["add"].pc = "idle" /\ ~closed
      /\ tasks' = tasks \o Numbered(accepted + 1, accepted + m)
      /\ accepted' = accepted + m /\ backlog' = backlog + n
      /\ ~(n > 0 /\ option.MaxCount > 0) => count' = count /\ fire' = fire
      /\ n > 0 /\ option.MaxCount > 0 =>
            /\ count' = count + n
            /\ fire' = IF count + n >= option.MaxCount
                       THEN [fire EXCEPT !["add"] = [pc |-> "read", cc |-> 0]] ELSE fire
      /\ UNCHANGED <<option, closed, ticks, delayPassed, consumer, handled>>
  BY DEF Add, LockFree, Reaches
<1>2. n \in Nat /\ m \in Nat /\ m > 0
  BY OptionAssumption
<1>3. /\ Numbered(accepted + 1, accepted + m) \in Seq(Nat)
      /\ Len(Numbered(accepted + 1, accepted + m)) = m
      /\ Numbered(1, accepted) \o Numbered(accepted + 1, accepted + m) = Numbered(1, accepted + m)
  BY <1>2, NumberedSeq, NumberedConcat DEF TypeOK
<1>4. tasks' \in Seq(Nat) /\ tasks' # <<>>
  <2> DEFINE added == Numbered(accepted + 1, accepted + m)
  <2>1. tasks \in Seq(Nat) /\ added # <<>>
    BY <1>2, <1>3, EmptySeq DEF TypeOK
  <2> HIDE DEF added
  <2>2. added \in Seq(Nat)
    BY <1>3 DEF added
  <2> QED BY <1>1, <2>1, <2>2, ConcatProperties, ConcatEqualIffEmpty DEF added
<1>5. HandledInOrder'
  <2> DEFINE added == Numbered(accepted + 1, accepted + m)
  <2>0. added \in Seq(Nat) /\ handled \in Seq(Nat) /\ tasks \in Seq(Nat)
    BY <1>3 DEF TypeOK
  <2> HIDE DEF added
  <2>1. handled \o (tasks \o added) = (handled \o tasks) \o added
    BY <2>0, BatchAssociative, Zenon
  <2> QED BY <1>1, <1>3, <2>1 DEF HandledInOrder, added
<1>6. TypeOK'
  <2>1. fire' \in [Callers -> FireState]
    BY <1>1 DEF TypeOK, Callers, FireState
  <2>2. accepted' \in Nat /\ backlog' \in Nat /\ count' \in Int
    BY <1>1, <1>2 DEF TypeOK
  <2> QED BY <1>1, <1>4, <2>1, <2>2 DEF TypeOK
<1>7. ClosedIsFlushed' /\ (closed => LockFree)'
  BY <1>1 DEF ClosedIsFlushed
<1>8. ASSUME ~option.HasPeriod PROVE FiringInv' /\ BacklogInv'
  <2>1. option.MaxCount > 0
    BY <1>8
  <2>2. count' = count + n
    <3>1. CASE n = 0
      BY <1>1, <3>1 DEF TypeOK
    <3>2. CASE n > 0
      BY <1>1, <2>1, <3>2
    <3> QED BY <1>2, <3>1, <3>2
  <2>3. /\ fire'["timer"] = fire["timer"]
        /\ fire'["add"].pc = "read" \/ (fire'["add"] = fire["add"] /\ (n > 0 => count' < option.MaxCount))
    BY <1>1, <1>2, <2>1, <2>2 DEF TypeOK, Callers, FireState
  <2>4. FiringInv'
    BY <1>1, <1>8, <2>3 DEF FiringInv
  <2>5. BacklogInv'
    BY <1>1, <1>2, <1>4, <1>8, <2>2, <2>3 DEF FiringInv, BacklogInv, TickUnderWay, LockFree, TypeOK
  <2> QED BY <2>4, <2>5
<1> QED BY <1>1, <1>5, <1>6, <1>7, <1>8

\* A batch is handed to the handler, by the consumer, InvokeNow or Close.
LEMMA InvokeKeeps ==
    ASSUME TickerInv, InvokeNow \/ Close \/ consumerInvoke
    PROVE  TickerInv'
<1> USE OptionType DEF TickerInv
<1>1. /\ LockFree /\ handled' = handled \o tasks /\ tasks' = <<>>
      /\ count' = IF tasks # <<>> /\ ~closed' THEN 0 ELSE count
      /\ backlog' = 0 /\ accepted' = accepted
      /\ consumer' = consumer \/ (consumer = "invoke" /\ consumer' = "range")
      /\ UNCHANGED <<option, ticks, delayPassed, fire>>
  BY DEF InvokeNow, Close, consumerInvoke, invoke
<1>2. closed' = closed \/ closed' = TRUE
  BY Zenon DEF InvokeNow, Close, consumerInvoke
<1>3. closed' \in BOOLEAN
  BY <1>2, Zenon DEF TypeOK
<1>4. handled' \in Seq(Nat) /\ tasks' \in Seq(Nat) /\ handled' \o tasks' = handled \o tasks
  BY <1>1, ConcatProperties, ConcatEmptySeq, EmptySeq DEF TypeOK
<1>5. count' \in Int
  BY <1>1 DEF TypeOK
<1>6. TypeOK'
  BY <1>1, <1>3, <1>4, <1>5 DEF TypeOK
<1>7. HandledInOrder' /\ ClosedIsFlushed' /\ (closed => LockFree)'
  BY <1>1, <1>4 DEF HandledInOrder, ClosedIsFlushed, LockFree
<1>8. ASSUME ~option.HasPeriod PROVE FiringInv' /\ BacklogInv'
  <2>1. FiringInv'
    BY <1>1, <1>8 DEF FiringInv, LockFree
  <2>2. ~closed' => ~closed
    BY <1>2
  <2>3. ~closed' => count' = 0
    BY <1>1, <1>8, <2>2 DEF BacklogInv, TypeOK
  <2>4. 0 <= count'
    BY <1>1, <1>8 DEF BacklogInv
  <2> QED BY <1>1, <1>8, <2>1, <2>3, <2>4 DEF BacklogInv
<1> QED BY <1>1, <1>6, <1>7, <1>8

\* The steps that touch neither tasks nor counts nor fireTick.
LEMMA QuietTickerKeeps ==
    ASSUME TickerInv, consumerReceive \/ consumerExit \/ timePasses
    PROVE  TickerInv'
<1> USE OptionType DEF TickerInv
<1>1. /\ UNCHANGED <<option, tasks, closed, count, fire, accepted, handled, backlog>>
      /\ delayPassed' = delayPassed \/ delayPassed' = TRUE
      /\ \/ ticks' = ticks /\ consumer' = consumer
         \/ ticks > 0 /\ ticks' = ticks - 1 /\ consumer' = "invoke"
         \/ ticks' = ticks /\ consumer = "range" /\ closed /\ consumer' = "exited"
  BY DEF consumerReceive, consumerExit, timePasses
<1>2. delayPassed' \in BOOLEAN
  BY <1>1, Zenon DEF TypeOK
<1>3. TypeOK'
  <2>1. ticks' \in 0 .. 1 /\ consumer' \in {"range", "invoke", "exited"}
    BY <1>1 DEF TypeOK
  <2> QED BY <1>1, <1>2, <2>1 DEF TypeOK
<1>4. HandledInOrder' /\ ClosedIsFlushed' /\ (closed => LockFree)'
  BY <1>1 DEF HandledInOrder, ClosedIsFlushed, LockFree
<1>5. ASSUME ~option.HasPeriod PROVE FiringInv' /\ BacklogInv'
  <2>1. FiringInv'
    BY <1>1, <1>5 DEF FiringInv, LockFree
  <2>2. BacklogInv'
    BY <1>1, <1>5 DEF BacklogInv, TickUnderWay, LockFree, TypeOK
  <2> QED BY <2>1, <2>2
<1> QED BY <1>1, <1>3, <1>4, <1>5

\* A step of fireTick, or of the time ticker before it.
LEMMA FiringKeeps ==
    ASSUME TickerInv, NEW p \in Callers, timerStep \/ fireStep(p)
    PROVE  TickerInv'
<1> USE OptionType DEF TickerInv
<1>0. p \in {"add", "timer"}
  BY DEF Callers
<1>1. /\ UNCHANGED <<option, tasks, closed, consumer, accepted, handled, backlog>>
      /\ delayPassed' = delayPassed \/ delayPassed' = FALSE
  BY DEF timerStep, timerEvent, timerCheckCount, timerCheckDelay, fireStep, fireRead, fireSend, fireSettle
<1>2. delayPassed' \in BOOLEAN
  BY <1>1, Zenon DEF TypeOK
<1>3. HandledInOrder' /\ ClosedIsFlushed'
  BY <1>1 DEF HandledInOrder, ClosedIsFlushed
<1>4. CASE timerStep
  <2>1. /\ option.HasPeriod \/ fire["timer"].pc # "idle"
        /\ count' = count /\ ticks' = ticks /\ fire'["add"] = fire["add"]
    BY <1>4 DEF timerStep, timerEvent, timerCheckCount, timerCheckDelay, TypeOK, Callers
  <2>2. fire' \in [Callers -> FireState]
    BY <1>4 DEF timerStep, timerEvent, timerCheckCount, timerCheckDelay, TypeOK, Callers, FireState, Idle
  <2>3. TypeOK'
    BY <1>1, <1>2, <2>1, <2>2 DEF TypeOK
  <2>4. (closed => LockFree)' /\ option.HasPeriod
    BY <1>1, <2>1 DEF LockFree, FiringInv
  <2> QED BY <1>1, <1>3, <2>3, <2>4
<1>5. CASE fireRead(p)
  <2>1. /\ fire[p].pc = "read" /\ count' = count /\ ticks' = ticks
        /\ fire' = [fire EXCEPT ![p] = IF closed THEN Idle ELSE [pc |-> "send", cc |-> count]]
    BY <1>5 DEF fireRead
  <2>2. fire' \in [Callers -> FireState]
    BY <2>1 DEF TypeOK, FireState, Idle
  <2>3. TypeOK'
    BY <1>1, <1>2, <2>1, <2>2 DEF TypeOK
  <2>4. (closed => LockFree)'
    BY <1>0, <1>1, <2>1 DEF LockFree, TypeOK, Callers, Idle
  <2>5. ASSUME ~option.HasPeriod PROVE FiringInv' /\ BacklogInv'
    <3>1. p = "add" /\ ~closed
      BY <1>0, <2>1, <2>5 DEF FiringInv, LockFree
    <3>2. fire'["add"] = [pc |-> "send", cc |-> count] /\ fire'["timer"] = fire["timer"]
      BY <2>1, <3>1 DEF TypeOK, Callers
    <3> QED BY <1>1, <2>1, <2>5, <3>1, <3>2 DEF FiringInv, BacklogInv, TickUnderWay, LockFree
  <2> QED BY <1>1, <1>3, <2>3, <2>4, <2>5
<1>6. CASE fireSend(p)
  <2>1. /\ fire[p].pc = "send" /\ count' = count
        /\ \/ /\ closed \/ ticks = 1
              /\ fire' = [fire EXCEPT ![p] = Idle] /\ ticks' = ticks
           \/ /\ ~closed /\ ticks = 0
              /\ fire' = [fire EXCEPT ![p].pc = "settle"] /\ ticks' = 1
    BY <1>6 DEF fireSend
  <2>2. fire' \in [Callers -> FireState]
    <3>1. Idle \in FireState /\ [fire[p] EXCEPT !.pc = "settle"] \in FireState
      BY DEF TypeOK, FireState, Idle
    <3>2. \/ fire' = [fire EXCEPT ![p] = Idle]
          \/ fire' = [fire EXCEPT ![p] = [fire[p] EXCEPT !.pc = "settle"]]
      BY <2>1
    <3> QED BY <3>1, <3>2 DEF TypeOK
  <2>3. TypeOK'
    BY <1>1, <1>2, <2>1, <2>2 DEF TypeOK
  <2>4. (closed => LockFree)'
    BY <1>0, <1>1, <2>1 DEF LockFree, TypeOK, Callers, Idle
  <2>5. ASSUME ~option.HasPeriod PROVE FiringInv' /\ BacklogInv'
    <3>1. p = "add" /\ ~closed
      BY <1>0, <2>1, <2>5 DEF FiringInv, LockFree
    <3>2. /\ fire'["timer"] = fire["timer"] /\ ticks' = 1
          /\ fire'["add"] = Idle \/ (fire'["add"].pc = "settle" /\ fire'["add"].cc = fire["add"].cc)
      BY <2>1, <3>1 DEF TypeOK, Callers, FireState
    <3> QED BY <1>1, <2>1, <2>5, <3>1, <3>2 DEF FiringInv, BacklogInv, TickUnderWay, LockFree, Idle
  <2> QED BY <1>1, <1>3, <2>3, <2>4, <2>5
<1>7. CASE fireSettle(p)
  <2>1. /\ fire[p].pc = "settle" /\ ticks' = ticks /\ count' = count - fire[p].cc
        /\ fire' = [fire EXCEPT ![p] = Idle]
    BY <1>7 DEF fireSettle
  <2>2. fire' \in [Callers -> FireState] /\ count' \in Int
    BY <2>1 DEF TypeOK, FireState, Idle
  <2>3. TypeOK'
    BY <1>1, <1>2, <2>1, <2>2 DEF TypeOK
  <2>4. (closed => LockFree)'
    BY <1>0, <1>1, <2>1 DEF LockFree, TypeOK, Callers, Idle
  <2>5. ASSUME ~option.HasPeriod PROVE FiringInv' /\ BacklogInv'
    <3>1. p = "add" /\ ~closed
      BY <1>0, <2>1, <2>5 DEF FiringInv, LockFree
    <3>2. /\ fire'["timer"] = fire["timer"] /\ fire'["add"] = Idle /\ count' = 0
          /\ ticks > 0 \/ consumer = "invoke"
      BY <2>1, <2>5, <3>1 DEF FiringInv, TypeOK, Callers, FireState
    <3> QED BY <1>1, <2>1, <2>5, <3>1, <3>2 DEF FiringInv, BacklogInv, TickUnderWay, LockFree, Idle, TypeOK
  <2> QED BY <1>1, <1>3, <2>3, <2>4, <2>5
<1> QED BY <1>4, <1>5, <1>6, <1>7 DEF fireStep

\* The two sources of ticks, the consumer and Close keep the invariant above (ticker.go).
THEOREM TickerInvariant == Spec => []TickerInv
<1>1. Init => TickerInv
  <2> SUFFICES ASSUME Init PROVE TickerInv
    OBVIOUS
  <2> USE DEF Init
  <2>1. closed \in BOOLEAN /\ delayPassed \in BOOLEAN
    BY Zenon
  <2>2. <<>> \in Seq(Nat) /\ Len(<<>>) = 0 /\ <<>> \o <<>> = <<>>
    BY EmptySeq, ConcatEmptySeq
  <2>3. TypeOK
    BY <2>1, <2>2 DEF TypeOK, Callers, FireState, Idle
  <2>4. HandledInOrder
    <3>1. /\ Numbered(0 + 1, 0 + 0) \in Seq(Nat) /\ Len(Numbered(0 + 1, 0 + 0)) = 0
      BY NumberedSeq
    <3>2. Numbered(1, 0) = <<>>
      BY <3>1, EmptySeq
    <3> QED BY <2>2, <3>2 DEF HandledInOrder
  <2>5. ClosedIsFlushed /\ LockFree /\ FiringInv
    BY DEF ClosedIsFlushed, LockFree, FiringInv, Callers, Idle
  <2>6. ~option.HasPeriod => BacklogInv
    BY <2>3, OptionType DEF BacklogInv
  <2> QED BY <2>3, <2>4, <2>5, <2>6 DEF TickerInv
<1>2. TickerInv /\ [Next]_vars => TickerInv'
  <2>1. ASSUME TickerInv, UNCHANGED vars PROVE TickerInv'
    <3> USE <2>1 DEF TickerInv, vars
    <3>1. TypeOK' /\ HandledInOrder' /\ ClosedIsFlushed' /\ (closed => LockFree)'
      BY DEF TypeOK, HandledInOrder, ClosedIsFlushed, LockFree
    <3>2. (~option.HasPeriod => FiringInv /\ BacklogInv)'
      BY DEF FiringInv, BacklogInv, TickUnderWay, LockFree
    <3> QED BY <3>1, <3>2
  <2>2. ASSUME TickerInv, Next PROVE TickerInv'
    <3>1. "add" \in Callers
      BY DEF Callers
    <3> QED BY <2>2, <3>1, AddKeeps, InvokeKeeps, QuietTickerKeeps, FiringKeeps DEF Next, consumerStep
  <2> QED BY <2>1, <2>2
<1> QED BY <1>1, <1>2, PTL DEF Spec

\* No batch is lost, repeated or reordered, Close leaves nothing behind, and without a
\* period a full batch always ticks: for every option, count and size (ticker.go).
THEOREM TickerKeepsBatches == Spec => []BatchesKept
<1>1. TickerInv => BatchesKept
  <2> SUFFICES ASSUME TickerInv PROVE BatchesKept
    OBVIOUS
  <2> USE OptionType DEF TickerInv
  <2>1. CountedBatchTicks
    BY DEF CountedBatchTicks, FullBatchTicks, BacklogInv, TypeOK
  <2>2. CountIsBacklog
    BY DEF CountIsBacklog, BacklogInv
  <2> QED BY <2>1, <2>2 DEF BatchesKept
<1> QED BY <1>1, TickerInvariant, PTL

-----------------------------------------------------------------------------
(* RunLoop: only the last call is given a context that can be found done, and *)
(* retry is what is left of the calls that were asked for.                    *)

Seen == [calls : 0 .. MaxCalls + 1, initial : 0 .. 1, done : 0 .. 1]

\* A round is counted when it begins, its call when the select is over.
RoundsInv ==
    /\ lpc \in {"new", "select", "task"} => seen.calls <= MaxCalls
    /\ lpc = "new" => seen.calls = 0 /\ seen.initial = 0
    /\ ctxCount = seen.calls + (IF lpc = "select" THEN 1 ELSE 0)
    /\ ticker = "init" /\ lpc = "select" => seen.initial = 0

\* The loop goes on until a call aborts or finds its context done, which only the
\* last one can.
LastInv ==
    /\ lpc # "ended" => ~abort /\ seen.done = 0
    /\ lpc = "task" => frozen
    /\ lpc = "last" => ~frozen /\ CtxDone

RetryInv ==
    kind.fn = "helper" /\ kind.maxRetry >= 0 =>
        /\ lpc = "select" => retry >= 0 /\ seen.calls + retry = kind.maxRetry
        /\ lpc \in {"task", "last"} => retry >= 0 /\ seen.calls + retry = kind.maxRetry + 1
        /\ lpc = "ended" => seen.calls <= kind.maxRetry + 1

LoopInv == LoopTypeOK /\ seen \in Seen /\ RoundsInv /\ LastInv /\ RetryInv /\ DeadlineReleased

LEMMA KindType ==
    ASSUME LoopTypeOK
    PROVE  /\ kind.fn \in {"interval", "limit", "helper", "until"}
           /\ kind.maxRetry \in Int /\ kind.maxRetry >= -1
           /\ MaxCalls \in Nat
  BY LoopAssumption DEF LoopTypeOK, LoopKind

\* The steps that call nothing.
LEMMA QuietLoopKeeps ==
    ASSUME LoopInv, LoopStart \/ (\E e \in Errs \ {"nil"} : ContextEnds(e)) \/ TickerTicks
    PROVE  LoopInv'
<1> USE KindType DEF LoopInv
<1>1. CASE LoopStart
  <2>1. /\ lpc = "new" /\ lpc' = "select" /\ ctxCount' = ctxCount + 1 /\ retry' = kind.maxRetry
        /\ ticker' \in {"none", "init", "interval"}
        /\ UNCHANGED <<kind, ctxErr, cancelled, ticked, abort, frozen, seen>>
    BY <1>1 DEF LoopStart, NextRound, FirstTicker
  <2>2. /\ {cancelled, ticked, abort, frozen}' \subseteq BOOLEAN
        /\ LastInv' /\ DeadlineReleased'
    BY <2>1, Zenon DEF LoopTypeOK, LastInv, DeadlineReleased
  <2>3. seen' \in Seen /\ RoundsInv' /\ RetryInv' /\ ctxCount' \in 0 .. MaxCalls + 1
    BY <2>1 DEF Seen, RoundsInv, RetryInv
  <2>4. LoopTypeOK'
    <3>1. {ctxCount} \cup {seen.calls, seen.initial, seen.done} \subseteq 0 .. MaxCalls + 1
      BY DEF LoopTypeOK
    <3>2. {ctxCount'} \cup {seen'.calls, seen'.initial, seen'.done} \subseteq 0 .. MaxCalls + 1
      BY <2>1, <2>3, <3>1
    <3>3. retry' \in -1 .. kind'.maxRetry
      BY <2>1
    <3> QED BY <2>1, <2>2, <3>2, <3>3 DEF LoopTypeOK
  <2> QED BY <2>2, <2>3, <2>4
<1>2. CASE \E e \in Errs \ {"nil"} : ContextEnds(e)
  <2>1. /\ ctxErr' \in Errs /\ ctxErr' # "nil"
        /\ UNCHANGED <<kind, lpc, cancelled, ticker, ticked, abort, ctxCount, retry, frozen, seen>>
    BY <1>2 DEF ContextEnds
  <2>2. LoopTypeOK'
    BY <2>1 DEF LoopTypeOK
  <2>3. RoundsInv' /\ RetryInv' /\ seen' \in Seen
    BY <2>1 DEF RoundsInv, RetryInv, Seen
  <2>4. LastInv' /\ DeadlineReleased'
    BY <2>1 DEF LastInv, DeadlineReleased, CtxDone
  <2> QED BY <2>2, <2>3, <2>4
<1>3. CASE TickerTicks
  <2>1. /\ ticked' = TRUE
        /\ UNCHANGED <<kind, lpc, ctxErr, cancelled, ticker, abort, ctxCount, retry, frozen, seen>>
    BY <1>3 DEF TickerTicks
  <2>2. ticked' \in BOOLEAN
    BY <2>1, Zenon
  <2>3. LoopTypeOK'
    BY <2>1, <2>2 DEF LoopTypeOK
  <2>4. RoundsInv' /\ RetryInv' /\ seen' \in Seen
    BY <2>1 DEF RoundsInv, RetryInv, Seen
  <2>5. LastInv' /\ DeadlineReleased'
    BY <2>1 DEF LastInv, DeadlineReleased, CtxDone
  <2> QED BY <2>3, <2>4, <2>5
<1> QED BY <1>1, <1>2, <1>3

\* The task is called, for the last time or not.
LEMMA CallKeeps ==
    ASSUME LoopInv, SelectDone \/ SelectTick
    PROVE  LoopInv'
<1> USE KindType DEF LoopInv
<1>1. /\ lpc = "select" /\ lpc' \in {"task", "last"}
      /\ seen' = [seen EXCEPT !.calls = @ + 1,
                              !.initial = IF lpc' = "task" /\ ticker = "init" THEN @ + 1 ELSE @]
      /\ lpc' = "task" => seen.calls < MaxCalls
      /\ UNCHANGED <<kind, ctxErr, cancelled, ticker, abort, ctxCount, retry>>
  BY DEF SelectDone, SelectTick, CallTask
<1>2. /\ lpc' = "task" => frozen' = TRUE
      /\ lpc' = "last" => frozen' = FALSE /\ CtxDone
      /\ ticked' = ticked \/ ticked' = FALSE
  BY DEF SelectDone, SelectTick, CallTask
<1>3. {cancelled, ticked, abort, frozen}' \subseteq BOOLEAN
  BY <1>1, <1>2, Zenon DEF LoopTypeOK
<1>4. /\ seen' \in Seen
      /\ seen'.calls = seen.calls + 1 /\ seen'.done = seen.done
      /\ seen.calls \in Nat /\ seen.calls <= MaxCalls
  <2>1. /\ seen.calls \in Nat /\ seen.calls <= MaxCalls /\ seen.initial \in 0 .. 1
        /\ ticker = "init" => seen.initial = 0
    BY <1>1 DEF Seen, RoundsInv
  <2>2. /\ seen'.calls = seen.calls + 1 /\ seen'.done = seen.done
        /\ seen'.initial = IF lpc' = "task" /\ ticker = "init" THEN seen.initial + 1 ELSE seen.initial
    BY <1>1 DEF Seen
  <2>3. seen' = [calls |-> seen'.calls, initial |-> seen'.initial, done |-> seen'.done]
    BY <1>1 DEF Seen
  <2>4. seen.done \in 0 .. 1
    BY DEF Seen
  <2>5. seen'.calls \in 0 .. MaxCalls + 1 /\ seen'.initial \in 0 .. 1 /\ seen'.done \in 0 .. 1
    BY <2>1, <2>2, <2>4
  <2> QED BY <2>1, <2>2, <2>3, <2>5 DEF Seen
<1>5. RoundsInv' /\ RetryInv'
  <2>1. retry \in Int
    BY DEF LoopTypeOK
  <2>2. RoundsInv'
    BY <1>1, <1>4 DEF RoundsInv
  <2>3. RetryInv'
    BY <1>1, <1>4, <2>1 DEF RetryInv
  <2> QED BY <2>2, <2>3
<1>6. LastInv' /\ DeadlineReleased'
  BY <1>1, <1>2, <1>4 DEF LastInv, DeadlineReleased, CtxDone
<1>7. LoopTypeOK'
  <2>1. {ctxCount'} \cup {seen'.calls, seen'.initial, seen'.done} \subseteq 0 .. MaxCalls + 1
    BY <1>1, <1>4 DEF LoopTypeOK, Seen
  <2>2. lpc' \in {"new", "select", "task", "last", "ended"}
    BY <1>1
  <2> QED BY <1>1, <1>3, <2>1, <2>2 DEF LoopTypeOK
<1> QED BY <1>4, <1>5, <1>6, <1>7

\* The task returns.
LEMMA ReturnKeeps ==
    ASSUME LoopInv, NEW aborts \in BOOLEAN, TaskReturns(aborts)
    PROVE  LoopInv'
<1> USE KindType DEF LoopInv
<1> DEFINE d == Done(frozen, abort \/ aborts)
           ends == abort \/ aborts \/ helperAborts(d)
<1>1. /\ lpc \in {"task", "last"}
      /\ abort' = ends
      /\ retry' = IF helperRetry(d) THEN retry - 1 ELSE retry
      /\ lpc = "last" \/ ends =>
            lpc' = "ended" /\ ticker' = "none" /\ ticked' = FALSE /\ ctxCount' = ctxCount
      /\ ~(lpc = "last" \/ ends) =>
            /\ lpc' = "select" /\ ctxCount' = ctxCount + 1 /\ ticker' = NextTicker
            /\ ticked' = (ticked /\ ticker = NextTicker)
      /\ cancelled' = (cancelled \/ releases(d \/ ends)
                                 \/ (kind.fn = "until" /\ kind.timeout /\ lpc' = "ended"))
      /\ seen' = [seen EXCEPT !.done = IF Done(frozen, abort) THEN @ + 1 ELSE @]
      /\ UNCHANGED <<kind, ctxErr, frozen>>
  BY DEF TaskReturns, NextRound
<1>2. /\ abort = FALSE /\ seen.done = 0
      /\ lpc = "task" => frozen /\ d = aborts /\ ~Done(frozen, abort)
      /\ lpc = "last" => ~frozen /\ CtxDone /\ d
  BY <1>1, Zenon DEF LastInv, LoopTypeOK, Done, BaseCtxDone, FreezeCtxDone
<1> HIDE DEF d
<1>3. {cancelled, ticked, abort, frozen}' \subseteq BOOLEAN
  <2>1. cancelled' \in BOOLEAN /\ abort' \in BOOLEAN /\ frozen' \in BOOLEAN
    BY <1>1, Zenon DEF LoopTypeOK
  <2>2. ticked' \in BOOLEAN
    BY <1>1, Zenon
  <2> QED BY <2>1, <2>2
<1>4. /\ seen' \in Seen /\ seen'.calls = seen.calls /\ seen'.initial = seen.initial
      /\ lpc = "task" => seen'.done = 0
      /\ seen.calls \in Nat
  BY <1>1, <1>2 DEF Seen
<1>5. RoundsInv'
  <2>1. NextTicker # "init"
    BY DEF NextTicker
  <2> QED BY <1>1, <1>4, <2>1 DEF RoundsInv
<1>6. LastInv'
  <2>1. lpc' # "ended" => ~ends /\ lpc = "task" /\ lpc' = "select"
    BY <1>1
  <2> QED BY <1>1, <1>4, <2>1 DEF LastInv
<1>7. RetryInv'
  <2>1. CASE kind.fn = "helper" /\ kind.maxRetry >= 0
    <3>1. retry \in Nat /\ seen.calls + retry = kind.maxRetry + 1
      BY <1>1, <2>1 DEF RetryInv, LoopTypeOK
    <3>2. lpc' = "ended" \/ (lpc' = "select" /\ ~ends /\ lpc = "task")
      BY <1>1
    <3>3. CASE lpc' = "ended"
      BY <1>1, <1>4, <2>1, <3>1, <3>3 DEF RetryInv
    <3>4. CASE lpc' = "select" /\ ~ends /\ lpc = "task"
      <4>1. ~d /\ ~helperAborts(d)
        BY <1>2, <3>4
      <4>2. retry > 0 /\ retry' = retry - 1
        BY <1>1, <2>1, <3>1, <4>1 DEF helperAborts, helperRetry
      <4> QED BY <1>1, <1>4, <2>1, <3>1, <3>4, <4>2 DEF RetryInv
    <3> QED BY <3>2, <3>3, <3>4
  <2> QED BY <1>1, <2>1 DEF RetryInv
<1>8. DeadlineReleased'
  <2>1. lpc' = "ended" => d \/ ends
    BY <1>1, <1>2
  <2> QED BY <1>1, <2>1 DEF DeadlineReleased, releases
<1>9. LoopTypeOK'
  <2>1. retry' \in -1 .. kind'.maxRetry
    BY <1>1 DEF LoopTypeOK, helperRetry
  <2>2. ctxCount' \in 0 .. MaxCalls + 1
    BY <1>1, <1>4 DEF RoundsInv, LoopTypeOK
  <2>3. {ctxCount'} \cup {seen'.calls, seen'.initial, seen'.done} \subseteq 0 .. MaxCalls + 1
    BY <1>4, <2>2 DEF Seen
  <2>4. ticker' \in {"init", "interval", "none"} /\ lpc' \in {"new", "select", "task", "last", "ended"}
    BY <1>1 DEF NextTicker, LoopTypeOK
  <2> QED BY <1>1, <1>3, <2>1, <2>3, <2>4 DEF LoopTypeOK
<1> QED BY <1>4, <1>5, <1>6, <1>7, <1>8, <1>9

\* Every kind of loop keeps the invariant above (run.go, do.go, run_interval_helper.go).
THEOREM LoopInvariant == LoopSpec => []LoopInv
<1>1. LoopInit => LoopInv
  <2> SUFFICES ASSUME LoopInit PROVE LoopInv
    OBVIOUS
  <2> USE LoopAssumption DEF LoopInit
  <2>1. {cancelled, ticked, abort, frozen} \subseteq BOOLEAN
    BY Zenon
  <2>2. seen \in Seen /\ seen.calls = 0 /\ seen.initial = 0 /\ seen.done = 0
    BY DEF Seen
  <2>3. kind \in LoopKind /\ kind.maxRetry >= -1
    OBVIOUS
  <2>4. LoopTypeOK
    BY <2>1, <2>2, <2>3 DEF LoopTypeOK, Errs, LoopKind
  <2> QED BY <2>2, <2>4 DEF LoopInv, RoundsInv, LastInv, RetryInv, DeadlineReleased
<1>2. LoopInv /\ [LoopNext]_loopVars => LoopInv'
  <2>1. ASSUME LoopInv, UNCHANGED loopVars PROVE LoopInv'
    BY <2>1 DEF LoopInv, loopVars, LoopTypeOK, RoundsInv, LastInv, RetryInv, DeadlineReleased, CtxDone
  <2> QED BY <2>1, QuietLoopKeeps, CallKeeps, ReturnKeeps DEF LoopNext
<1> QED BY <1>1, <1>2, PTL DEF LoopSpec

\* A loop calls its task as often as was asked for: one call finds the context done,
\* maxRetryCount bounds the calls, the initial delay calls once, the deadline's context is
\* released (run.go, ctx.go).
THEOREM LoopCallsAsAsked == LoopSpec => []CallsAsAsked
<1>1. LoopInv => CallsAsAsked
  <2> SUFFICES ASSUME LoopInv PROVE CallsAsAsked
    OBVIOUS
  <2>1. seen.done <= 1 /\ seen.initial <= 1
    BY DEF LoopInv, Seen
  <2>2. AtMostRetries
    <3>1. ASSUME kind.fn = "helper", kind.maxRetry >= 0 PROVE seen.calls <= kind.maxRetry + 1
      <4>1. /\ lpc \in {"new", "select", "task", "last", "ended"} /\ seen.calls \in Nat
            /\ kind.maxRetry \in Int /\ retry \in Int
        BY KindType DEF LoopInv, LoopTypeOK, Seen
      <4> QED BY <3>1, <4>1 DEF LoopInv, RetryInv, RoundsInv
    <3> QED BY <3>1 DEF AtMostRetries
  <2> QED BY <2>1, <2>2 DEF LoopInv, CallsAsAsked, DoneSeenOnce, OneInitialRun
<1> QED BY <1>1, LoopInvariant, PTL

\* Every loop does what TaskRunner asks of a BgTask, as far as safety goes: its channel is
\* closed once, and nothing but the end of its context or its own end is seen of it.
THEOREM LoopIsBgTask == LoopSpec => Task!TaskSafety
<1>1. LoopInit => Task!TaskInit
  BY DEF LoopInit, Task!TaskInit
<1>2. [LoopNext]_loopVars => [Task!Cancel \/ Task!Close]_Task!taskVars
  <2> USE DEF Task!Cancel, Task!Close, Task!taskVars
  <2>1. ASSUME UNCHANGED loopVars PROVE UNCHANGED Task!taskVars
    BY <2>1 DEF loopVars
  <2>2. ASSUME LoopStart PROVE [Task!Cancel \/ Task!Close]_Task!taskVars
    BY <2>2 DEF LoopStart, NextRound
  <2>3. ASSUME NEW e \in Errs \ {"nil"}, ContextEnds(e) PROVE [Task!Cancel \/ Task!Close]_Task!taskVars
    BY <2>3 DEF ContextEnds
  <2>4. ASSUME TickerTicks PROVE UNCHANGED Task!taskVars
    BY <2>4 DEF TickerTicks
  <2>5. ASSUME SelectDone \/ SelectTick PROVE UNCHANGED Task!taskVars
    BY <2>5 DEF SelectDone, SelectTick, CallTask
  <2>6. ASSUME NEW aborts \in BOOLEAN, TaskReturns(aborts) PROVE [Task!Cancel \/ Task!Close]_Task!taskVars
    BY <2>6 DEF TaskReturns, NextRound
  <2> QED BY <2>1, <2>2, <2>3, <2>4, <2>5, <2>6 DEF LoopNext
<1> QED BY <1>1, <1>2, PTL DEF LoopSpec, Task!TaskSafety

-----------------------------------------------------------------------------
(* Promise: a result is what its function did unless the context was done,   *)
(* and a worker's cancel() comes after the outcome is settled.               *)

\* A function is new until its turn has come and its goroutine runs it.
TurnInv ==
    /\ mpc = "await" => next <= NumFns
    /\ \A i \in Fns : i > next \/ (i = next /\ mpc # "await") => fn[i] = "new" /\ worker[i] = "none"
    /\ \A i \in Fns : worker[i] = "check" => fn[i] = "new"

\* What RunCancelableTask returned is real.
ResultInv ==
    \A i \in Fns :
        /\ result[i] = i => fn[i] = "failed"
        /\ result[i] \in {OK, Canceled, i}
        /\ result[i] = Canceled => parentDone \/ cxDone
        /\ worker[i] \in {"decide", "record", "cancel"} /\ result[i] = OK => fn[i] = "ok"

\* So is the error that is kept, unless a success makes it meaningless.
CauseInv ==
    /\ cause # OK => IF cause = Canceled THEN parentDone \/ isOk ELSE fn[cause] = "failed"
    /\ isOk => form.any /\ \E i \in Fns : fn[i] = "ok"

SerialInv ==
    ~form.parallel =>
        /\ ~cxDone /\ ~isOk /\ mpc # "wait"
        /\ \A i \in Fns : worker[i] = "none"
        /\ mpc # "returned" /\ form.any => next = 1 \/ cause # OK
        /\ mpc # "returned" /\ ~form.any => cause = OK /\ \A i \in Fns : i < next => fn[i] = "ok"
        /\ ~parentDone => \A i \in Fns : fn[i] = "running" => mpc = "await" /\ i = next

ParallelInv ==
    form.parallel =>
        /\ mpc # "await"
        /\ cxDone /\ mpc # "returned" => Settled
        /\ mpc = "wait" => next > NumFns \/ Settled
        /\ \A i \in Fns :
              /\ i < next => worker[i] # "none"
              /\ mpc = "returned" => worker[i] \in {"none", "gone"}
              /\ worker[i] = "record" /\ ~form.any => result[i] # OK
              /\ worker[i] = "cancel" => Settled
              /\ worker[i] = "gone" => Settled \/ (form.any /\ cause # OK) \/ (~form.any /\ fn[i] = "ok")

PromiseInv ==
    PromiseTypeOK /\ TurnInv /\ ResultInv /\ CauseInv /\ SerialInv /\ ParallelInv /\ NilIsSuccess /\ ErrorIsReal

\* The forms a step tells apart, and the types its conditions need.
LEMMA FnTypes ==
    ASSUME PromiseTypeOK
    PROVE  /\ NumFns \in Nat /\ Fns = 1 .. NumFns /\ OK = 0 /\ Canceled = -1
           /\ next \in Int /\ 1 <= next /\ next <= NumFns + 1
           /\ cause \in {OK, Canceled} \cup Fns /\ ret \in {OK, Canceled} \cup Fns
           /\ cause \in Int /\ ret \in Int /\ \A i \in Fns : i \in Int /\ result[i] \in Int
  BY PromiseAssumption DEF PromiseTypeOK, PromiseErrs, Fns, OK, Canceled

\* The call begins.
LEMMA PromiseCallKeeps ==
    ASSUME PromiseInv, PromiseCall
    PROVE  PromiseInv'
<1> USE FnTypes DEF PromiseInv
<1>1. /\ mpc = "new" /\ mpc' = "loop"
      /\ UNCHANGED <<form, next, worker, fn, result, parentDone, cxDone, cause, isOk, ret>>
  BY DEF PromiseCall
<1>2. PromiseTypeOK'
  BY <1>1 DEF PromiseTypeOK
<1>3. TurnInv'
  BY <1>1, <1>2 DEF PromiseTypeOK, TurnInv
<1>4. ResultInv'
  BY <1>1, <1>2 DEF PromiseTypeOK, ResultInv
<1>5. CauseInv'
  BY <1>1, <1>2 DEF PromiseTypeOK, CauseInv
<1>6. SerialInv'
  BY <1>1, <1>2 DEF PromiseTypeOK, SerialInv
<1>7. ParallelInv'
  BY <1>1, <1>2 DEF PromiseTypeOK, ParallelInv, Settled
<1>8. NilIsSuccess'
  BY <1>1, <1>2 DEF PromiseTypeOK, NilIsSuccess, Returned
<1>9. ErrorIsReal'
  BY <1>1, <1>2 DEF PromiseTypeOK, ErrorIsReal, Returned
<1> QED BY <1>2, <1>3, <1>4, <1>5, <1>6, <1>7, <1>8, <1>9

\* The caller's context is cancelled.
LEMMA CancelParentKeeps ==
    ASSUME PromiseInv, CancelParent
    PROVE  PromiseInv'
<1> USE FnTypes DEF PromiseInv
<1>1. /\ parentDone' = TRUE
      /\ UNCHANGED <<form, mpc, next, worker, fn, result, cxDone, cause, isOk, ret>>
  BY DEF CancelParent
<1>2. PromiseTypeOK'
  <2>1. {parentDone', cxDone', isOk'} \subseteq BOOLEAN
    BY <1>1, Zenon DEF PromiseTypeOK
  <2> QED BY <1>1, <2>1 DEF PromiseTypeOK
<1>3. TurnInv'
  BY <1>1, <1>2 DEF PromiseTypeOK, TurnInv
<1>4. ResultInv'
  BY <1>1, <1>2 DEF PromiseTypeOK, ResultInv
<1>5. CauseInv'
  BY <1>1, <1>2 DEF PromiseTypeOK, CauseInv
<1>6. SerialInv'
  BY <1>1, <1>2 DEF PromiseTypeOK, SerialInv
<1>7. ParallelInv'
  BY <1>1, <1>2 DEF PromiseTypeOK, ParallelInv, Settled
<1>8. NilIsSuccess'
  BY <1>1, <1>2 DEF PromiseTypeOK, NilIsSuccess, Returned
<1>9. ErrorIsReal'
  BY <1>1, <1>2 DEF PromiseTypeOK, ErrorIsReal, Returned
<1> QED BY <1>2, <1>3, <1>4, <1>5, <1>6, <1>7, <1>8, <1>9

\* A function returns.
LEMMA FnReturnsKeeps ==
    ASSUME PromiseInv, NEW j \in Fns, NEW ok \in BOOLEAN, FnReturns(j, ok)
    PROVE  PromiseInv'
<1> USE FnTypes DEF PromiseInv
<1>1. /\ fn[j] = "running" /\ fn' \in [Fns -> {"new", "running", "ok", "failed"}]
      /\ fn'[j] \in {"ok", "failed"} /\ \A i \in Fns \ {j} : fn'[i] = fn[i]
      /\ UNCHANGED <<form, mpc, next, worker, result, parentDone, cxDone, cause, isOk, ret>>
  BY DEF FnReturns, PromiseTypeOK
<1>2. PromiseTypeOK'
  BY <1>1 DEF PromiseTypeOK
<1>3. TurnInv'
  BY <1>1, <1>2 DEF PromiseTypeOK, TurnInv
<1>4. ResultInv'
  BY <1>1, <1>2 DEF PromiseTypeOK, ResultInv
<1>5. CauseInv'
  BY <1>1, <1>2 DEF PromiseTypeOK, CauseInv
<1>6. SerialInv'
  BY <1>1, <1>2 DEF PromiseTypeOK, SerialInv
<1>7. ParallelInv'
  BY <1>1, <1>2 DEF PromiseTypeOK, ParallelInv, Settled
<1>8. NilIsSuccess'
  BY <1>1, <1>2 DEF PromiseTypeOK, NilIsSuccess, Returned
<1>9. ErrorIsReal'
  BY <1>1, <1>2 DEF PromiseTypeOK, ErrorIsReal, Returned
<1> QED BY <1>2, <1>3, <1>4, <1>5, <1>6, <1>7, <1>8, <1>9

\* DoAll and DoAny start the next function, or are through.
LEMMA SerialStartKeeps ==
    ASSUME PromiseInv, serialStart
    PROVE  PromiseInv'
<1> USE FnTypes DEF PromiseInv
<1>1. /\ mpc = "loop" /\ ~form.parallel
      /\ next > NumFns => mpc' = "returned" /\ ret' = cause /\ fn' = fn
      /\ ~(next > NumFns) => mpc' = "await" /\ fn' = [fn EXCEPT ![next] = "running"] /\ ret' = ret
      /\ UNCHANGED <<form, next, worker, result, parentDone, cxDone, cause, isOk>>
  BY DEF serialStart, Returns
<1>2. PromiseTypeOK'
  BY <1>1 DEF PromiseTypeOK
<1>3. TurnInv'
  BY <1>1, <1>2 DEF PromiseTypeOK, TurnInv
<1>4. ResultInv'
  BY <1>1, <1>2 DEF PromiseTypeOK, ResultInv, TurnInv
<1>5. CauseInv'
  BY <1>1, <1>2 DEF PromiseTypeOK, CauseInv, TurnInv, SerialInv
<1>6. SerialInv'
  BY <1>1, <1>2 DEF PromiseTypeOK, SerialInv
<1>7. ParallelInv'
  BY <1>1, <1>2 DEF PromiseTypeOK, ParallelInv, Settled
<1>8. NilIsSuccess'
  BY <1>1, <1>2 DEF PromiseTypeOK, NilIsSuccess, Returned, SerialInv
<1>9. ErrorIsReal'
  BY <1>1, <1>2 DEF PromiseTypeOK, ErrorIsReal, Returned, CauseInv, SerialInv
<1> QED BY <1>2, <1>3, <1>4, <1>5, <1>6, <1>7, <1>8, <1>9

\* DoAll and DoAny get a result.
LEMMA SerialResultKeeps ==
    ASSUME PromiseInv, serialResult
    PROVE  PromiseInv'
<1> USE FnTypes DEF PromiseInv
<1>1. /\ mpc = "await" /\ ~form.parallel /\ next \in Fns /\ ~cxDone /\ ~isOk
      /\ cause' \in PromiseErrs /\ next' = next + 1 /\ result' = [result EXCEPT ![next] = cause']
      /\ cause' \in {OK, Canceled, next}
      /\ cause' = Canceled => parentDone
      /\ cause' = OK => fn[next] = "ok"
      /\ cause' = next => fn[next] = "failed"
      /\ Decisive(cause') => mpc' = "returned" /\ ret' = cause'
      /\ ~Decisive(cause') => mpc' = "loop" /\ ret' = ret
      /\ UNCHANGED <<form, worker, fn, parentDone, cxDone, isOk>>
  BY DEF serialResult, Returns, Selected, TurnInv, SerialInv, ParallelInv
<1>2. PromiseTypeOK'
  BY <1>1 DEF PromiseTypeOK
<1>3. TurnInv'
  BY <1>1, <1>2 DEF PromiseTypeOK, TurnInv
<1>4. ResultInv'
  BY <1>1, <1>2 DEF PromiseTypeOK, ResultInv
<1>5. CauseInv'
  BY <1>1, <1>2 DEF PromiseTypeOK, CauseInv
<1>6. SerialInv'
  BY <1>1, <1>2 DEF PromiseTypeOK, SerialInv, Decisive
<1>7. ParallelInv'
  BY <1>1, <1>2 DEF PromiseTypeOK, ParallelInv, Settled
<1>8. NilIsSuccess'
  BY <1>1, <1>2 DEF PromiseTypeOK, NilIsSuccess, Returned, Decisive
<1>9. ErrorIsReal'
  BY <1>1, <1>2 DEF PromiseTypeOK, ErrorIsReal, Returned
<1> QED BY <1>2, <1>3, <1>4, <1>5, <1>6, <1>7, <1>8, <1>9

\* RunAll and RunAny start a worker, or go to wait.
LEMMA ParallelStartKeeps ==
    ASSUME PromiseInv, parallelStart
    PROVE  PromiseInv'
<1> USE FnTypes DEF PromiseInv
<1>1. /\ mpc = "loop" /\ form.parallel
      /\ next > NumFns \/ Settled => mpc' = "wait" /\ next' = next /\ worker' = worker
      /\ ~(next > NumFns \/ Settled) => next \in Fns /\ next' = next + 1 /\ mpc' = mpc
      /\ ~(next > NumFns \/ Settled) => worker' = [worker EXCEPT ![next] = "check"]
      /\ UNCHANGED <<form, fn, result, parentDone, cxDone, cause, isOk, ret>>
  BY DEF parallelStart, Leaves
<1>2. PromiseTypeOK'
  <2>1. next' \in 1 .. NumFns + 1
    BY <1>1
  <2>2. worker' \in [Fns -> {"none", "check", "select", "decide", "record", "cancel", "gone"}]
    BY <1>1 DEF PromiseTypeOK
  <2>3. mpc' \in {"new", "loop", "await", "wait", "returned"}
    BY <1>1
  <2> QED BY <1>1, <2>1, <2>2, <2>3 DEF PromiseTypeOK
<1>3. TurnInv'
  BY <1>1, <1>2 DEF PromiseTypeOK, TurnInv
<1>4. ResultInv'
  BY <1>1, <1>2 DEF PromiseTypeOK, ResultInv
<1>5. CauseInv'
  BY <1>1, <1>2 DEF PromiseTypeOK, CauseInv
<1>6. SerialInv'
  BY <1>1, <1>2 DEF PromiseTypeOK, SerialInv
<1>7. ParallelInv'
  <2>1. CASE next > NumFns \/ Settled
    BY <1>1, <2>1 DEF ParallelInv, Settled
  <2>2. CASE ~(next > NumFns \/ Settled)
    <3>1. worker'[next] = "check" /\ \A i \in Fns \ {next} : worker'[i] = worker[i]
      BY <1>1, <2>2 DEF PromiseTypeOK
    <3>2. \A i \in Fns : i < next' => i < next \/ i = next
      BY <1>1, <2>2
    <3> QED BY <1>1, <2>2, <3>1, <3>2 DEF ParallelInv, Settled
  <2> QED BY <2>1, <2>2
<1>8. NilIsSuccess'
  BY <1>1, <1>2 DEF PromiseTypeOK, NilIsSuccess, Returned
<1>9. ErrorIsReal'
  BY <1>1, <1>2 DEF PromiseTypeOK, ErrorIsReal, Returned
<1> QED BY <1>2, <1>3, <1>4, <1>5, <1>6, <1>7, <1>8, <1>9

\* RunAll and RunAny return when the workers are gone.
LEMMA ParallelReturnKeeps ==
    ASSUME PromiseInv, parallelReturn
    PROVE  PromiseInv'
<1> USE FnTypes DEF PromiseInv
<1>1. /\ mpc = "wait" /\ mpc' = "returned" /\ form.parallel
      /\ \A i \in Fns : worker[i] \in {"none", "gone"}
      /\ cxDone' = TRUE
      /\ ret' = IF form.any /\ isOk THEN OK ELSE cause
      /\ UNCHANGED <<form, next, worker, fn, result, parentDone, cause, isOk>>
  BY DEF parallelReturn, Returns, SerialInv
<1>2. PromiseTypeOK'
  <2>1. {parentDone', cxDone', isOk'} \subseteq BOOLEAN
    BY <1>1, Zenon DEF PromiseTypeOK
  <2> QED BY <1>1, <2>1 DEF PromiseTypeOK, PromiseErrs
<1>3. TurnInv'
  BY <1>1, <1>2 DEF PromiseTypeOK, TurnInv
<1>4. ResultInv'
  BY <1>1, <1>2 DEF PromiseTypeOK, ResultInv
<1>5. CauseInv'
  BY <1>1, <1>2 DEF PromiseTypeOK, CauseInv
<1>6. SerialInv'
  BY <1>1, <1>2 DEF PromiseTypeOK, SerialInv
<1>7. ParallelInv'
  BY <1>1, <1>2 DEF PromiseTypeOK, ParallelInv, Settled
<1>8. NilIsSuccess'
  BY <1>1, <1>2 DEF PromiseTypeOK, NilIsSuccess, Returned, ParallelInv, CauseInv, Settled, TurnInv
<1>9. ErrorIsReal'
  BY <1>1, <1>2 DEF PromiseTypeOK, ErrorIsReal, Returned, CauseInv
<1> QED BY <1>2, <1>3, <1>4, <1>5, <1>6, <1>7, <1>8, <1>9

\* A worker starts its function, unless the outcome is settled.
LEMMA WorkerCheckKeeps ==
    ASSUME PromiseInv, NEW j \in Fns, workerCheck(j)
    PROVE  PromiseInv'
<1> USE FnTypes DEF PromiseInv
<1>1. /\ worker[j] = "check" /\ form.parallel /\ fn[j] = "new"
      /\ worker' \in [Fns -> {"none", "check", "select", "decide", "record", "cancel", "gone"}]
      /\ \A i \in Fns \ {j} : worker'[i] = worker[i]
      /\ Settled => worker'[j] = "gone" /\ fn' = fn
      /\ ~Settled => worker'[j] = "select" /\ fn' = [fn EXCEPT ![j] = "running"]
      /\ UNCHANGED <<form, mpc, next, result, parentDone, cxDone, cause, isOk, ret>>
  BY DEF workerCheck, Leaves, SerialInv, TurnInv, PromiseTypeOK
<1>2. PromiseTypeOK'
  BY <1>1 DEF PromiseTypeOK
<1>3. TurnInv'
  BY <1>1, <1>2 DEF PromiseTypeOK, TurnInv
<1>4. ResultInv'
  BY <1>1, <1>2 DEF PromiseTypeOK, ResultInv
<1>5. CauseInv'
  BY <1>1, <1>2 DEF PromiseTypeOK, CauseInv
<1>6. SerialInv'
  BY <1>1, <1>2 DEF PromiseTypeOK, SerialInv
<1>7. ParallelInv'
  BY <1>1, <1>2 DEF PromiseTypeOK, ParallelInv, Settled
<1>8. NilIsSuccess'
  BY <1>1, <1>2 DEF PromiseTypeOK, NilIsSuccess, Returned
<1>9. ErrorIsReal'
  BY <1>1, <1>2 DEF PromiseTypeOK, ErrorIsReal, Returned, ParallelInv
<1> QED BY <1>2, <1>3, <1>4, <1>5, <1>6, <1>7, <1>8, <1>9

\* A worker gets its result.
LEMMA WorkerSelectKeeps ==
    ASSUME PromiseInv, NEW j \in Fns, workerSelect(j)
    PROVE  PromiseInv'
<1> USE FnTypes DEF PromiseInv
<1>1. /\ worker[j] = "select" /\ form.parallel
      /\ worker' \in [Fns -> {"none", "check", "select", "decide", "record", "cancel", "gone"}]
      /\ \A i \in Fns \ {j} : worker'[i] = worker[i]
      /\ worker'[j] = "decide"
      /\ result' \in [Fns -> PromiseErrs] /\ result'[j] \in Selected(j)
      /\ \A i \in Fns \ {j} : result'[i] = result[i]
      /\ UNCHANGED <<form, mpc, next, fn, parentDone, cxDone, cause, isOk, ret>>
  BY DEF workerSelect, Leaves, SerialInv, Selected, PromiseTypeOK
<1>2. PromiseTypeOK'
  BY <1>1 DEF PromiseTypeOK
<1>3. TurnInv'
  BY <1>1, <1>2 DEF PromiseTypeOK, TurnInv
<1>4. ResultInv'
  BY <1>1, <1>2 DEF PromiseTypeOK, ResultInv, Selected
<1>5. CauseInv'
  BY <1>1, <1>2 DEF PromiseTypeOK, CauseInv
<1>6. SerialInv'
  BY <1>1, <1>2 DEF PromiseTypeOK, SerialInv
<1>7. ParallelInv'
  BY <1>1, <1>2 DEF PromiseTypeOK, ParallelInv, Settled
<1>8. NilIsSuccess'
  BY <1>1, <1>2 DEF PromiseTypeOK, NilIsSuccess, Returned
<1>9. ErrorIsReal'
  BY <1>1, <1>2 DEF PromiseTypeOK, ErrorIsReal, Returned
<1> QED BY <1>2, <1>3, <1>4, <1>5, <1>6, <1>7, <1>8, <1>9

\* A worker looks at its result.
LEMMA WorkerDecideKeeps ==
    ASSUME PromiseInv, NEW j \in Fns, workerDecide(j)
    PROVE  PromiseInv'
<1> USE FnTypes DEF PromiseInv
<1>1. /\ worker[j] = "decide" /\ form.parallel
      /\ worker' \in [Fns -> {"none", "check", "select", "decide", "record", "cancel", "gone"}]
      /\ \A i \in Fns \ {j} : worker'[i] = worker[i]
      /\ worker'[j] = IF (form.any /\ isOk) \/ (~form.any /\ result[j] = OK) THEN "gone" ELSE "record"
      /\ UNCHANGED <<form, mpc, next, fn, result, parentDone, cxDone, cause, isOk, ret>>
  BY DEF workerDecide, Leaves, SerialInv, PromiseTypeOK
<1>2. PromiseTypeOK'
  BY <1>1 DEF PromiseTypeOK
<1>3. TurnInv'
  BY <1>1, <1>2 DEF PromiseTypeOK, TurnInv
<1>4. ResultInv'
  BY <1>1, <1>2 DEF PromiseTypeOK, ResultInv
<1>5. CauseInv'
  BY <1>1, <1>2 DEF PromiseTypeOK, CauseInv
<1>6. SerialInv'
  BY <1>1, <1>2 DEF PromiseTypeOK, SerialInv
<1>7. ParallelInv'
  BY <1>1, <1>2 DEF PromiseTypeOK, ParallelInv, ResultInv, Settled
<1>8. NilIsSuccess'
  BY <1>1, <1>2 DEF PromiseTypeOK, NilIsSuccess, Returned
<1>9. ErrorIsReal'
  BY <1>1, <1>2 DEF PromiseTypeOK, ErrorIsReal, Returned
<1> QED BY <1>2, <1>3, <1>4, <1>5, <1>6, <1>7, <1>8, <1>9

\* A worker records its result.
LEMMA WorkerRecordKeeps ==
    ASSUME PromiseInv, NEW j \in Fns, workerRecord(j)
    PROVE  PromiseInv'
<1> USE FnTypes DEF PromiseInv
<1>1. /\ worker[j] = "record" /\ form.parallel
      /\ worker' \in [Fns -> {"none", "check", "select", "decide", "record", "cancel", "gone"}]
      /\ \A i \in Fns \ {j} : worker'[i] = worker[i]
      /\ cause' = IF form.any THEN (IF result[j] # OK THEN result[j] ELSE cause)
              ELSE IF cause = OK THEN result[j] ELSE cause
      /\ isOk' = (isOk \/ (form.any /\ result[j] = OK))
      /\ worker'[j] = IF (IF form.any THEN result[j] = OK /\ ~isOk ELSE cause = OK) THEN "cancel" ELSE "gone"
      /\ UNCHANGED <<form, mpc, next, fn, result, parentDone, cxDone, ret>>
  BY DEF workerRecord, Leaves, SerialInv, PromiseTypeOK
<1>2. PromiseTypeOK'
  <2>1. {parentDone', cxDone', isOk'} \subseteq BOOLEAN
    BY <1>1, Zenon DEF PromiseTypeOK
  <2> QED BY <1>1, <2>1 DEF PromiseTypeOK
<1>3. TurnInv'
  BY <1>1, <1>2 DEF PromiseTypeOK, TurnInv
<1>4. ResultInv'
  BY <1>1, <1>2 DEF PromiseTypeOK, ResultInv
<1>5. CauseInv'
  BY <1>1, <1>2 DEF PromiseTypeOK, CauseInv, ResultInv, ParallelInv, Settled
<1>6. SerialInv'
  BY <1>1, <1>2 DEF PromiseTypeOK, SerialInv
<1>7. ParallelInv'
  BY <1>1, <1>2 DEF PromiseTypeOK, ParallelInv, Settled
<1>8. NilIsSuccess'
  BY <1>1, <1>2 DEF PromiseTypeOK, NilIsSuccess, Returned
<1>9. ErrorIsReal'
  BY <1>1, <1>2 DEF PromiseTypeOK, ErrorIsReal, Returned
<1> QED BY <1>2, <1>3, <1>4, <1>5, <1>6, <1>7, <1>8, <1>9

\* A worker stops the others.
LEMMA WorkerCancelKeeps ==
    ASSUME PromiseInv, NEW j \in Fns, workerCancel(j)
    PROVE  PromiseInv'
<1> USE FnTypes DEF PromiseInv
<1>1. /\ worker[j] = "cancel" /\ form.parallel
      /\ worker' \in [Fns -> {"none", "check", "select", "decide", "record", "cancel", "gone"}]
      /\ \A i \in Fns \ {j} : worker'[i] = worker[i]
      /\ worker'[j] = "gone"
      /\ cxDone' = TRUE
      /\ UNCHANGED <<form, mpc, next, fn, result, parentDone, cause, isOk, ret>>
  BY DEF workerCancel, Leaves, SerialInv, PromiseTypeOK
<1>2. PromiseTypeOK'
  <2>1. {parentDone', cxDone', isOk'} \subseteq BOOLEAN
    BY <1>1, Zenon DEF PromiseTypeOK
  <2> QED BY <1>1, <2>1 DEF PromiseTypeOK
<1>3. TurnInv'
  BY <1>1, <1>2 DEF PromiseTypeOK, TurnInv
<1>4. ResultInv'
  BY <1>1, <1>2 DEF PromiseTypeOK, ResultInv
<1>5. CauseInv'
  BY <1>1, <1>2 DEF PromiseTypeOK, CauseInv
<1>6. SerialInv'
  BY <1>1, <1>2 DEF PromiseTypeOK, SerialInv
<1>7. ParallelInv'
  BY <1>1, <1>2 DEF PromiseTypeOK, ParallelInv, Settled
<1>8. NilIsSuccess'
  BY <1>1, <1>2 DEF PromiseTypeOK, NilIsSuccess, Returned
<1>9. ErrorIsReal'
  BY <1>1, <1>2 DEF PromiseTypeOK, ErrorIsReal, Returned
<1> QED BY <1>2, <1>3, <1>4, <1>5, <1>6, <1>7, <1>8, <1>9

\* Every form of DoAll, DoAny, RunAll and RunAny keeps the invariant above (promise.go).
THEOREM PromiseInvariant == PromiseSpec => []PromiseInv
<1>1. PromiseInit => PromiseInv
  <2> SUFFICES ASSUME PromiseInit PROVE PromiseInv
    OBVIOUS
  <2> USE PromiseAssumption DEF PromiseInit
  <2>1. {parentDone, cxDone, isOk} \subseteq BOOLEAN
    BY Zenon
  <2>2. PromiseTypeOK
    BY <2>1 DEF PromiseTypeOK, PromiseErrs, OK
  <2>3. TurnInv /\ ResultInv /\ CauseInv
    BY DEF TurnInv, ResultInv, CauseInv, OK, Canceled, Fns
  <2>4. SerialInv /\ ParallelInv
    BY DEF SerialInv, ParallelInv, Fns
  <2>5. NilIsSuccess /\ ErrorIsReal
    BY DEF NilIsSuccess, ErrorIsReal, Returned
  <2> QED BY <2>2, <2>3, <2>4, <2>5 DEF PromiseInv
<1>2. PromiseInv /\ [PromiseNext]_promiseVars => PromiseInv'
  <2>1. ASSUME PromiseInv, UNCHANGED promiseVars PROVE PromiseInv'
    BY <2>1 DEF PromiseInv, promiseVars, PromiseTypeOK, TurnInv, ResultInv, CauseInv, SerialInv,
                ParallelInv, Settled, NilIsSuccess, ErrorIsReal, Returned
  <2>2. ASSUME PromiseInv, callerStep PROVE PromiseInv'
    BY <2>2, SerialStartKeeps, SerialResultKeeps, ParallelStartKeeps, ParallelReturnKeeps DEF callerStep
  <2>3. ASSUME PromiseInv, NEW i \in Fns, workerStep(i) PROVE PromiseInv'
    BY <2>3, WorkerCheckKeeps, WorkerSelectKeeps, WorkerDecideKeeps, WorkerRecordKeeps, WorkerCancelKeeps
       DEF workerStep
  <2> QED BY <2>1, <2>2, <2>3, PromiseCallKeeps, CancelParentKeeps, FnReturnsKeeps DEF PromiseNext
<1> QED BY <1>1, <1>2, PTL DEF PromiseSpec

\* What DoAll, DoAny, RunAll and RunAny tell their caller is what the functions did, for any
\* number of functions (promise.go).
THEOREM PromiseOutcomeIsReal == PromiseSpec => []OutcomeIsReal
<1>1. PromiseInv => OutcomeIsReal
  <2> SUFFICES ASSUME PromiseInv PROVE OutcomeIsReal
    OBVIOUS
  <2>1. ASSUME ~form.parallel, ~parentDone PROVE Cardinality({i \in Fns : fn[i] = "running"}) <= 1
    <3>1. {i \in Fns : fn[i] = "running"} \subseteq {next}
      BY <2>1 DEF PromiseInv, SerialInv
    <3>2. Cardinality({next}) = 1 /\ IsFiniteSet({next})
      BY FS_Singleton
    <3> QED BY <3>1, <3>2, FS_Subset
  <2>2. SerialUnlessCanceled
    <3> DEFINE n == Cardinality({i \in Fns : fn[i] = "running"})
    <3>1. n <= 1 => ~(n > 1)
      <4>1. n \in Nat
        <5>1. {i \in Fns : fn[i] = "running"} \subseteq Fns /\ IsFiniteSet(Fns)
          BY FS_Interval, PromiseAssumption DEF Fns
        <5> QED BY <5>1, FS_Subset, FS_CardinalityType
      <4> HIDE DEF n
      <4> QED BY <4>1
    <3> QED BY <2>1, <3>1 DEF SerialUnlessCanceled
  <2> QED BY <2>2 DEF PromiseInv, OutcomeIsReal
<1> QED BY <1>1, PromiseInvariant, PTL

-----------------------------------------------------------------------------
(* Counting: what a counter should be is the number of those that are at a   *)
(* step where they are counted.                                              *)

\* How a count changes when q is counted from now on, or no longer.
LEMMA CountMoves ==
    ASSUME NEW D, IsFiniteSet(D), NEW S \in SUBSET D, NEW T, NEW q
    PROVE  /\ Cardinality(S) \in Nat /\ Cardinality(S) <= Cardinality(D)
           /\ T = S \cup {q} /\ q \notin S => Cardinality(T) = Cardinality(S) + 1
           /\ T = S \ {q} /\ q \in S => Cardinality(S) > 0 /\ Cardinality(T) = Cardinality(S) - 1
<1>1. IsFiniteSet(S) /\ Cardinality(S) \in Nat /\ Cardinality(S) <= Cardinality(D)
  BY FS_Subset, FS_CardinalityType
<1>2. T = S \cup {q} /\ q \notin S => Cardinality(T) = Cardinality(S) + 1
  BY <1>1, FS_AddElement
<1>3. ASSUME T = S \ {q}, q \in S PROVE Cardinality(S) > 0 /\ Cardinality(T) = Cardinality(S) - 1
  <2>1. Cardinality(T) = Cardinality(S) - 1 /\ Cardinality(S) # 0
    BY <1>1, <1>3, FS_RemoveElement, FS_EmptySet
  <2> QED BY <1>1, <2>1
<1> QED BY <1>1, <1>2, <1>3

\* A count is zero when nobody is counted.
LEMMA CountZero ==
    ASSUME NEW D, IsFiniteSet(D), NEW C, NEW f
    PROVE  LET S == {x \in D : f[x] \in C}
           IN  /\ IsFiniteSet(S) /\ Cardinality(S) \in Nat
               /\ Cardinality(S) = 0 <=> \A x \in D : f[x] \notin C
<1> DEFINE S == {x \in D : f[x] \in C}
<1>1. S \subseteq D
  OBVIOUS
<1>2. S = {} <=> \A x \in D : f[x] \notin C
  OBVIOUS
<1> HIDE DEF S
<1>3. IsFiniteSet(S) /\ Cardinality(S) \in Nat /\ (Cardinality(S) = 0 <=> S = {})
  BY <1>1, FS_Subset, FS_CardinalityType, FS_EmptySet
<1> QED BY <1>2, <1>3 DEF S

-----------------------------------------------------------------------------
(* TaskRunner: a runner that has its own context is at one run until somebody*)
(* cancels it, and whoever swapped isRunning back waits for the run he found.*)

Everyone == RunnerProcs \cup Runs

\* Those that taskDone counts: between taskDone.Add(1) and taskDone.Done().
Counted == {"ctx", "create", "go", "begin", "run", "done"}
InFlight == {q \in Everyone : rpc[q] \in Counted}

\* The Starts that have a context for their run.
GoSteps == {"go"}
Going == {p \in RunnerProcs : rpc[p] \in GoSteps}

\* Callers and the goroutines of runs each keep to their own code.
RolesInv ==
    /\ \A p \in RunnerProcs : rpc[p] \notin {"begin", "run", "done", "stop"}
    /\ \A r \in Runs : rpc[r] \in {"idle", "begin", "run", "done", "stop"} \cup StopSteps
    /\ \A r \in Runs : r > starts => rpc[r] = "idle"

CountInv ==
    /\ taskDone = Cardinality(InFlight)
    /\ starts + Cardinality(Starting) <= MaxStarts

\* A runner built with a context keeps it; otherwise each Start makes one at most.
ContextInv ==
    /\ builtWith =>
          /\ contexts = 1 /\ taskCtx = 1
          /\ \A p \in RunnerProcs : rpc[p] # "create"
          /\ \A r \in Runs : Running(r) => runCtx[r] = 1
    /\ ~builtWith => contexts <= starts + Cardinality(Going)

\* A Start or a run whose own Stop has not been called yet.
Unit(q) == rpc[q] \in {"add", "stop"} \cup Counted

\* The runner is at its first run until somebody has swapped isRunning back.
LiveInv ==
    builtWith /\ 1 \notin canceled /\ (\A q \in Everyone : rpc[q] # "cancel") =>
        /\ \A q, s \in Everyone : Unit(q) /\ Unit(s) => q = s
        /\ (\E q \in Everyone : Unit(q)) => isRunning

\* Whoever swapped isRunning back waits for the run that he found, also if its Start has
\* not counted it yet, unless he goes ahead of it.
StopInv ==
    ~isRunning =>
        \A u \in Everyone \ overtaken : rpc[u] \in {"add"} \cup Counted =>
            \E s \in Everyone : /\ rpc[s] \in StopSteps
                                /\ rpc[u] = "add" => rpc[s] \in {"cancel", "sleep"}

RunnerInv == RunnerTypeOK /\ RolesInv /\ CountInv /\ ContextInv /\ LiveInv /\ StopInv

StartSteps == {"add", "ctx", "create", "go"}

LEMMA EveryoneFinite == IsFiniteSet(Everyone) /\ IsFiniteSet(RunnerProcs)
<1>1. IsFiniteSet(Runs)
  BY FS_Interval, RunnerAssumption DEF Runs
<1> QED BY <1>1, FS_Union, RunnerAssumption DEF Everyone

\* One goroutine moves: what becomes of rpc and of the counts.
LEMMA MoveCounts ==
    ASSUME RunnerTypeOK, NEW q \in Everyone, NEW a, NEW b \in RunnerStates, Move(q, a, b)
    PROVE  /\ rpc' \in [Everyone -> RunnerStates] /\ rpc[q] = a /\ rpc'[q] = b
           /\ \A x \in Everyone \ {q} : rpc'[x] = rpc[x]
           /\ {Cardinality(InFlight), Cardinality(Starting), Cardinality(Going)} \subseteq Nat
           /\ (a \in Counted <=> b \in Counted) => InFlight' = InFlight
           /\ a \notin Counted /\ b \in Counted => Cardinality(InFlight)' = Cardinality(InFlight) + 1
           /\ a \in Counted /\ b \notin Counted =>
                 Cardinality(InFlight) > 0 /\ Cardinality(InFlight)' = Cardinality(InFlight) - 1
           /\ q \in Runs \/ (a \in StartSteps <=> b \in StartSteps) => Starting' = Starting
           /\ q \in RunnerProcs /\ a \notin StartSteps /\ b \in StartSteps =>
                 Cardinality(Starting)' = Cardinality(Starting) + 1
           /\ q \in Runs \/ (a = "go" <=> b = "go") => Going' = Going
           /\ q \in RunnerProcs /\ a # "go" /\ b = "go" => Cardinality(Going)' = Cardinality(Going) + 1
<1>1. /\ rpc' \in [Everyone -> RunnerStates] /\ rpc[q] = a /\ rpc'[q] = b
      /\ \A x \in Everyone \ {q} : rpc'[x] = rpc[x]
  BY DEF Move, RunnerTypeOK, Everyone
<1>2. InFlight = {x \in Everyone : rpc[x] \in Counted} /\ InFlight' = {x \in Everyone : rpc'[x] \in Counted}
  BY DEF InFlight
<1>3. /\ Starting = {x \in RunnerProcs : rpc[x] \in StartSteps}
      /\ Starting' = {x \in RunnerProcs : rpc'[x] \in StartSteps}
  BY DEF Starting, StartSteps
<1>4. /\ Going = {x \in RunnerProcs : rpc[x] \in GoSteps}
      /\ Going' = {x \in RunnerProcs : rpc'[x] \in GoSteps}
  BY DEF Going
<1>5. RunnerProcs \subseteq Everyone /\ RunnerProcs \cap Runs = {}
  BY RunnerAssumption DEF Everyone, Runs
<1>6. /\ Cardinality(InFlight) \in Nat
      /\ (a \in Counted <=> b \in Counted) => InFlight' = InFlight
      /\ a \notin Counted /\ b \in Counted => Cardinality(InFlight)' = Cardinality(InFlight) + 1
      /\ a \in Counted /\ b \notin Counted =>
            Cardinality(InFlight) > 0 /\ Cardinality(InFlight)' = Cardinality(InFlight) - 1
  <2>1. (a \in Counted <=> b \in Counted) => InFlight' = InFlight
    BY <1>1, <1>2
  <2>2. a \notin Counted /\ b \in Counted => InFlight' = InFlight \cup {q} /\ q \notin InFlight
    BY <1>1, <1>2
  <2>3. a \in Counted /\ b \notin Counted => InFlight' = InFlight \ {q} /\ q \in InFlight
    BY <1>1, <1>2
  <2>4. InFlight \in SUBSET Everyone
    BY <1>2
  <2> QED BY <2>1, <2>2, <2>3, <2>4, EveryoneFinite, CountMoves
<1>7. Starting \in SUBSET RunnerProcs /\ Going \in SUBSET RunnerProcs
  BY <1>3, <1>4
<1>8. CASE q \in RunnerProcs
  <2>1. \A x \in RunnerProcs \ {q} : rpc'[x] = rpc[x]
    BY <1>1, <1>5
  <2>2. /\ (a \in StartSteps <=> b \in StartSteps) => Starting' = Starting
        /\ a \notin StartSteps /\ b \in StartSteps => Starting' = Starting \cup {q} /\ q \notin Starting
    BY <1>1, <1>3, <1>8, <2>1
  <2>3. /\ (a = "go" <=> b = "go") => Going' = Going
        /\ a # "go" /\ b = "go" => Going' = Going \cup {q} /\ q \notin Going
    BY <1>1, <1>4, <1>8, <2>1 DEF GoSteps
  <2>4. /\ a \notin StartSteps /\ b \in StartSteps => Cardinality(Starting') = Cardinality(Starting) + 1
        /\ Cardinality(Starting) \in Nat /\ Cardinality(Going) \in Nat
    BY <1>7, <2>2, EveryoneFinite, CountMoves
  <2>5. a # "go" /\ b = "go" => Cardinality(Going') = Cardinality(Going) + 1
    BY <1>7, <2>3, EveryoneFinite, CountMoves
  <2> QED BY <1>1, <1>5, <1>6, <1>8, <2>2, <2>3, <2>4, <2>5
<1>9. CASE q \in Runs
  <2>1. Starting' = Starting /\ Going' = Going
    BY <1>1, <1>3, <1>4, <1>5, <1>9
  <2>2. Cardinality(Starting) \in Nat /\ Cardinality(Going) \in Nat
    BY <1>7, EveryoneFinite, CountMoves
  <2> QED BY <1>1, <1>5, <1>6, <1>9, <2>1, <2>2
<1> QED BY <1>8, <1>9 DEF Everyone

-----------------------------------------------------------------------------
\* One lemma per operation.
LEMMA WithContextKeeps ==
    ASSUME RunnerInv, NEW p \in RunnerProcs, WithContext(p)
    PROVE  RunnerInv'
<1> USE RunnerAssumption DEF RunnerInv
<1>1. /\ starts = 0 /\ contexts = 0 /\ builtWith' = TRUE /\ taskCtx' = 1 /\ contexts' = 1
      /\ \A q \in Everyone : rpc[q] = "idle"
      /\ UNCHANGED <<overtaken, isRunning, canceled, taskDone, starts, runCtx, rpc>>
  BY DEF WithContext, Everyone, RolesInv, Runs
<1>2. RunnerTypeOK'
  BY <1>1 DEF RunnerTypeOK, MaxContexts
<1>3. RolesInv' /\ CountInv' /\ StopInv'
  BY <1>1 DEF RolesInv, CountInv, StopInv, InFlight, Starting
<1>4. ContextInv' /\ LiveInv'
  BY <1>1 DEF ContextInv, LiveInv, Unit, Counted, Running, Everyone
<1> QED BY <1>2, <1>3, <1>4

LEMMA OwnerCancelsKeeps ==
    ASSUME RunnerInv, OwnerCancels
    PROVE  RunnerInv'
<1> USE RunnerAssumption DEF RunnerInv
<1>1. /\ builtWith /\ canceled' = canceled \cup {1}
      /\ UNCHANGED <<overtaken, builtWith, isRunning, taskCtx, contexts, taskDone, starts, runCtx, rpc>>
  BY DEF OwnerCancels
<1>2. RunnerTypeOK' /\ ContextInv'
  BY <1>1 DEF RunnerTypeOK, ContextInv, Running, Going
<1>3. RolesInv' /\ CountInv' /\ StopInv' /\ LiveInv'
  BY <1>1 DEF RolesInv, CountInv, StopInv, LiveInv, InFlight, Starting
<1> QED BY <1>2, <1>3

LEMMA StartSwapKeeps ==
    ASSUME RunnerInv, NEW p \in RunnerProcs, startSwap(p)
    PROVE  RunnerInv'
<1> USE RunnerAssumption DEF RunnerInv
<1>1. /\ Move(p, "idle", "add") /\ ~isRunning /\ isRunning' = TRUE /\ p \in Everyone /\ p \notin Runs
      /\ starts + Cardinality(Starting) < MaxStarts
      /\ UNCHANGED <<overtaken, builtWith, taskCtx, contexts, canceled, taskDone, starts, runCtx>>
  BY DEF startSwap, Everyone, Runs
<1>2. /\ rpc' \in [Everyone -> RunnerStates] /\ rpc[p] = "idle" /\ rpc'[p] = "add"
      /\ \A x \in Everyone \ {p} : rpc'[x] = rpc[x]
      /\ Cardinality(Starting) \in Nat
      /\ InFlight' = InFlight /\ Cardinality(Starting)' = Cardinality(Starting) + 1 /\ Going' = Going
  BY <1>1, MoveCounts DEF Counted, StartSteps, RunnerStates
<1>3. RunnerTypeOK'
  BY <1>1, <1>2 DEF RunnerTypeOK, Everyone
<1>4. RolesInv' /\ CountInv' /\ ContextInv'
  BY <1>1, <1>2 DEF RunnerTypeOK, RolesInv, CountInv, ContextInv, Running, Everyone
<1>5. LiveInv' /\ StopInv'
  BY <1>1, <1>2 DEF LiveInv, StopInv, Unit
<1> QED BY <1>3, <1>4, <1>5

LEMMA StartStepKeeps ==
    ASSUME RunnerInv, NEW p \in RunnerProcs, startAdd(p) \/ startContext(p) \/ startCreate(p)
    PROVE  RunnerInv'
<1> USE RunnerAssumption DEF RunnerInv
<1>1. p \in Everyone /\ p \notin Runs
  BY DEF Everyone, Runs
<1>2. CASE startAdd(p)
  <2>1. /\ rpc' \in [Everyone -> RunnerStates] /\ rpc[p] = "add" /\ rpc'[p] = "ctx"
        /\ \A x \in Everyone \ {p} : rpc'[x] = rpc[x]
        /\ Cardinality(InFlight) \in Nat
        /\ Cardinality(InFlight)' = Cardinality(InFlight) + 1 /\ Starting' = Starting /\ Going' = Going
    BY <1>1, <1>2, MoveCounts DEF startAdd, Counted, StartSteps, RunnerStates
  <2>2. taskDone' = taskDone + 1 /\ UNCHANGED <<overtaken, builtWith, isRunning, taskCtx, contexts, canceled, starts, runCtx>>
    BY <1>2 DEF startAdd
  <2>3. RunnerTypeOK'
    BY <2>1, <2>2 DEF RunnerTypeOK, Everyone
  <2>4. RolesInv' /\ CountInv' /\ ContextInv'
    BY <1>1, <2>1, <2>2 DEF RunnerTypeOK, RolesInv, CountInv, ContextInv, Running, Everyone
  <2>5. LiveInv' /\ StopInv'
    BY <1>1, <2>1, <2>2 DEF LiveInv, StopInv, Unit, Counted, StopSteps
  <2> QED BY <2>3, <2>4, <2>5
<1>3. CASE startContext(p)
  <2> DEFINE b == IF taskCtx = 0 THEN "create" ELSE "go"
  <2>1. /\ rpc' \in [Everyone -> RunnerStates] /\ rpc[p] = "ctx" /\ rpc'[p] = b
        /\ \A x \in Everyone \ {p} : rpc'[x] = rpc[x]
        /\ {Cardinality(InFlight), Cardinality(Going)} \subseteq Nat
        /\ InFlight' = InFlight /\ Starting' = Starting
        /\ Going' = Going \/ Cardinality(Going)' = Cardinality(Going) + 1
    BY <1>1, <1>3, MoveCounts DEF startContext, Counted, StartSteps, RunnerStates
  <2>2. UNCHANGED <<overtaken, builtWith, isRunning, taskCtx, contexts, canceled, taskDone, starts, runCtx>>
    BY <1>3 DEF startContext
  <2>3. RunnerTypeOK'
    BY <2>1, <2>2 DEF RunnerTypeOK, Everyone
  <2>4. RolesInv' /\ CountInv'
    BY <1>1, <2>1, <2>2 DEF RunnerTypeOK, RolesInv, CountInv, Everyone
  <2>5. ContextInv'
    BY <1>1, <2>1, <2>2 DEF RunnerTypeOK, ContextInv, Running, Everyone
  <2>6. LiveInv' /\ StopInv'
    BY <1>1, <2>1, <2>2 DEF LiveInv, StopInv, Unit, Counted, StopSteps
  <2> QED BY <2>3, <2>4, <2>5, <2>6
<1>4. CASE startCreate(p)
  <2>1. /\ rpc' \in [Everyone -> RunnerStates] /\ rpc[p] = "create" /\ rpc'[p] = "go"
        /\ \A x \in Everyone \ {p} : rpc'[x] = rpc[x]
        /\ {Cardinality(InFlight), Cardinality(Going)} \subseteq Nat
        /\ InFlight' = InFlight /\ Starting' = Starting
        /\ Cardinality(Going)' = Cardinality(Going) + 1
    BY <1>1, <1>4, MoveCounts DEF startCreate, Counted, StartSteps, RunnerStates
  <2>2. /\ contexts' = contexts + 1 /\ taskCtx' = contexts + 1
        /\ UNCHANGED <<overtaken, builtWith, isRunning, canceled, taskDone, starts, runCtx>>
    BY <1>4 DEF startCreate
  <2>3. ~builtWith
    BY <2>1 DEF ContextInv
  <2>4. contexts + 1 <= starts + Cardinality(Starting)
    <3>1. Going \subseteq Starting /\ IsFiniteSet(Starting) /\ p \in Starting /\ p \notin Going
      BY <2>1, EveryoneFinite, FS_Subset DEF Going, GoSteps, Starting
    <3>2. Cardinality(Going \cup {p}) = Cardinality(Going) + 1 /\ Going \cup {p} \subseteq Starting
      BY <3>1, FS_Subset, FS_AddElement
    <3>3. Cardinality(Going) + 1 <= Cardinality(Starting) /\ Cardinality(Starting) \in Nat
      BY <3>1, <3>2, FS_Subset, FS_CardinalityType
    <3> QED BY <2>1, <2>3, <3>3 DEF ContextInv, RunnerTypeOK
  <2>5. contexts' \in 0 .. MaxContexts
    <3>1. Cardinality(Starting) \in Nat
      BY EveryoneFinite, FS_Subset, FS_CardinalityType DEF Starting
    <3> QED BY <2>2, <2>4, <3>1 DEF RunnerTypeOK, CountInv, MaxContexts
  <2>6. RunnerTypeOK'
    BY <2>1, <2>2, <2>5 DEF RunnerTypeOK, Everyone
  <2>7. RolesInv' /\ CountInv'
    BY <1>1, <2>1, <2>2 DEF RunnerTypeOK, RolesInv, CountInv, Everyone
  <2>8. ContextInv'
    BY <1>1, <2>1, <2>2, <2>3 DEF RunnerTypeOK, ContextInv
  <2>9. LiveInv' /\ StopInv'
    BY <1>1, <2>1, <2>2, <2>3 DEF LiveInv, StopInv, Unit, Counted, StopSteps
  <2> QED BY <2>6, <2>7, <2>8, <2>9
<1> QED BY <1>2, <1>3, <1>4

LEMMA StartGoKeeps ==
    ASSUME RunnerInv, NEW p \in RunnerProcs, startGo(p)
    PROVE  RunnerInv'
<1> USE RunnerAssumption DEF RunnerInv
<1> DEFINE r == starts + 1
           mid == [rpc EXCEPT ![p] = "idle"]
<1>1. /\ rpc[p] = "go" /\ starts' = r /\ rpc' = [rpc EXCEPT ![p] = "idle", ![r] = "begin"]
      /\ p \in Everyone /\ p \notin Runs
      /\ overtaken' = IF p \in overtaken THEN (overtaken \ {p}) \cup {r} ELSE overtaken
      /\ UNCHANGED <<builtWith, isRunning, taskCtx, contexts, canceled, taskDone, runCtx>>
  BY DEF startGo, Everyone, Runs
<1>2. Cardinality(Starting) > 0 /\ Cardinality(Starting) \in Nat
  <2>1. IsFiniteSet(Starting) /\ p \in Starting
    BY <1>1, EveryoneFinite, FS_Subset DEF Starting
  <2> QED BY <2>1, FS_EmptySet, FS_CardinalityType
<1>3. r \in Runs /\ r \in Everyone /\ rpc[r] = "idle" /\ r # p
  BY <1>1, <1>2 DEF CountInv, RunnerTypeOK, Runs, Everyone, RolesInv
<1>4. /\ \A x \in Everyone \ {p} : mid[x] = rpc[x]
      /\ mid[p] = "idle" /\ mid[r] = "idle"
      /\ \A x \in Everyone \ {r} : rpc'[x] = mid[x]
      /\ rpc'[r] = "begin" /\ rpc'[p] = "idle"
      /\ rpc' \in [Everyone -> RunnerStates]
  BY <1>1, <1>3 DEF RunnerTypeOK, Everyone, RunnerStates
<1> HIDE DEF mid
<1>5. Cardinality(InFlight') = Cardinality(InFlight)
  <2> DEFINE M == {x \in Everyone : mid[x] \in Counted}
  <2>0. "go" \in Counted /\ "begin" \in Counted /\ "idle" \notin Counted
    BY DEF Counted
  <2>1. Cardinality(M) = Cardinality(InFlight) - 1 /\ Cardinality(InFlight) \in Nat
    <3>1. rpc[p] \in Counted /\ mid[p] \notin Counted
      BY <1>1, <1>4, <2>0
    <3>2. M = InFlight \ {p} /\ p \in InFlight
      BY <1>1, <1>4, <3>1 DEF InFlight
    <3>3. IsFiniteSet(InFlight)
      BY EveryoneFinite, FS_Subset DEF InFlight
    <3> QED BY <3>2, <3>3, FS_RemoveElement, FS_CardinalityType
  <2>2. Cardinality(InFlight') = Cardinality(M) + 1
    <3>1. InFlight' = M \cup {r} /\ r \notin M /\ M \in SUBSET Everyone
      BY <1>3, <1>4, <2>0 DEF InFlight
    <3> HIDE DEF M
    <3> QED BY <3>1, EveryoneFinite, CountMoves
  <2> QED BY <2>1, <2>2
<1>6. Cardinality(Starting') = Cardinality(Starting) - 1
  <2>1. Starting' = Starting \ {p} /\ p \in Starting
    BY <1>1, <1>3, <1>4 DEF Starting, Everyone
  <2> QED BY <2>1, EveryoneFinite, FS_Subset, FS_RemoveElement DEF Starting
<1>7. Cardinality(Going') = Cardinality(Going) - 1 /\ Cardinality(Going) \in Nat
  <2>1. Going' = Going \ {p} /\ p \in Going
    BY <1>1, <1>3, <1>4 DEF Going, GoSteps, Everyone
  <2>2. IsFiniteSet(Going)
    BY EveryoneFinite, FS_Subset DEF Going
  <2> QED BY <2>1, <2>2, FS_RemoveElement, FS_CardinalityType
<1>8. RunnerTypeOK'
  <2>1. overtaken' \subseteq Everyone
    BY <1>1, <1>3 DEF RunnerTypeOK, Everyone
  <2>2. starts' \in 0 .. MaxStarts
    BY <1>1, <1>3 DEF Runs
  <2>3. {isRunning, builtWith}' \subseteq BOOLEAN
    BY <1>1, Zenon DEF RunnerTypeOK
  <2> QED BY <1>1, <1>4, <2>1, <2>2, <2>3 DEF RunnerTypeOK, Everyone
<1>9. RolesInv' /\ CountInv' /\ ContextInv'
  <2>1. RolesInv'
    <3>1. \A q \in RunnerProcs : q # r /\ (q # p => rpc'[q] = rpc[q])
      BY <1>3, <1>4 DEF Everyone, Runs
    <3>2. \A s \in Runs : s # p /\ (s # r => rpc'[s] = rpc[s])
      BY <1>1, <1>4 DEF Everyone
    <3>3. \A s \in Runs : s > r => s > starts /\ s # r
      BY DEF RunnerTypeOK, Runs
    <3> QED BY <1>1, <1>4, <3>1, <3>2, <3>3 DEF RolesInv
  <2>2. CountInv'
    BY <1>1, <1>2, <1>5, <1>6 DEF CountInv, RunnerTypeOK
  <2>3. ContextInv'
    BY <1>1, <1>3, <1>4, <1>7 DEF ContextInv, RunnerTypeOK, Running, Everyone
  <2> QED BY <2>1, <2>2, <2>3
<1>10. LiveInv'
  BY <1>1, <1>3, <1>4 DEF LiveInv, Unit, Counted
<1>11. StopInv'
  <2> SUFFICES ASSUME ~isRunning, NEW u \in Everyone, u \notin overtaken',
                      rpc'[u] \in {"add"} \cup Counted
               PROVE  \E s \in Everyone : /\ rpc'[s] \in StopSteps
                                          /\ rpc'[u] = "add" => rpc'[s] \in {"cancel", "sleep"}
    BY <1>1 DEF StopInv
  <2>1. "idle" \notin {"add"} \cup Counted /\ "go" \in Counted /\ "go" \notin StopSteps
        /\ "idle" \notin StopSteps
    BY DEF Counted, StopSteps
  <2>2. CASE u = r
    <3>1. p \notin overtaken
      BY <1>1, <2>2
    <3>2. PICK s \in Everyone : rpc[s] \in StopSteps
      BY <1>1, <2>1, <3>1 DEF StopInv
    <3>3. s # p /\ s # r
      BY <1>1, <1>3, <2>1, <3>2
    <3>4. rpc'[s] = rpc[s]
      BY <1>4, <3>3
    <3> QED BY <1>4, <2>2, <3>2, <3>4
  <2>3. CASE u # r
    <3>1. u # p
      BY <1>4, <2>1
    <3>2. u \notin overtaken /\ rpc'[u] = rpc[u]
      BY <1>1, <1>4, <2>3, <3>1
    <3>3. PICK s \in Everyone : /\ rpc[s] \in StopSteps
                                /\ rpc[u] = "add" => rpc[s] \in {"cancel", "sleep"}
      BY <3>2 DEF StopInv
    <3>4. s # p /\ s # r
      BY <1>1, <1>3, <2>1, <3>3
    <3>5. rpc'[s] = rpc[s]
      BY <1>4, <3>4
    <3> QED BY <3>2, <3>3, <3>5
  <2> QED BY <2>2, <2>3
<1> QED BY <1>8, <1>9, <1>10, <1>11

LEMMA RunStepKeeps ==
    ASSUME RunnerInv, NEW r \in Runs, runBegins(r) \/ taskEnds(r) \/ runDone(r)
    PROVE  RunnerInv'
<1> USE RunnerAssumption DEF RunnerInv
<1>1. r \in Everyone /\ r \notin RunnerProcs
  BY DEF Everyone, Runs
<1>2. CASE runBegins(r)
  <2>1. /\ rpc' \in [Everyone -> RunnerStates] /\ rpc[r] = "begin" /\ rpc'[r] = "run"
        /\ \A x \in Everyone \ {r} : rpc'[x] = rpc[x]
        /\ InFlight' = InFlight /\ Starting' = Starting /\ Going' = Going
    BY <1>1, <1>2, MoveCounts DEF runBegins, Counted, RunnerStates
  <2>2. /\ runCtx' = [runCtx EXCEPT ![r] = taskCtx]
        /\ UNCHANGED <<overtaken, builtWith, isRunning, taskCtx, contexts, canceled, taskDone, starts>>
    BY <1>2 DEF runBegins
  <2>3. RunnerTypeOK'
    BY <2>1, <2>2 DEF RunnerTypeOK, Everyone
  <2>4. RolesInv' /\ CountInv' /\ ContextInv'
    BY <1>1, <2>1, <2>2 DEF RunnerTypeOK, RolesInv, CountInv, ContextInv, Running, Everyone
  <2>5. LiveInv' /\ StopInv'
    BY <1>1, <2>1, <2>2 DEF LiveInv, StopInv, Unit, Counted, StopSteps
  <2> QED BY <2>3, <2>4, <2>5
<1>3. CASE taskEnds(r)
  <2>1. /\ rpc' \in [Everyone -> RunnerStates] /\ rpc[r] = "run" /\ rpc'[r] = "done"
        /\ \A x \in Everyone \ {r} : rpc'[x] = rpc[x]
        /\ InFlight' = InFlight /\ Starting' = Starting /\ Going' = Going
    BY <1>1, <1>3, MoveCounts DEF taskEnds, Counted, RunnerStates
  <2>2. UNCHANGED <<overtaken, builtWith, isRunning, taskCtx, contexts, canceled, taskDone, starts, runCtx>>
    BY <1>3 DEF taskEnds
  <2>3. RunnerTypeOK'
    BY <2>1, <2>2 DEF RunnerTypeOK, Everyone
  <2>4. RolesInv' /\ CountInv' /\ ContextInv'
    BY <1>1, <2>1, <2>2 DEF RunnerTypeOK, RolesInv, CountInv, ContextInv, Running, Everyone
  <2>5. LiveInv' /\ StopInv'
    BY <1>1, <2>1, <2>2 DEF LiveInv, StopInv, Unit, Counted, StopSteps
  <2> QED BY <2>3, <2>4, <2>5
<1>4. CASE runDone(r)
  <2>1. /\ rpc' \in [Everyone -> RunnerStates] /\ rpc[r] = "done" /\ rpc'[r] = "stop"
        /\ \A x \in Everyone \ {r} : rpc'[x] = rpc[x]
        /\ Cardinality(InFlight) \in Nat /\ Cardinality(InFlight) > 0
        /\ Cardinality(InFlight)' = Cardinality(InFlight) - 1 /\ Starting' = Starting /\ Going' = Going
    BY <1>1, <1>4, MoveCounts DEF runDone, Counted, RunnerStates
  <2>2. /\ taskDone' = taskDone - 1
        /\ UNCHANGED <<overtaken, builtWith, isRunning, taskCtx, contexts, canceled, starts, runCtx>>
    BY <1>4 DEF runDone
  <2>3. RunnerTypeOK'
    BY <2>1, <2>2 DEF RunnerTypeOK, Everyone, CountInv
  <2>4. RolesInv' /\ CountInv' /\ ContextInv'
    BY <1>1, <2>1, <2>2 DEF RunnerTypeOK, RolesInv, CountInv, ContextInv, Running, Everyone
  <2>5. LiveInv' /\ StopInv'
    BY <1>1, <2>1, <2>2 DEF LiveInv, StopInv, Unit, Counted, StopSteps
  <2> QED BY <2>3, <2>4, <2>5
<1> QED BY <1>2, <1>3, <1>4

\* isRunning is swapped back by q, which goes on to cancel.
LEMMA SwapBackKeeps ==
    ASSUME RunnerInv, NEW q \in Everyone, NEW a \in {"idle", "stop"}, isRunning, isRunning' = FALSE,
           q \in Runs => a = "stop", q \in RunnerProcs => a = "idle",
           Move(q, a, "cancel"), UNCHANGED <<overtaken, builtWith, taskCtx, contexts, canceled, taskDone, starts, runCtx>>
    PROVE  RunnerInv'
<1> USE RunnerAssumption DEF RunnerInv
<1>1. /\ rpc' \in [Everyone -> RunnerStates] /\ rpc[q] = a /\ rpc'[q] = "cancel"
      /\ \A x \in Everyone \ {q} : rpc'[x] = rpc[x]
      /\ InFlight' = InFlight /\ Starting' = Starting /\ Going' = Going
  BY MoveCounts DEF Counted, StartSteps, RunnerStates, StopSteps
<1>2. RunnerTypeOK'
  BY <1>1, Zenon DEF RunnerTypeOK, Everyone
<1>3. RolesInv' /\ CountInv' /\ ContextInv'
  BY <1>1 DEF RunnerTypeOK, RolesInv, CountInv, ContextInv, Running, Everyone, StopSteps
<1>4. LiveInv' /\ StopInv'
  BY <1>1 DEF LiveInv, StopInv, Unit, Counted, StopSteps
<1> QED BY <1>2, <1>3, <1>4

LEMMA RunStopsKeeps ==
    ASSUME RunnerInv, NEW r \in Runs, runStops(r)
    PROVE  RunnerInv'
<1> USE RunnerAssumption DEF RunnerInv
<1>1. r \in Everyone /\ r \notin RunnerProcs
  BY DEF Everyone, Runs
<1>2. CASE isRunning
  BY <1>1, <1>2, SwapBackKeeps DEF runStops
<1>3. CASE ~isRunning
  <2>1. /\ rpc' \in [Everyone -> RunnerStates] /\ rpc[r] = "stop" /\ rpc'[r] = "idle"
        /\ \A x \in Everyone \ {r} : rpc'[x] = rpc[x]
        /\ InFlight' = InFlight /\ Starting' = Starting /\ Going' = Going
    BY <1>1, <1>3, MoveCounts DEF runStops, Counted, RunnerStates
  <2>2. UNCHANGED <<overtaken, builtWith, isRunning, taskCtx, contexts, canceled, taskDone, starts, runCtx>>
    BY <1>3 DEF runStops, RunnerTypeOK
  <2>3. RunnerTypeOK'
    BY <2>1, <2>2 DEF RunnerTypeOK, Everyone
  <2>4. RolesInv' /\ CountInv' /\ ContextInv'
    BY <1>1, <2>1, <2>2 DEF RunnerTypeOK, RolesInv, CountInv, ContextInv, Running, Everyone
  <2>5. LiveInv' /\ StopInv'
    BY <1>1, <2>1, <2>2 DEF LiveInv, StopInv, Unit, Counted, StopSteps
  <2> QED BY <2>3, <2>4, <2>5
<1> QED BY <1>2, <1>3

LEMMA StopStepKeeps ==
    ASSUME RunnerInv, NEW q \in Everyone, stopStep(q) \/ (q \in RunnerProcs /\ Wait(q))
    PROVE  RunnerInv'
<1> USE RunnerAssumption DEF RunnerInv
<1>1. CASE stopCancel(q)
  <2>1. /\ rpc' \in [Everyone -> RunnerStates] /\ rpc[q] = "cancel" /\ rpc'[q] = "sleep"
        /\ \A x \in Everyone \ {q} : rpc'[x] = rpc[x]
        /\ InFlight' = InFlight /\ Starting' = Starting /\ Going' = Going
    BY <1>1, MoveCounts DEF stopCancel, Counted, StartSteps, RunnerStates, StopSteps
  <2>2. /\ canceled' = canceled \cup ({taskCtx} \ {0})
        /\ UNCHANGED <<overtaken, builtWith, isRunning, taskCtx, contexts, taskDone, starts, runCtx>>
    BY <1>1 DEF stopCancel
  <2>3. RunnerTypeOK'
    BY <2>1, <2>2 DEF RunnerTypeOK, Everyone
  <2>4. RolesInv' /\ CountInv' /\ ContextInv'
    BY <2>1, <2>2 DEF RunnerTypeOK, RolesInv, CountInv, ContextInv, Running, Everyone, StopSteps
  <2>5. LiveInv' /\ StopInv'
    BY <2>1, <2>2 DEF LiveInv, StopInv, ContextInv, Unit, Counted, StopSteps
  <2> QED BY <2>3, <2>4, <2>5
<1>2. ASSUME NEW a \in RunnerStates, NEW b \in RunnerStates, Move(q, a, b),
             <<a, b>> \in {<<"sleep", "wait">>, <<"wait", "idle">>} \/
                /\ q \in RunnerProcs
                /\ <<a, b>> \in {<<"idle", "waitSleep">>, <<"waitSleep", "waitDone">>, <<"waitDone", "idle">>},
             a = "sleep" => overtaken' = overtaken \cup {p \in RunnerProcs : rpc[p] = "add"},
             overtaken \subseteq overtaken', overtaken' \subseteq Everyone,
             a = "wait" => taskDone = 0,
             UNCHANGED <<builtWith, isRunning, taskCtx, contexts, canceled, taskDone, starts, runCtx>>
      PROVE  RunnerInv'
  <2>1. /\ rpc' \in [Everyone -> RunnerStates] /\ rpc[q] = a /\ rpc'[q] = b
        /\ \A x \in Everyone \ {q} : rpc'[x] = rpc[x]
        /\ InFlight' = InFlight /\ Starting' = Starting /\ Going' = Going
    BY <1>2, MoveCounts DEF Counted, StartSteps
  <2>2. RunnerTypeOK'
    BY <1>2, <2>1 DEF RunnerTypeOK, Everyone
  <2>3. RolesInv' /\ CountInv' /\ ContextInv'
    <3>1. b \in {"wait", "idle", "waitSleep", "waitDone"} /\ (q \in Runs => b \in {"wait", "idle"})
      BY <1>2 DEF Runs
    <3>2. a # "begin" /\ (q \in Runs => a # "idle")
      BY <1>2 DEF Runs
    <3>3. RolesInv'
      BY <1>2, <2>1, <3>1, <3>2 DEF RolesInv, Everyone, StopSteps
    <3>4. CountInv' /\ ContextInv'
      BY <1>2, <2>1, <3>1 DEF CountInv, ContextInv, Running, Everyone
    <3> QED BY <3>3, <3>4
  <2>4. LiveInv'
    BY <1>2, <2>1 DEF LiveInv, Unit, Counted
  <2>5. a = "wait" => \A x \in Everyone : rpc[x] \notin Counted
    BY <1>2, EveryoneFinite, CountZero DEF CountInv, InFlight
  <2>6. StopInv'
    BY <1>2, <2>1, <2>5 DEF StopInv, RolesInv, Counted, StopSteps, Everyone
  <2> QED BY <2>2, <2>3, <2>4, <2>6
<1>3. CASE waitSleeps(q) \/ waitReturns(q) \/ (q \in RunnerProcs /\ Wait(q))
  <2>1. {"idle", "sleep", "wait", "waitSleep", "waitDone"} \subseteq RunnerStates
    BY DEF RunnerStates, StopSteps
  <2>2. q \in Runs => rpc[q] \notin {"waitSleep", "waitDone"}
    BY DEF RolesInv, StopSteps
  <2>0. overtaken \subseteq Everyone /\ RunnerProcs \subseteq Everyone
    BY DEF RunnerTypeOK, Everyone
  <2>3. CASE waitSleeps(q)
    <3>1. /\ overtaken' = overtaken \cup {p \in RunnerProcs : rpc[p] = "add"}
          /\ UNCHANGED <<builtWith, isRunning, taskCtx, contexts, canceled, taskDone, starts, runCtx>>
      BY <2>3 DEF waitSleeps
    <3>2. overtaken \subseteq overtaken' /\ overtaken' \subseteq Everyone
      BY <2>0, <3>1
    <3>3. CASE Move(q, "sleep", "wait")
      BY <1>2, <2>1, <3>1, <3>2, <3>3
    <3>4. CASE Move(q, "waitSleep", "waitDone")
      <4>1. q \in RunnerProcs
        BY <2>2, <3>4 DEF Move, Everyone
      <4> QED BY <1>2, <2>1, <3>1, <3>2, <3>4, <4>1
    <3> QED BY <2>3, <3>3, <3>4 DEF waitSleeps
  <2>4. CASE waitReturns(q)
    <3>1. /\ taskDone = 0
          /\ UNCHANGED <<overtaken, builtWith, isRunning, taskCtx, contexts, canceled, taskDone, starts, runCtx>>
      BY <2>4 DEF waitReturns
    <3>2. overtaken \subseteq overtaken' /\ overtaken' \subseteq Everyone
      BY <2>0, <3>1
    <3>3. CASE Move(q, "wait", "idle")
      BY <1>2, <2>1, <3>1, <3>2, <3>3
    <3>4. CASE Move(q, "waitDone", "idle")
      <4>1. q \in RunnerProcs
        BY <2>2, <3>4 DEF Move, Everyone
      <4> QED BY <1>2, <2>1, <3>1, <3>2, <3>4, <4>1
    <3> QED BY <2>4, <3>3, <3>4 DEF waitReturns
  <2>5. CASE q \in RunnerProcs /\ Wait(q)
    <3>1. /\ Move(q, "idle", "waitSleep")
          /\ UNCHANGED <<overtaken, builtWith, isRunning, taskCtx, contexts, canceled, taskDone, starts, runCtx>>
      BY <2>5 DEF Wait
    <3> QED BY <1>2, <2>0, <2>1, <2>5, <3>1
  <2> QED BY <1>3, <2>3, <2>4, <2>5
<1> QED BY <1>1, <1>3 DEF stopStep

-----------------------------------------------------------------------------
\* The invariant of a TaskRunner is inductive.
THEOREM RunnerInvariant == RunnerSpec => []RunnerInv
<1>1. RunnerInit => RunnerInv
  <2> SUFFICES ASSUME RunnerInit PROVE RunnerInv
    OBVIOUS
  <2>1. RunnerTypeOK
    <3>1. {isRunning, builtWith} \subseteq BOOLEAN
      BY Zenon DEF RunnerInit
    <3> QED BY <3>1, RunnerAssumption DEF RunnerInit, RunnerTypeOK, MaxContexts, RunnerStates
  <2>2. InFlight = {} /\ Starting = {} /\ Going = {} /\ Cardinality({}) = 0
    BY FS_EmptySet DEF RunnerInit, InFlight, Starting, Going, GoSteps, Counted, Everyone
  <2>3. RolesInv /\ CountInv /\ ContextInv
    BY <2>2, RunnerAssumption DEF RunnerInit, RolesInv, CountInv, ContextInv
  <2>4. LiveInv /\ StopInv
    BY DEF RunnerInit, LiveInv, StopInv, Everyone, Counted
  <2> QED BY <2>1, <2>3, <2>4 DEF RunnerInv
<1>2. RunnerInv /\ [RunnerNext]_runnerVars => RunnerInv'
  <2> SUFFICES ASSUME RunnerInv, [RunnerNext]_runnerVars PROVE RunnerInv'
    OBVIOUS
  <2>1. CASE OwnerCancels
    BY <2>1, OwnerCancelsKeeps
  <2>2. ASSUME NEW p \in RunnerProcs,
               WithContext(p) \/ startSwap(p) \/ stopSwap(p) \/ Wait(p) \/ startStep(p)
        PROVE  RunnerInv'
    <3>1. p \in Everyone /\ p \notin Runs
      BY RunnerAssumption DEF Everyone, Runs
    <3>2. CASE stopSwap(p)
      BY <3>1, <3>2, SwapBackKeeps DEF stopSwap
    <3> QED BY <2>2, <3>1, <3>2, WithContextKeeps, StartSwapKeeps, StartStepKeeps, StartGoKeeps, StopStepKeeps
            DEF startStep
  <2>3. ASSUME NEW r \in Runs, runStep(r) \/ taskEnds(r) PROVE RunnerInv'
    BY <2>3, RunStepKeeps, RunStopsKeeps DEF runStep
  <2>4. ASSUME NEW q \in Everyone, stopStep(q) PROVE RunnerInv'
    BY <2>4, StopStepKeeps
  <2>5. CASE UNCHANGED runnerVars
    <3>1. UNCHANGED <<overtaken, builtWith, isRunning, taskCtx, contexts, canceled, taskDone, starts, runCtx, rpc>>
      BY <2>5 DEF runnerVars
    <3> QED BY <3>1 DEF RunnerInv, RunnerTypeOK, RolesInv, CountInv, ContextInv, LiveInv, StopInv, InFlight,
                        Starting, Going, Running, Unit
  <2> QED BY <2>1, <2>2, <2>3, <2>4, <2>5 DEF RunnerNext, Everyone
<1> QED BY <1>1, <1>2, PTL DEF RunnerSpec

\* A TaskRunner has one live run at a time, and when it is idle only runs whose Start was
\* slower than the sleep of a Stop, for any number of callers and runs: however Start, Stop
\* and the goroutines of ended runs overtake each other.
THEOREM RunnerHasOneRun == RunnerSpec => []OneRunAtATime
<1>1. RunnerInv => OneRunAtATime
  <2> SUFFICES ASSUME RunnerInv PROVE OneRunAtATime
    OBVIOUS
  <2>1. OneLiveRun
    <3> SUFFICES ASSUME builtWith, NEW r \in Runs, NEW s \in Runs, Running(r), Running(s), r # s,
                        \A q \in RunnerProcs \cup Runs : rpc[q] # "cancel"
                 PROVE  {runCtx[r], runCtx[s]} \cap canceled # {}
      BY DEF OneLiveRun
    <3>1. runCtx[r] = 1
      BY DEF RunnerInv, ContextInv
    <3>2. 1 \in canceled
      BY DEF RunnerInv, LiveInv, Everyone, Unit, Counted, Running
    <3> QED BY <3>1, <3>2
  <2>2. IdleIsStopped
    <3> SUFFICES ASSUME RunnerIdle, NEW r \in Runs, TaskRuns(r)
                 PROVE  r \in overtaken /\ (builtWith => taskCtx \in canceled)
      BY DEF IdleIsStopped
    <3>1. /\ ~isRunning /\ r \in Everyone /\ rpc[r] \in Counted /\ Unit(r)
          /\ \A q \in Everyone : rpc[q] \notin StopSteps
      BY DEF RunnerIdle, TaskRuns, Everyone, Counted, Unit
    <3>2. r \in overtaken
      BY <3>1 DEF RunnerInv, StopInv
    <3>3. builtWith => taskCtx = 1 /\ 1 \in canceled
      BY <3>1 DEF RunnerInv, ContextInv, LiveInv, StopSteps
    <3> QED BY <3>2, <3>3
  <2> QED BY <2>1, <2>2 DEF OneRunAtATime, RunnerInv
<1> QED BY <1>1, RunnerInvariant, PTL

-----------------------------------------------------------------------------
(* Groups: wg counts the tasks that Wait has to wait for, the channel of     *)
(* permits holds one for every task that may run.                            *)

Owed == IF group = "EnsureRun" THEN {"ready"}
        ELSE {"added", "ready", "running", "returned", "released"}
Permitted == {"ready", "running", "returned"}

OwedTasks == {t \in GroupTasks : task[t] \in Owed}
PermittedTasks == {t \in GroupTasks : task[t] \in Permitted}

TasksInv ==
    /\ GroupTypeOK
    /\ wg = Cardinality(OwedTasks)
    /\ permit = IF group = "WorkerGroup" THEN Cardinality(PermittedTasks) ELSE 0
    /\ waiter = "returned" => wg = 0
    /\ \A t \in GroupTasks : task[t] = "added" => group = "WorkerGroup"

TaskStates == {"new", "added", "ready", "running", "returned", "released", "gone"}

\* One task goes from step a to step b: the counts follow.
LEMMA GoesCounts ==
    ASSUME TasksInv, NEW t \in GroupTasks, NEW a, NEW b \in TaskStates, Goes(t, a, b), group' = group
    PROVE  /\ task' \in [GroupTasks -> TaskStates] /\ task[t] = a /\ task'[t] = b
           /\ \A x \in GroupTasks \ {t} : task'[x] = task[x]
           /\ {Cardinality(OwedTasks), Cardinality(PermittedTasks)} \subseteq Nat
           /\ Cardinality(OwedTasks') <= Cardinality(GroupTasks)
           /\ (a \in Owed <=> b \in Owed) => OwedTasks' = OwedTasks
           /\ a \notin Owed /\ b \in Owed => Cardinality(OwedTasks') = Cardinality(OwedTasks) + 1
           /\ a \in Owed /\ b \notin Owed =>
                 Cardinality(OwedTasks) > 0 /\ Cardinality(OwedTasks') = Cardinality(OwedTasks) - 1
           /\ (a \in Permitted <=> b \in Permitted) => PermittedTasks' = PermittedTasks
           /\ a \notin Permitted /\ b \in Permitted =>
                 Cardinality(PermittedTasks') = Cardinality(PermittedTasks) + 1
           /\ a \in Permitted /\ b \notin Permitted =>
                 Cardinality(PermittedTasks) > 0 /\ Cardinality(PermittedTasks') = Cardinality(PermittedTasks) - 1
<1>1. /\ task' \in [GroupTasks -> TaskStates] /\ task[t] = a /\ task'[t] = b
      /\ \A x \in GroupTasks \ {t} : task'[x] = task[x]
  BY DEF Goes, TasksInv, GroupTypeOK, TaskStates
<1>2. OwedTasks = {x \in GroupTasks : task[x] \in Owed} /\ OwedTasks' = {x \in GroupTasks : task'[x] \in Owed}
  BY DEF OwedTasks, Owed
<1>3. /\ PermittedTasks = {x \in GroupTasks : task[x] \in Permitted}
      /\ PermittedTasks' = {x \in GroupTasks : task'[x] \in Permitted}
  BY DEF PermittedTasks
<1>4. IsFiniteSet(GroupTasks)
  BY GroupsAssumption
<1>5. /\ Cardinality(OwedTasks) \in Nat
      /\ (a \in Owed <=> b \in Owed) => OwedTasks' = OwedTasks
      /\ a \notin Owed /\ b \in Owed => Cardinality(OwedTasks') = Cardinality(OwedTasks) + 1
      /\ a \in Owed /\ b \notin Owed =>
            Cardinality(OwedTasks) > 0 /\ Cardinality(OwedTasks') = Cardinality(OwedTasks) - 1
  <2>1. (a \in Owed <=> b \in Owed) => OwedTasks' = OwedTasks
    BY <1>1, <1>2
  <2>2. a \notin Owed /\ b \in Owed => OwedTasks' = OwedTasks \cup {t} /\ t \notin OwedTasks
    BY <1>1, <1>2
  <2>3. a \in Owed /\ b \notin Owed => OwedTasks' = OwedTasks \ {t} /\ t \in OwedTasks
    BY <1>1, <1>2
  <2>4. OwedTasks \in SUBSET GroupTasks
    BY <1>2
  <2> QED BY <1>4, <2>1, <2>2, <2>3, <2>4, CountMoves
<1>6. /\ Cardinality(PermittedTasks) \in Nat
      /\ (a \in Permitted <=> b \in Permitted) => PermittedTasks' = PermittedTasks
      /\ a \notin Permitted /\ b \in Permitted =>
            Cardinality(PermittedTasks') = Cardinality(PermittedTasks) + 1
      /\ a \in Permitted /\ b \notin Permitted =>
            Cardinality(PermittedTasks) > 0 /\ Cardinality(PermittedTasks') = Cardinality(PermittedTasks) - 1
  <2>1. (a \in Permitted <=> b \in Permitted) => PermittedTasks' = PermittedTasks
    BY <1>1, <1>3
  <2>2. a \notin Permitted /\ b \in Permitted => PermittedTasks' = PermittedTasks \cup {t} /\ t \notin PermittedTasks
    BY <1>1, <1>3
  <2>3. a \in Permitted /\ b \notin Permitted => PermittedTasks' = PermittedTasks \ {t} /\ t \in PermittedTasks
    BY <1>1, <1>3
  <2>4. PermittedTasks \in SUBSET GroupTasks
    BY <1>3
  <2> QED BY <1>4, <2>1, <2>2, <2>3, <2>4, CountMoves
<1>7. Cardinality(OwedTasks') <= Cardinality(GroupTasks)
  <2>1. OwedTasks' \subseteq GroupTasks
    BY <1>2
  <2> QED BY <1>4, <2>1, FS_Subset
<1> QED BY <1>1, <1>5, <1>6, <1>7

LEMMA TaskStepKeeps ==
    ASSUME TasksInv, NEW t \in GroupTasks, Run(t) \/ taskStep(t)
    PROVE  TasksInv'
<1> USE GroupsAssumption DEF TasksInv
<1>1. Cardinality(GroupTasks) \in Nat
  BY FS_CardinalityType
<1>2. CASE Run(t)
  <2> DEFINE b == IF group = "WorkerGroup" THEN "added" ELSE "ready"
  <2>1. /\ Goes(t, "new", b) /\ wg' = wg + 1 /\ waiter = "idle" /\ group # "EnsureRun"
        /\ UNCHANGED <<group, permit, waiter>>
    BY <1>2 DEF Run
  <2>2. /\ task' \in [GroupTasks -> TaskStates] /\ \A x \in GroupTasks \ {t} : task'[x] = task[x]
        /\ task'[t] = b /\ Cardinality(OwedTasks) \in Nat
        /\ Cardinality(OwedTasks') <= Cardinality(GroupTasks)
        /\ Cardinality(OwedTasks') = Cardinality(OwedTasks) + 1
        /\ group = "WorkerGroup" => PermittedTasks' = PermittedTasks
    BY <2>1, GoesCounts DEF Owed, Permitted, TaskStates
  <2>3. GroupTypeOK'
    BY <1>1, <2>1, <2>2 DEF GroupTypeOK, TaskStates
  <2> QED BY <2>1, <2>2, <2>3
<1>3. CASE takePermit(t)
  <2>1. /\ Goes(t, "added", "ready") /\ permit < Limit /\ permit' = permit + 1 /\ group = "WorkerGroup"
        /\ UNCHANGED <<group, wg, waiter>>
    BY <1>3 DEF takePermit, Goes
  <2>2. /\ task' \in [GroupTasks -> TaskStates] /\ \A x \in GroupTasks \ {t} : task'[x] = task[x]
        /\ task'[t] = "ready" /\ OwedTasks' = OwedTasks
        /\ Cardinality(PermittedTasks') = Cardinality(PermittedTasks) + 1
    BY <2>1, GoesCounts DEF Owed, Permitted, TaskStates
  <2>3. GroupTypeOK'
    BY <1>1, <2>1, <2>2 DEF GroupTypeOK, TaskStates
  <2> QED BY <2>1, <2>2, <2>3
<1>4. CASE begin(t)
  <2>1. /\ Goes(t, "ready", "running") /\ wg' = (IF group = "EnsureRun" THEN wg - 1 ELSE wg)
        /\ UNCHANGED <<group, permit, waiter>>
    BY <1>4 DEF begin
  <2>2. /\ task' \in [GroupTasks -> TaskStates] /\ \A x \in GroupTasks \ {t} : task'[x] = task[x]
        /\ task'[t] = "running" /\ PermittedTasks' = PermittedTasks /\ Cardinality(OwedTasks) \in Nat
        /\ IF group = "EnsureRun"
           THEN Cardinality(OwedTasks) > 0 /\ Cardinality(OwedTasks') = Cardinality(OwedTasks) - 1
           ELSE OwedTasks' = OwedTasks
    BY <2>1, GoesCounts DEF Owed, Permitted, TaskStates
  <2>3. GroupTypeOK' /\ wg' = Cardinality(OwedTasks')
    BY <1>1, <2>1, <2>2 DEF GroupTypeOK, TaskStates
  <2> QED BY <2>1, <2>2, <2>3
<1>5. CASE return(t)
  <2>1. Goes(t, "running", "returned") /\ UNCHANGED <<group, wg, permit, waiter>>
    BY <1>5 DEF return
  <2>2. /\ task' \in [GroupTasks -> TaskStates] /\ \A x \in GroupTasks \ {t} : task'[x] = task[x]
        /\ task'[t] = "returned" /\ PermittedTasks' = PermittedTasks /\ OwedTasks' = OwedTasks
    BY <2>1, GoesCounts DEF Owed, Permitted, TaskStates
  <2>3. GroupTypeOK'
    BY <2>1, <2>2 DEF GroupTypeOK, TaskStates
  <2> QED BY <2>1, <2>2, <2>3
<1>6. CASE releasePermit(t)
  <2>1. /\ Goes(t, "returned", "released") /\ permit' = (IF group = "WorkerGroup" THEN permit - 1 ELSE permit)
        /\ UNCHANGED <<group, wg, waiter>>
    BY <1>6 DEF releasePermit
  <2>2. /\ task' \in [GroupTasks -> TaskStates] /\ \A x \in GroupTasks \ {t} : task'[x] = task[x]
        /\ task'[t] = "released" /\ OwedTasks' = OwedTasks /\ Cardinality(PermittedTasks) \in Nat
        /\ Cardinality(PermittedTasks) > 0 /\ Cardinality(PermittedTasks') = Cardinality(PermittedTasks) - 1
    BY <2>1, GoesCounts DEF Owed, Permitted, TaskStates
  <2>3. GroupTypeOK'
    BY <2>1, <2>2 DEF GroupTypeOK, TaskStates
  <2> QED BY <2>1, <2>2, <2>3
<1>7. CASE done(t)
  <2>1. /\ Goes(t, "released", "gone") /\ wg' = (IF group = "EnsureRun" THEN wg ELSE wg - 1)
        /\ UNCHANGED <<group, permit, waiter>>
    BY <1>7 DEF done
  <2>2. /\ task' \in [GroupTasks -> TaskStates] /\ \A x \in GroupTasks \ {t} : task'[x] = task[x]
        /\ task'[t] = "gone" /\ PermittedTasks' = PermittedTasks /\ Cardinality(OwedTasks) \in Nat
        /\ IF group = "EnsureRun" THEN OwedTasks' = OwedTasks
           ELSE Cardinality(OwedTasks) > 0 /\ Cardinality(OwedTasks') = Cardinality(OwedTasks) - 1
    BY <2>1, GoesCounts DEF Owed, Permitted, TaskStates
  <2>3. GroupTypeOK' /\ wg' = Cardinality(OwedTasks')
    BY <1>1, <2>1, <2>2 DEF GroupTypeOK, TaskStates
  <2> QED BY <2>1, <2>2, <2>3
<1> QED BY <1>2, <1>3, <1>4, <1>5, <1>6, <1>7 DEF taskStep

LEMMA StartAllKeeps ==
    ASSUME TasksInv, StartAll
    PROVE  TasksInv'
<1> USE GroupsAssumption DEF TasksInv
<1>1. PICK T \in SUBSET GroupTasks :
          task' = [t \in GroupTasks |-> IF t \in T THEN "ready" ELSE "new"] /\ wg' = Cardinality(T)
  BY DEF StartAll
<1>2. /\ group \in {"RoutineGroup", "EnsureRun", "EnsureDone"} /\ waiter = "idle"
      /\ UNCHANGED <<group, permit, waiter>>
  BY DEF StartAll
<1>3. OwedTasks' = T
  BY <1>1, <1>2 DEF OwedTasks, Owed
<1>4. Cardinality(T) \in 0 .. Cardinality(GroupTasks)
  BY FS_Subset, FS_CardinalityType
<1>5. GroupTypeOK'
  BY <1>1, <1>2, <1>4 DEF GroupTypeOK
<1> QED BY <1>1, <1>2, <1>3, <1>5

\* A group neither exceeds its permits nor lets Wait return before its tasks are through, for
\* any limit and any number of tasks, also more than there are permits.
THEOREM GroupCoversTasks == GroupSpec => []TasksCovered
<1>1. GroupInit => TasksInv
  <2> SUFFICES ASSUME GroupInit PROVE TasksInv
    OBVIOUS
  <2>1. OwedTasks = {} /\ PermittedTasks = {} /\ Cardinality({}) = 0
    BY FS_EmptySet DEF GroupInit, OwedTasks, PermittedTasks, Owed, Permitted
  <2>2. Cardinality(GroupTasks) \in Nat
    BY GroupsAssumption, FS_CardinalityType
  <2> QED BY <2>1, <2>2, GroupsAssumption DEF GroupInit, TasksInv, GroupTypeOK
<1>2. TasksInv /\ [GroupNext]_groupVars => TasksInv'
  <2> SUFFICES ASSUME TasksInv, [GroupNext]_groupVars PROVE TasksInv'
    OBVIOUS
  <2>1. CASE GroupWait \/ waitOver
    BY <2>1 DEF GroupWait, waitOver, TasksInv, GroupTypeOK, OwedTasks, PermittedTasks, Owed
  <2>2. CASE UNCHANGED groupVars
    BY <2>2 DEF groupVars, TasksInv, GroupTypeOK, OwedTasks, PermittedTasks, Owed
  <2> QED BY <2>1, <2>2, TaskStepKeeps, StartAllKeeps DEF GroupNext
<1>3. TasksInv => TasksCovered
  <2> SUFFICES ASSUME TasksInv PROVE TasksCovered
    OBVIOUS
  <2>1. PermitsBound
    BY DEF TasksInv, PermitsBound, PermittedTasks, Permitted
  <2>2. WaitCovers
    <3> SUFFICES ASSUME waiter = "returned", NEW t \in GroupTasks
                 PROVE  task[t] \in {"new", "gone"}
                          \cup (IF group = "EnsureRun" THEN {"running", "returned", "released"} ELSE {})
      BY DEF WaitCovers
    <3>1. task[t] \notin Owed
      BY GroupsAssumption, CountZero DEF TasksInv, OwedTasks
    <3> QED BY <3>1 DEF Owed, TasksInv, GroupTypeOK
  <2> QED BY <2>1, <2>2 DEF TasksCovered, TasksInv
<1> QED BY <1>1, <1>2, <1>3, PTL DEF GroupSpec
=============================================================================
