------------------------------ MODULE SyncProofs ------------------------------
(***************************************************************************)
(* The structures goroutines wait at, for any number of goroutines, keys   *)
(* and calls: CacheGroup implements single flight, a Latch loses no        *)
(* wake-up, a RunnerGroup stops its members, the health client answers     *)
(* truly, and a BlockGroup releases each holder once.                      *)
(***************************************************************************)
EXTENDS BlockGroup, CacheGroup, Latch, HealthWatch, RunnerGroup, TLAPS

-----------------------------------------------------------------------------
(* CacheGroup implements Flights.  A holder is at its zero value until the  *)
(* one goroutine that runs its task has written the result, and whoever     *)
(* reads it reads after that.                                               *)

Landed(h) == cacheResult[h] # NoValue

\* A goroutine has a holder while it is in a call.
CallHasHolder(p) == cpc[p] = "idle" <=> chold[p] = 0

\* The holder's result is there once its task has returned, not before.
ResultIsThere(p) ==
    /\ cpc[p] = "run" => ~Landed(chold[p])
    /\ cpc[p] \in {"done", "read"} => Landed(chold[p])

\* The task of a holder is run by one goroutine.
OneRuns(p, q) == cpc[p] = "run" /\ cpc[q] = "run" /\ chold[p] = chold[q] => p = q

CacheInv ==
    /\ CacheTypeOK
    /\ \A h \in released : Landed(h)
    /\ \A h \in CacheHolders : h > cacheNew => ~Landed(h)
    /\ \A p \in FlightProcs : CallHasHolder(p) /\ ResultIsThere(p)
    /\ \A p, q \in FlightProcs : OneRuns(p, q)

LEMMA CacheInvInit == CacheInit => CacheInv
BY CacheGroupAssumption DEF CacheInit, CacheInv, CacheTypeOK, CacheHolders, Landed, CallHasHolder,
     ResultIsThere, OneRuns

LEMMA CacheStepKeeps ==
    ASSUME CacheInv, [CacheNext]_cacheVars
    PROVE  CacheInv'
<1> USE CacheGroupAssumption DEF CacheInv, CacheTypeOK, CacheHolders, Landed, CallHasHolder,
        ResultIsThere, OneRuns
<1>1. ASSUME NEW p \in FlightProcs, NEW k \in FlightKeys, Do(p, k) PROVE CacheInv'
  <2>1. CASE cached[k] # 0
    <3>1. CacheTypeOK'
      BY <1>1, <2>1 DEF Do
    <3>2. \A q \in FlightProcs : (CallHasHolder(q) /\ ResultIsThere(q))'
      BY <1>1, <2>1 DEF Do
    <3>3. \A q, r \in FlightProcs : OneRuns(q, r)'
      BY <1>1, <2>1 DEF Do
    <3> QED BY <1>1, <2>1, <3>1, <3>2, <3>3 DEF Do
  <2>2. CASE cached[k] = 0
    <3>1. CacheTypeOK'
      <4> DEFINE N == cacheNew + 1
      <4>1. /\ cacheNew' = N /\ N \in 0 .. MaxFlights
            /\ cached' = [cached EXCEPT ![k] = N] /\ chold' = [chold EXCEPT ![p] = N]
        BY <1>1, <2>2 DEF Do
      <4>2. N \in 0 .. N /\ 0 .. cacheNew \subseteq 0 .. N /\ 1 .. cacheNew \subseteq 1 .. N
        BY <4>1
      <4>3. cached \in [FlightKeys -> 0 .. N] /\ chold \in [FlightProcs -> 0 .. N]
        BY <4>2
      <4> HIDE DEF N
      <4>4. cached' \in [FlightKeys -> 0 .. N] /\ chold' \in [FlightProcs -> 0 .. N]
        BY <4>1, <4>2, <4>3
      <4> QED BY <1>1, <2>2, <4>1, <4>2, <4>4 DEF Do
    <3>2. \A q \in FlightProcs : (CallHasHolder(q) /\ ResultIsThere(q))'
      BY <1>1, <2>2 DEF Do
    <3>3. \A q, r \in FlightProcs : OneRuns(q, r)'
      BY <1>1, <2>2 DEF Do
    <3>4. \A h \in CacheHolders : (h > cacheNew => ~Landed(h))'
      BY <1>1, <2>2 DEF Do
    <3>5. \A h \in released' : Landed(h)'
      BY <1>1, <2>2 DEF Do
    <3> QED BY <3>1, <3>2, <3>3, <3>4, <3>5
  <2> QED BY <2>1, <2>2
<1>2. ASSUME NEW p \in FlightProcs, NEW k \in FlightKeys, Get(p, k) PROVE CacheInv'
  BY <1>2 DEF Get
<1>3. ASSUME NEW p \in FlightProcs, NEW v \in FlightValues, taskResult(p, v) PROVE CacheInv'
  BY <1>3 DEF taskResult
<1>4. ASSUME NEW p \in FlightProcs, wgDone(p) PROVE CacheInv'
  <2>1. CacheTypeOK'
    <3>1. chold[p] \in 1 .. cacheNew
      BY <1>4 DEF wgDone
    <3>2. released' \subseteq 1 .. cacheNew /\ paniced' \subseteq 1 .. cacheNew
      BY <1>4, <3>1 DEF wgDone
    <3> QED BY <1>4, <3>2 DEF wgDone
  <2>2. \A q \in FlightProcs : (CallHasHolder(q) /\ ResultIsThere(q))'
    BY <1>4 DEF wgDone
  <2>3. \A q, r \in FlightProcs : OneRuns(q, r)'
    BY <1>4 DEF wgDone
  <2>4. \A h \in released' : Landed(h)'
    BY <1>4 DEF wgDone
  <2> QED BY <1>4, <2>1, <2>2, <2>3, <2>4 DEF wgDone
<1>5. ASSUME NEW p \in FlightProcs, readResult(p) PROVE CacheInv'
  BY <1>5 DEF readResult
<1>6. ASSUME NEW p \in FlightProcs, taskPanics(p) PROVE CacheInv'
  <2>1. CacheTypeOK'
    <3>1. chold[p] \in 1 .. cacheNew
      BY <1>6 DEF taskPanics
    <3>2. released' \subseteq 1 .. cacheNew /\ paniced' \subseteq 1 .. cacheNew
      BY <1>6, <3>1 DEF taskPanics
    <3> QED BY <1>6, <3>2 DEF taskPanics
  <2>2. \A q \in FlightProcs : (CallHasHolder(q) /\ ResultIsThere(q))'
    BY <1>6 DEF taskPanics
  <2>3. \A q, r \in FlightProcs : OneRuns(q, r)'
    BY <1>6 DEF taskPanics
  <2>4. \A h \in released' : Landed(h)'
    BY <1>6 DEF taskPanics
  <2> QED BY <1>6, <2>1, <2>2, <2>3, <2>4 DEF taskPanics
<1>7. ASSUME NEW k \in FlightKeys, Del(k) PROVE CacheInv'
  BY <1>7 DEF Del
<1>8. CASE UNCHANGED cacheVars
  BY <1>8 DEF cacheVars
<1> QED BY <1>1, <1>2, <1>3, <1>4, <1>5, <1>6, <1>7, <1>8 DEF CacheNext, cacheStep

-----------------------------------------------------------------------------
\* Every step of CacheGroup is a step of Flights, or leaves what Flights sees alone.
LEMMA CacheStepIsFlightStep ==
    ASSUME CacheInv, [CacheNext]_cacheVars
    PROVE  [Flight!FlightsNext]_(Flight!flightVars)
<1> USE CacheGroupAssumption DEF CacheInv, CacheTypeOK, CacheHolders, Landed, CallHasHolder, ResultIsThere
<1>1. ASSUME NEW p \in FlightProcs, NEW k \in FlightKeys, Do(p, k) \/ Get(p, k)
      PROVE  Flight!Open(p, k) \/ Flight!Join(p, k)
  BY <1>1 DEF Do, Get, Flight!Open, Flight!Join
<1>2. ASSUME NEW p \in FlightProcs, NEW v \in FlightValues, taskResult(p, v)
      PROVE  chold[p] \in 1 .. MaxFlights /\ Flight!Land(chold[p], v)
  BY <1>2 DEF taskResult, Flight!Land
<1>3. ASSUME NEW p \in FlightProcs, wgDone(p) PROVE UNCHANGED Flight!flightVars
  BY <1>3 DEF wgDone, Flight!flightVars
<1>4. ASSUME NEW p \in FlightProcs, readResult(p) PROVE Flight!Answer(p)
  BY <1>4 DEF readResult, Flight!Answer
<1>5. ASSUME NEW p \in FlightProcs, taskPanics(p) PROVE Flight!Fail(p)
  BY <1>5 DEF taskPanics, Flight!Fail
<1>6. ASSUME NEW k \in FlightKeys, Del(k) PROVE Flight!Drop(k)
  BY <1>6 DEF Del, Flight!Drop
<1>7. CASE UNCHANGED cacheVars
  BY <1>7 DEF cacheVars, Flight!flightVars
<1> HIDE DEF CacheInv
<1> QED BY <1>1, <1>2, <1>3, <1>4, <1>5, <1>6, <1>7 DEF CacheNext, cacheStep, Flight!FlightsNext

\* CacheGroup is single flight, whatever is deleted, restarted or panics meanwhile, for any
\* number of callers, keys and holders.
THEOREM SingleFlightKept == CacheSpec => ImplementsFlights
<1>1. CacheInit => Flight!FlightsInit
  BY DEF CacheInit, Flight!FlightsInit, CacheHolders
<1>2. CacheInv => CacheTypeOK
  BY DEF CacheInv
<1> QED BY <1>1, <1>2, CacheInvInit, CacheStepKeeps, CacheStepIsFlightStep, PTL
        DEF CacheSpec, ImplementsFlights, Flight!FlightsSpec

-----------------------------------------------------------------------------
(* Latch: WakeupsKept is inductive, as a waiter tests isClosed again with    *)
(* the lock held and whoever opens the latch wakes all with the lock held.   *)

\* No wake-up of a Latch is lost, whatever its callers read before they took the lock, for any
\* number of them.
THEOREM LatchKeepsWakeups == LatchSpec => []WakeupsKept
<1> USE DEF WakeupsKept, LatchTypeOK, NoLostWakeup
<1>1. LatchInit => WakeupsKept
  BY DEF LatchInit
<1>2. WakeupsKept /\ [LatchNext]_latchVars => WakeupsKept'
  <2> SUFFICES ASSUME WakeupsKept, [LatchNext]_latchVars PROVE WakeupsKept'
    OBVIOUS
  <2>1. ASSUME NEW p \in LatchProcs, CASwap(p) PROVE WakeupsKept'
    <3>1. LatchTypeOK'
      BY <2>1 DEF CASwap
    <3>2. NoLostWakeup'
      BY <2>1 DEF CASwap
    <3> QED BY <3>1, <3>2
  <2>2. ASSUME NEW p \in LatchProcs, waitLocked(p) PROVE WakeupsKept'
    BY <2>2 DEF waitLocked
  <2>3. ASSUME NEW p \in LatchProcs, waitCanceled(p) PROVE WakeupsKept'
    BY <2>3 DEF waitCanceled
  <2>4. ASSUME NEW p \in LatchProcs, NEW b \in BOOLEAN, Switch(p, b) PROVE WakeupsKept'
    BY <2>4 DEF Switch
  <2>5. ASSUME NEW p \in LatchProcs, NEW b \in BOOLEAN, Wait(p, b) PROVE WakeupsKept'
    BY <2>5 DEF Wait
  <2>6. CASE UNCHANGED latchVars
    BY <2>6 DEF latchVars
  <2> QED BY <2>1, <2>2, <2>3, <2>4, <2>5, <2>6 DEF LatchNext, latchStep
<1> HIDE DEF WakeupsKept
<1> QED BY <1>1, <1>2, PTL DEF LatchSpec

-----------------------------------------------------------------------------
(* HealthWatch: a SERVING anywhere between the server and the caller was    *)
(* reported by the server.                                                   *)

ServingWasSent ==
    /\ \A n \in 1 .. Len(arrived) : arrived[n] = "SERVING" => sawServing
    /\ \A n \in 1 .. Len(statusCh) : statusCh[n] = "SERVING" => sawServing
    /\ receiver = "send" /\ received = "SERVING" => sawServing

HealthInv == HealthTypeOK /\ NilIsTrue /\ ServingWasSent

\* WaitStatusServing returns nil only if the server has reported SERVING or the caller has
\* cancelled, for any number of statuses sent.
THEOREM HealthAnswerIsTrue == HealthSpec => []AnswerIsTrue
<1> USE HealthAssumption DEF HealthInv, HealthTypeOK, NilIsTrue, ServingWasSent, Statuses, Capacity
<1>1. HealthInit => HealthInv
  <2> SUFFICES ASSUME HealthInit PROVE HealthInv
    OBVIOUS
  <2>1. arrived = <<>> /\ statusCh = <<>> /\ <<>> \in Seq(Statuses) /\ Len(<<>>) = 0
    BY DEF HealthInit
  <2>2. HealthTypeOK
    <3>1. {ctxDone, broken, chClosed, sawServing} \subseteq BOOLEAN
      BY Zenon DEF HealthInit
    <3> QED BY <2>1, <3>1 DEF HealthInit
  <2>3. NilIsTrue /\ ServingWasSent
    BY <2>1 DEF HealthInit
  <2> QED BY <2>2, <2>3
<1>2. HealthInv /\ [HealthNext]_healthVars => HealthInv'
  <2> SUFFICES ASSUME HealthInv, [HealthNext]_healthVars PROVE HealthInv'
    OBVIOUS
  <2>1. CASE serverSends
    <3>1. PICK s \in Statuses : serverSends!(s)
      BY <2>1 DEF serverSends
    <3>2. HealthTypeOK'
      BY <3>1
    <3>3. NilIsTrue' /\ (sawServing => sawServing')
      BY <3>1
    <3>4. \A n \in 1 .. Len(arrived') : arrived'[n] = "SERVING" => sawServing'
      <4> SUFFICES ASSUME NEW n \in 1 .. Len(arrived'), arrived'[n] = "SERVING" PROVE sawServing'
        OBVIOUS
      <4>1. arrived' = Append(arrived, s) /\ Len(arrived') = Len(arrived) + 1
        BY <3>1
      <4>2. CASE n = Len(arrived) + 1
        <5>1. s = "SERVING"
          BY <3>1, <4>1, <4>2
        <5> QED BY <3>1, <5>1, Zenon
      <4>3. CASE n \in 1 .. Len(arrived)
        <5>1. sawServing
          BY <3>1, <4>1, <4>3
        <5> QED BY <3>1, <5>1, Zenon
      <4> QED BY <4>1, <4>2, <4>3
    <3> QED BY <3>1, <3>2, <3>3, <3>4
  <2>2. CASE cancelCtx \/ breakStream
    BY <2>2 DEF cancelCtx, breakStream
  <2>3. CASE recvStatus
    BY <2>3 DEF recvStatus
  <2>4. CASE recvError
    BY <2>4 DEF recvError
  <2>5. CASE sendStatus
    BY <2>5 DEF sendStatus
  <2>6. CASE rangeStatus
    BY <2>6 DEF rangeStatus
  <2>7. CASE rangeEnds
    BY <2>7 DEF rangeEnds
  <2>8. CASE UNCHANGED healthVars
    BY <2>8 DEF healthVars
  <2> QED BY <2>1, <2>2, <2>3, <2>4, <2>5, <2>6, <2>7, <2>8 DEF HealthNext, goroutines, waiting
<1>3. HealthInv => AnswerIsTrue
  BY DEF AnswerIsTrue
<1> HIDE DEF HealthInv
<1> QED BY <1>1, <1>2, <1>3, PTL DEF HealthSpec

-----------------------------------------------------------------------------
(* RunnerGroup: while a Stop ranges over the members, those it is through    *)
(* with do not run, as a Start would need the lock that it holds.            *)

GroupInv ==
    /\ RunnerGroupTypeOK
    /\ gcall \in [Callers -> {"idle", "start", "stop"}]
    /\ left \in [Callers -> SUBSET Runners]
    /\ \A p \in Callers : gcall[p] = "idle" => left[p] = {}
    /\ stoppedAll \subseteq Runners
    /\ lockHeld # NoCaller => stoppedAll = {}
    /\ StopCoversMembers
    /\ \A p \in Callers : gcall[p] = "stop" =>
          \A r \in members \ left[p] : member[r] \in {"idle", "outside"}

LEMMA GroupStepKeeps ==
    ASSUME GroupInv, [RunnerGroupNext]_rgVars
    PROVE  GroupInv'
<1> USE RunnerGroupAssumption DEF GroupInv, RunnerGroupTypeOK, StopCoversMembers
<1>1. ASSUME NEW p \in Callers, NEW what \in {"start", "stop"}, Enter(p, what) PROVE GroupInv'
  BY <1>1 DEF Enter, Lock
<1>2. ASSUME NEW p \in Callers, Unlock(p) PROVE GroupInv'
  BY <1>2 DEF Unlock
<1>3. ASSUME NEW p \in Callers, NEW r \in Runners, AddRunner(p, r) \/ DelRunner(p, r) PROVE GroupInv'
  BY <1>3 DEF AddRunner, DelRunner, Lock
<1>4. ASSUME NEW p \in Callers, NEW r \in Runners, startMember(p, r) PROVE GroupInv'
  BY <1>4 DEF startMember
<1>5. ASSUME NEW p \in Callers, NEW r \in Runners, stopMember(p, r) PROVE GroupInv'
  BY <1>5 DEF stopMember
<1>6. ASSUME NEW p \in Callers, NEW r \in Runners, stopWaited(p, r) PROVE GroupInv'
  BY <1>6 DEF stopWaited
<1>7. ASSUME NEW r \in Runners, taskEnds(r) PROVE GroupInv'
  BY <1>7 DEF taskEnds
<1>8. ASSUME NEW r \in Runners, stopOutside(r) PROVE GroupInv'
  BY <1>8 DEF stopOutside
<1>9. CASE UNCHANGED rgVars
  BY <1>9 DEF rgVars
<1> QED BY <1>1, <1>2, <1>3, <1>4, <1>5, <1>6, <1>7, <1>8, <1>9 DEF RunnerGroupNext

\* A Stop of a RunnerGroup has stopped the members it found, for any number of members and
\* callers.
THEOREM RunnerGroupStops == RunnerGroupSpec => []GroupStops
<1>1. RunnerGroupInit => GroupInv
  BY RunnerGroupAssumption DEF RunnerGroupInit, GroupInv, RunnerGroupTypeOK, StopCoversMembers
<1>2. GroupInv => GroupStops
  BY DEF GroupInv, GroupStops
<1> QED BY <1>1, <1>2, GroupStepKeeps, PTL DEF RunnerGroupSpec

-----------------------------------------------------------------------------
(* BlockGroup: whoever is about to call Done() finds the counter at 1 and is *)
(* the only one.  Of a holder that a removal has released nobody can get     *)
(* hold again: it is out of the map, or will be before the write lock is     *)
(* given up, and no put has it, as puts keep the read lock, except those of  *)
(* Put, which is not used together with removals.                            *)

Removals == {"Remove", "RemoveAll"}

\* Put is not used together with removals: the usage the group is made for.
PutApart == "Put" \in ops => ops \cap Removals = {}

Puts == {"putResult", "putSwap", "putDone"}
Removes == {"removeAll", "unblock", "unblockDone"}

\* A mapped holder exists and has one key.
MapInv ==
    /\ \A k \in Keys : holders[k] # NoHolder => holders[k] \in 1 .. created
    /\ \A k, l \in Keys : holders[k] = holders[l] /\ holders[k] # NoHolder => k = l

\* What a goroutine inside a call has in its hands.
CallInv(p) ==
    /\ proc[p].pc \in Puts \cup {"getWait", "unblock", "unblockDone"} => proc[p].h \in 1 .. created
    /\ proc[p].pc \in {"getCreate", "putSlow"} => proc[p].key \in Keys
    /\ proc[p].pc = "removeAll" => proc[p].key = Nil
    /\ proc[p].todo \subseteq 1 .. created
    /\ proc[p].pc \in {"unblock", "unblockDone"} =>
          /\ proc[p].h \notin proc[p].todo
          /\ proc[p].key # Nil => Detached(proc[p].h)

\* The lock a goroutine holds: removals the write lock, a put of a holder the read lock
\* unless it is the put of a Put.
LockInv(p) ==
    /\ proc[p].pc \in Removes => writer = p /\ ops \cap Removals # {}
    /\ writer = p => proc[p].pc \in Puts \cup Removes
    /\ p \in readers => proc[p].pc \in Puts
    /\ proc[p].pc \in Puts /\ "Put" \notin ops => p \in readers
    /\ proc[p].pc = "putSlow" => "Put" \in ops

\* Released by a removal.
Spent(h) == ~holder[h].hasResult /\ holder[h].wg # 1

\* Who is about to call Done() is the only one, and finds the counter at 1.
DoneInv(p) ==
    /\ proc[p].pc = "putDone" =>
          /\ holder[proc[p].h].hasResult /\ holder[proc[p].h].wg = 1
          /\ \A q \in Procs : proc[q].pc = "putDone" /\ proc[q].h = proc[p].h => q = p
    /\ proc[p].pc = "unblockDone" => ~holder[proc[p].h].hasResult
    /\ proc[p].pc \in {"unblock", "unblockDone"} => ~Spent(proc[p].h)
    /\ proc[p].pc \in Removes => \A h \in proc[p].todo : ~Spent(h)

\* A holder is released by the put that swapped its flag, or by a removal, and is then out
\* of everybody's reach.
HolderInv(h) ==
    /\ holder[h].hasResult /\ (\A p \in Procs : proc[p].pc = "putDone" => proc[p].h # h)
          => holder[h].wg = 0
    /\ Spent(h) =>
          /\ \A p \in Procs : proc[p].pc \in Puts => proc[p].h # h
          /\ Detached(h) \/ \E p \in Procs : proc[p].pc \in Removes /\ proc[p].key = Nil

GroupSafe ==
    /\ ~panicked
    /\ \A p \in Procs : DoneInv(p)
    /\ \A h \in 1 .. created : HolderInv(h)

BlockInv ==
    /\ TypeOK /\ MapInv
    /\ writer # Nil => readers = {}
    /\ \A p \in Procs : CallInv(p) /\ LockInv(p)
    /\ PutApart => GroupSafe

\* What a step writes into proc and holder has the right type.
LEMMA ProcUpdates ==
    ASSUME TypeOK, NEW p \in Procs, NEW c \in ProcSteps
    PROVE  /\ [proc EXCEPT ![p] = Idle] \in [Procs -> ProcState]
           /\ [proc EXCEPT ![p].pc = c] \in [Procs -> ProcState]
           /\ \A h \in HolderOrNone :
                 [proc EXCEPT ![p].pc = c, ![p].h = h] \in [Procs -> ProcState]
           /\ \A h \in HolderOrNone :
                 [proc EXCEPT ![p].pc = c, ![p].h = h, ![p].todo = @ \ {h}] \in [Procs -> ProcState]
<1> USE DEF ProcState, TypeOK
<1>1. Idle \in ProcState
  BY DEF Idle, ProcSteps, HolderOrNone
<1>2. [proc EXCEPT ![p].pc = c] \in [Procs -> ProcState]
  OBVIOUS
<1>3. ASSUME NEW h \in HolderOrNone
      PROVE  [proc EXCEPT ![p].pc = c, ![p].h = h] \in [Procs -> ProcState]
  OBVIOUS
<1>4. ASSUME NEW h \in HolderOrNone
      PROVE  [proc EXCEPT ![p].pc = c, ![p].h = h, ![p].todo = @ \ {h}] \in [Procs -> ProcState]
  <2>1. proc[p] \in ProcState
    OBVIOUS
  <2>2. [proc[p] EXCEPT !.pc = c, !.h = h, !.todo = @ \ {h}] \in ProcState
    BY <2>1
  <2>3. [proc EXCEPT ![p].pc = c, ![p].h = h, ![p].todo = @ \ {h}]
           = [proc EXCEPT ![p] = [proc[p] EXCEPT !.pc = c, !.h = h, !.todo = @ \ {h}]]
    BY <2>1
  <2> HIDE DEF ProcState
  <2> QED BY <2>2, <2>3
<1> HIDE DEF ProcState
<1> QED BY <1>1, <1>2, <1>3, <1>4

LEMMA HolderUpdates ==
    ASSUME TypeOK, NEW h \in Holders
    PROVE  /\ [holder EXCEPT ![h] = NewHolder] \in [Holders -> HolderState]
           /\ [holder EXCEPT ![h].wg = @ - 1] \in [Holders -> HolderState]
           /\ [holder EXCEPT ![h].hasResult = TRUE] \in [Holders -> HolderState]
           /\ \A v \in Values \cup {Nil} :
                 /\ [holder EXCEPT ![h].result = v] \in [Holders -> HolderState]
                 /\ [holder EXCEPT ![h] = HolderWith(v)] \in [Holders -> HolderState]
<1> USE DEF HolderState, TypeOK
<1>1. NewHolder \in HolderState /\ \A v \in Values \cup {Nil} : HolderWith(v) \in HolderState
  BY DEF NewHolder, HolderWith
<1>2. [holder EXCEPT ![h].wg = @ - 1] \in [Holders -> HolderState]
  OBVIOUS
<1>3. [holder EXCEPT ![h].hasResult = TRUE] \in [Holders -> HolderState]
  OBVIOUS
<1>4. \A v \in Values \cup {Nil} : [holder EXCEPT ![h].result = v] \in [Holders -> HolderState]
  OBVIOUS
<1> HIDE DEF HolderState
<1> QED BY <1>1, <1>2, <1>3, <1>4

-----------------------------------------------------------------------------
\* Every step keeps the invariant.
LEMMA GetLookKeeps ==
    ASSUME BlockInv, UNCHANGED ops, NEW p \in Procs, NEW k \in Keys, getLook(p, k)
    PROVE  BlockInv'
<1> USE GroupAssumption DEF BlockInv, Idle, Puts, Removes, CallInv, LockInv, Detached
<1>1. TypeOK'
  BY DEF TypeOK, ProcState, ProcSteps, HolderState, HolderOrNone, Holders, getLook, CanRead
<1>2. MapInv'
  BY DEF TypeOK, ProcState, MapInv, getLook, CanRead
<1>3. ASSUME NEW q \in Procs PROVE CallInv(q)'
  BY DEF TypeOK, ProcState, MapInv, getLook, CanRead
<1>4. ASSUME NEW q \in Procs PROVE LockInv(q)'
  BY DEF TypeOK, ProcState, ProcSteps, getLook, CanRead
<1>5. (writer # Nil => readers = {})'
  BY DEF TypeOK, ProcState, ProcSteps, getLook, CanRead
<1>6. ASSUME PutApart' PROVE GroupSafe'
  <2>1. PutApart /\ GroupSafe
    BY <1>6 DEF PutApart
  <2>2. ASSUME NEW q \in Procs PROVE DoneInv(q)'
    BY <1>6, <2>1 DEF TypeOK, ProcState, MapInv, GroupSafe, DoneInv, HolderInv, Spent, getLook, CanRead
  <2>3. ASSUME NEW h \in 1 .. created' PROVE HolderInv(h)'
    BY <1>6, <2>1 DEF TypeOK, ProcState, MapInv, GroupSafe, DoneInv, HolderInv, Spent, getLook, CanRead
  <2>4. ~panicked'
    BY <1>6, <2>1 DEF GroupSafe, DoneInv, HolderInv, Spent, getLook, CanRead
  <2> QED BY <2>2, <2>3, <2>4 DEF GroupSafe
<1> QED BY <1>1, <1>2, <1>3, <1>4, <1>5, <1>6

LEMMA GetCreateKeeps ==
    ASSUME BlockInv, UNCHANGED ops, NEW p \in Procs, getCreate(p)
    PROVE  BlockInv'
<1> USE GroupAssumption DEF BlockInv, Puts, Removes, CallInv, LockInv, Detached
<1> DEFINE k == proc[p].key
<1>1. /\ k \in Keys /\ proc[p].pc = "getCreate" /\ writer = Nil /\ readers = {}
      /\ UNCHANGED <<writer, readers, panicked>>
  BY DEF getCreate, CanWrite
<1>2. CASE holders[k] # NoHolder
  <2>1. /\ UNCHANGED <<holders, created, holder>> /\ holders[k] \in 1 .. created
        /\ proc' = [proc EXCEPT ![p].pc = "getWait", ![p].h = holders[k]]
    BY <1>1, <1>2 DEF getCreate, MapWithHolder, MapInv
  <2>2. TypeOK' /\ MapInv'
    <3>1. "getWait" \in ProcSteps /\ holders[k] \in HolderOrNone
      BY <1>1 DEF TypeOK, ProcSteps
    <3>2. proc' \in [Procs -> ProcState]
      BY <2>1, <3>1, ProcUpdates
    <3> QED BY <1>1, <2>1, <3>2 DEF TypeOK, MapInv
  <2>3. ASSUME NEW q \in Procs PROVE (CallInv(q) /\ LockInv(q))'
    BY <1>1, <2>1 DEF TypeOK, ProcState
  <2>4. ASSUME PutApart' PROVE GroupSafe'
    BY <1>1, <2>1, <2>4 DEF PutApart, TypeOK, ProcState, GroupSafe, DoneInv, HolderInv, Spent
  <2> QED BY <1>1, <2>2, <2>3, <2>4
<1>3. CASE holders[k] = NoHolder
  <2> DEFINE n == created + 1
  <2>1. /\ n \in Holders /\ holders' = [holders EXCEPT ![k] = n] /\ created' = n
        /\ holder' = [holder EXCEPT ![n] = NewHolder]
        /\ proc' = [proc EXCEPT ![p].pc = "getWait", ![p].h = n]
    <3>1. MapWithHolder(k) = [holders EXCEPT ![k] = n] /\ MapWithHolder(k)[k] = n
      BY <1>1, <1>3 DEF MapWithHolder, TypeOK
    <3>2. n \in Holders
      BY <3>1 DEF getCreate
    <3>3. n # holders[k]
      BY <1>3, <3>2 DEF Holders
    <3> QED BY <3>1, <3>2, <3>3 DEF getCreate
  <2>2. TypeOK'
    <3>1. "getWait" \in ProcSteps /\ n \in HolderOrNone
      BY <2>1 DEF HolderOrNone, ProcSteps
    <3>2. proc' \in [Procs -> ProcState]
      BY <2>1, <3>1, ProcUpdates
    <3>3. holder' \in [Holders -> HolderState]
      BY <2>1, HolderUpdates
    <3> QED BY <1>1, <2>1, <3>1, <3>2, <3>3 DEF TypeOK, Holders
  <2>3. MapInv'
    BY <1>1, <2>1 DEF TypeOK, MapInv
  <2>4. \A h \in 1 .. created : holder'[h] = holder[h] /\ (Detached(h) => Detached(h)')
    BY <1>1, <2>1 DEF TypeOK
  <2>5. ASSUME NEW q \in Procs PROVE (CallInv(q) /\ LockInv(q))'
    BY <1>1, <2>1, <2>4 DEF TypeOK, ProcState
  <2>6. ASSUME PutApart' PROVE GroupSafe'
    <3>1. PutApart /\ GroupSafe
      BY <2>6 DEF PutApart
    <3>2. ASSUME NEW q \in Procs PROVE DoneInv(q)'
      BY <1>1, <2>1, <2>4, <3>1 DEF TypeOK, ProcState, GroupSafe, DoneInv, Spent
    <3>3. ASSUME NEW h \in 1 .. created PROVE HolderInv(h)'
      BY <1>1, <2>1, <2>4, <3>1 DEF TypeOK, ProcState, GroupSafe, HolderInv, Spent
    <3>4. HolderInv(created)'
      <4>1. holder'[n] = NewHolder
        BY <2>1 DEF TypeOK
      <4>2. \A q \in Procs : proc'[q].pc \in Puts => proc'[q].h # n
        BY <1>1, <2>1 DEF TypeOK
      <4> QED BY <2>1, <4>1, <4>2 DEF HolderInv, Spent, NewHolder
    <3>5. \A h \in 1 .. created' : h \in 1 .. created \/ h = n
      BY <2>1 DEF TypeOK
    <3> QED BY <1>1, <2>1, <3>1, <3>2, <3>3, <3>4, <3>5 DEF GroupSafe
  <2> QED BY <1>1, <2>2, <2>3, <2>5, <2>6
<1> QED BY <1>2, <1>3

LEMMA GetReturnKeeps ==
    ASSUME BlockInv, UNCHANGED ops, NEW p \in Procs, getReturn(p)
    PROVE  BlockInv'
<1> USE GroupAssumption DEF BlockInv, Idle, Puts, Removes, CallInv, LockInv, Detached
<1>1. TypeOK'
  BY DEF TypeOK, ProcState, ProcSteps, HolderState, HolderOrNone, Holders, getReturn, Return
<1>2. MapInv'
  BY DEF TypeOK, ProcState, MapInv, getReturn, Return
<1>3. ASSUME NEW q \in Procs PROVE CallInv(q)'
  BY DEF TypeOK, ProcState, MapInv, getReturn, Return
<1>4. ASSUME NEW q \in Procs PROVE LockInv(q)'
  BY DEF TypeOK, ProcState, ProcSteps, getReturn, Return
<1>5. (writer # Nil => readers = {})'
  BY DEF TypeOK, ProcState, ProcSteps, getReturn, Return
<1>6. ASSUME PutApart' PROVE GroupSafe'
  <2>1. PutApart /\ GroupSafe
    BY <1>6 DEF PutApart
  <2>2. ASSUME NEW q \in Procs PROVE DoneInv(q)'
    BY <1>6, <2>1 DEF TypeOK, ProcState, MapInv, GroupSafe, DoneInv, HolderInv, Spent, getReturn, Return
  <2>3. ASSUME NEW h \in 1 .. created' PROVE HolderInv(h)'
    BY <1>6, <2>1 DEF TypeOK, ProcState, MapInv, GroupSafe, DoneInv, HolderInv, Spent, getReturn, Return
  <2>4. ~panicked'
    BY <1>6, <2>1 DEF GroupSafe, DoneInv, HolderInv, Spent, getReturn, Return
  <2> QED BY <2>2, <2>3, <2>4 DEF GroupSafe
<1> QED BY <1>1, <1>2, <1>3, <1>4, <1>5, <1>6

LEMMA PutLookKeeps ==
    ASSUME BlockInv, UNCHANGED ops, NEW p \in Procs, NEW k \in Keys, NEW v \in Values, putLook(p, k, v)
    PROVE  BlockInv'
<1> USE GroupAssumption DEF BlockInv, Idle, Puts, Removes, CallInv, LockInv, Detached
<1>1. TypeOK'
  BY DEF TypeOK, ProcState, ProcSteps, HolderState, HolderOrNone, Holders, putLook, CanRead
<1>2. MapInv'
  BY DEF TypeOK, ProcState, MapInv, putLook, CanRead
<1>3. ASSUME NEW q \in Procs PROVE CallInv(q)'
  BY DEF TypeOK, ProcState, MapInv, putLook, CanRead
<1>4. ASSUME NEW q \in Procs PROVE LockInv(q)'
  BY DEF TypeOK, ProcState, ProcSteps, putLook, CanRead
<1>5. (writer # Nil => readers = {})'
  BY DEF TypeOK, ProcState, ProcSteps, putLook, CanRead
<1>6. ASSUME PutApart' PROVE GroupSafe'
  <2>1. PutApart /\ GroupSafe
    BY <1>6 DEF PutApart
  <2>2. ASSUME NEW q \in Procs PROVE DoneInv(q)'
    BY <1>6, <2>1 DEF TypeOK, ProcState, MapInv, GroupSafe, DoneInv, HolderInv, Spent, putLook, CanRead
  <2>3. ASSUME NEW h \in 1 .. created' PROVE HolderInv(h)'
    BY <1>6, <2>1 DEF TypeOK, ProcState, MapInv, GroupSafe, DoneInv, HolderInv, Spent, putLook, CanRead
  <2>4. ~panicked'
    BY <1>6, <2>1 DEF GroupSafe, DoneInv, HolderInv, Spent, putLook, CanRead
  <2> QED BY <2>2, <2>3, <2>4 DEF GroupSafe
<1> QED BY <1>1, <1>2, <1>3, <1>4, <1>5, <1>6

LEMMA PutSlowKeeps ==
    ASSUME BlockInv, UNCHANGED ops, NEW p \in Procs, putSlow(p)
    PROVE  BlockInv'
<1> USE GroupAssumption DEF BlockInv, Puts, Removes, CallInv, LockInv, Detached
<1> DEFINE k == proc[p].key
<1>1. /\ k \in Keys /\ proc[p].pc = "putSlow" /\ writer = Nil /\ readers = {} /\ "Put" \in ops
      /\ UNCHANGED panicked
  BY DEF putSlow, CanWrite
<1>2. CASE holders[k] # NoHolder
  <2>1. /\ UNCHANGED <<holders, created, holder, readers>> /\ holders[k] \in 1 .. created
        /\ proc' = [proc EXCEPT ![p].pc = "putResult", ![p].h = holders[k]]
        /\ writer' = p
    BY <1>1, <1>2 DEF putSlow, MapInv
  <2>2. TypeOK' /\ MapInv'
    <3>1. "putResult" \in ProcSteps /\ holders[k] \in HolderOrNone
      BY <1>1 DEF TypeOK, ProcSteps
    <3>2. proc' \in [Procs -> ProcState]
      BY <2>1, <3>1, ProcUpdates
    <3> QED BY <1>1, <2>1, <3>2 DEF TypeOK, MapInv
  <2>3. ASSUME NEW q \in Procs PROVE (CallInv(q) /\ LockInv(q))'
    BY <1>1, <2>1 DEF TypeOK, ProcState
  <2>4. ASSUME PutApart' PROVE GroupSafe'
    BY <1>1, <2>1, <2>4 DEF PutApart, TypeOK, ProcState, GroupSafe, DoneInv, HolderInv, Spent
  <2> QED BY <1>1, <2>1, <2>2, <2>3, <2>4
<1>3. CASE holders[k] = NoHolder
  <2> DEFINE n == created + 1
  <2>1. /\ n \in Holders /\ holders' = [holders EXCEPT ![k] = n] /\ created' = n
        /\ holder' = [holder EXCEPT ![n] = HolderWith(proc[p].val)]
        /\ proc' = [proc EXCEPT ![p] = Idle] /\ UNCHANGED <<writer, readers>>
    BY <1>1, <1>3 DEF putSlow, Return, TypeOK, Holders
  <2>2. TypeOK'
    <3>1. proc[p].val \in Values \cup {Nil}
      BY DEF TypeOK, ProcState
    <3>2. proc' \in [Procs -> ProcState]
      BY <2>1, ProcUpdates DEF ProcSteps
    <3>3. holder' \in [Holders -> HolderState]
      BY <2>1, <3>1, HolderUpdates
    <3> QED BY <1>1, <2>1, <3>2, <3>3 DEF TypeOK, Holders, HolderOrNone
  <2>3. MapInv'
    BY <1>1, <2>1 DEF TypeOK, MapInv
  <2>4. \A h \in 1 .. created : holder'[h] = holder[h] /\ (Detached(h) => Detached(h)')
    BY <1>1, <2>1 DEF TypeOK
  <2>5. ASSUME NEW q \in Procs PROVE (CallInv(q) /\ LockInv(q))'
    BY <1>1, <2>1, <2>4 DEF TypeOK, ProcState, ProcSteps, Idle
  <2>6. ASSUME PutApart' PROVE GroupSafe'
    <3>1. PutApart /\ GroupSafe
      BY <2>6 DEF PutApart
    <3>2. ASSUME NEW q \in Procs PROVE DoneInv(q)'
      BY <1>1, <2>1, <2>4, <3>1 DEF TypeOK, ProcState, GroupSafe, DoneInv, Spent, Idle
    <3>3. ASSUME NEW h \in 1 .. created PROVE HolderInv(h)'
      BY <1>1, <2>1, <2>4, <3>1 DEF TypeOK, ProcState, GroupSafe, HolderInv, Spent, Idle
    <3>4. HolderInv(created)'
      <4>1. holder'[n] = HolderWith(proc[p].val)
        BY <2>1 DEF TypeOK
      <4>2. \A q \in Procs : proc'[q].pc \in Puts => proc'[q].h # n
        BY <1>1, <2>1 DEF TypeOK, Idle
      <4> QED BY <2>1, <4>1, <4>2 DEF HolderInv, Spent, HolderWith
    <3>5. \A h \in 1 .. created' : h \in 1 .. created \/ h = n
      BY <2>1 DEF TypeOK
    <3> QED BY <1>1, <2>1, <3>1, <3>2, <3>3, <3>4, <3>5 DEF GroupSafe
  <2> QED BY <1>1, <2>1, <2>2, <2>3, <2>5, <2>6
<1> QED BY <1>2, <1>3

LEMMA PutIfExistKeeps ==
    ASSUME BlockInv, UNCHANGED ops, NEW p \in Procs, NEW k \in Keys, NEW v \in Values, putIfExist(p, k, v)
    PROVE  BlockInv'
<1> USE GroupAssumption DEF BlockInv, Idle, Puts, Removes, CallInv, LockInv, Detached
<1>1. TypeOK'
  BY DEF TypeOK, ProcState, ProcSteps, HolderState, HolderOrNone, Holders, putIfExist, CanRead
<1>2. MapInv'
  BY DEF TypeOK, ProcState, MapInv, putIfExist, CanRead
<1>3. ASSUME NEW q \in Procs PROVE CallInv(q)'
  BY DEF TypeOK, ProcState, MapInv, putIfExist, CanRead
<1>4. ASSUME NEW q \in Procs PROVE LockInv(q)'
  BY DEF TypeOK, ProcState, ProcSteps, putIfExist, CanRead
<1>5. (writer # Nil => readers = {})'
  BY DEF TypeOK, ProcState, ProcSteps, putIfExist, CanRead
<1>6. ASSUME PutApart' PROVE GroupSafe'
  <2>1. PutApart /\ GroupSafe
    BY <1>6 DEF PutApart
  <2>2. ASSUME NEW q \in Procs PROVE DoneInv(q)'
    BY <1>6, <2>1 DEF TypeOK, ProcState, MapInv, GroupSafe, DoneInv, HolderInv, Spent, putIfExist, CanRead
  <2>3. ASSUME NEW h \in 1 .. created' PROVE HolderInv(h)'
    BY <1>6, <2>1 DEF TypeOK, ProcState, MapInv, GroupSafe, DoneInv, HolderInv, Spent, putIfExist, CanRead
  <2>4. ~panicked'
    BY <1>6, <2>1 DEF GroupSafe, DoneInv, HolderInv, Spent, putIfExist, CanRead
  <2> QED BY <2>2, <2>3, <2>4 DEF GroupSafe
<1> QED BY <1>1, <1>2, <1>3, <1>4, <1>5, <1>6

LEMMA PutResultKeeps ==
    ASSUME BlockInv, UNCHANGED ops, NEW p \in Procs, putResult(p)
    PROVE  BlockInv'
<1> USE GroupAssumption DEF BlockInv, Idle, Puts, Removes, CallInv, LockInv, Detached
<1>1. TypeOK'
  <2>1. proc[p].val \in Values \cup {Nil} /\ proc[p].h \in Holders /\ "putSwap" \in ProcSteps
    BY DEF TypeOK, ProcState, ProcSteps, putResult, Holders
  <2>2. proc' \in [Procs -> ProcState]
    BY <2>1, ProcUpdates DEF putResult, Goto
  <2>3. holder' \in [Holders -> HolderState]
    BY <2>1, HolderUpdates DEF putResult
  <2> QED BY <2>2, <2>3 DEF TypeOK, putResult
<1>2. MapInv'
  BY DEF TypeOK, ProcState, MapInv, putResult, Goto
<1>3. ASSUME NEW q \in Procs PROVE CallInv(q)'
  BY DEF TypeOK, ProcState, MapInv, putResult, Goto
<1>4. ASSUME NEW q \in Procs PROVE LockInv(q)'
  BY DEF TypeOK, ProcState, ProcSteps, putResult, Goto
<1>5. (writer # Nil => readers = {})'
  BY DEF TypeOK, ProcState, ProcSteps, putResult, Goto
<1>6. ASSUME PutApart' PROVE GroupSafe'
  <2>1. PutApart /\ GroupSafe
    BY <1>6 DEF PutApart
  <2>2. ASSUME NEW q \in Procs PROVE DoneInv(q)'
    BY <1>6, <2>1 DEF TypeOK, ProcState, MapInv, GroupSafe, DoneInv, HolderInv, Spent, putResult, Goto
  <2>3. ASSUME NEW h \in 1 .. created' PROVE HolderInv(h)'
    BY <1>6, <2>1 DEF TypeOK, ProcState, MapInv, GroupSafe, DoneInv, HolderInv, Spent, putResult, Goto
  <2>4. ~panicked'
    BY <1>6, <2>1 DEF GroupSafe, DoneInv, HolderInv, Spent, putResult, Goto
  <2> QED BY <2>2, <2>3, <2>4 DEF GroupSafe
<1> QED BY <1>1, <1>2, <1>3, <1>4, <1>5, <1>6

LEMMA PutSwapKeeps ==
    ASSUME BlockInv, UNCHANGED ops, NEW p \in Procs, putSwap(p)
    PROVE  BlockInv'
<1> USE GroupAssumption DEF BlockInv, Puts, Removes, CallInv, LockInv, Detached
<1> DEFINE n == proc[p].h
<1>1. /\ proc[p].pc = "putSwap" /\ n \in 1 .. created /\ n \in Holders
      /\ UNCHANGED <<holders, created, panicked>> /\ "putDone" \in ProcSteps
  BY DEF putSwap, TypeOK, Holders, ProcSteps
<1>2. CASE holder[n].hasResult
  <2>1. /\ proc' = [proc EXCEPT ![p] = Idle] /\ holder' = holder
        /\ writer' = (IF writer = p THEN Nil ELSE writer) /\ readers' = readers \ {p}
    BY <1>2 DEF putSwap, Return
  <2>2. TypeOK' /\ MapInv'
    BY <1>1, <2>1, ProcUpdates DEF TypeOK, MapInv
  <2>3. ASSUME NEW q \in Procs PROVE (CallInv(q) /\ LockInv(q))'
    BY <1>1, <2>1 DEF TypeOK, ProcState, Idle
  <2>4. ASSUME PutApart' PROVE GroupSafe'
    BY <1>1, <2>1, <2>4 DEF PutApart, TypeOK, ProcState, Idle, GroupSafe, DoneInv, HolderInv, Spent
  <2> QED BY <1>1, <2>1, <2>2, <2>3, <2>4
<1>3. CASE ~holder[n].hasResult
  <2>1. /\ proc' = [proc EXCEPT ![p].pc = "putDone"] /\ UNCHANGED <<writer, readers>>
        /\ holder' = [holder EXCEPT ![n].hasResult = TRUE]
    BY <1>3 DEF putSwap, Goto
  <2>2. TypeOK' /\ MapInv'
    BY <1>1, <2>1, ProcUpdates, HolderUpdates DEF TypeOK, MapInv
  <2>3. ASSUME NEW q \in Procs PROVE (CallInv(q) /\ LockInv(q))'
    BY <1>1, <2>1 DEF TypeOK, ProcState
  <2>4. ASSUME PutApart' PROVE GroupSafe'
    <3>1. PutApart /\ GroupSafe
      BY <2>4 DEF PutApart
    <3>2. holder[n].wg = 1
      BY <1>1, <1>3, <3>1 DEF GroupSafe, HolderInv, Spent
    <3>3. ASSUME NEW q \in Procs PROVE proc[q].pc \notin Removes
      BY <1>1, <3>1 DEF PutApart, Removals, TypeOK
    <3>4. \A q \in Procs : proc[q].pc = "putDone" => proc[q].h # n
      BY <1>3, <3>1 DEF GroupSafe, DoneInv
    <3>5. \A q \in Procs : q # p => proc'[q] = proc[q]
      BY <2>1
    <3>6. proc'[p].pc = "putDone" /\ proc'[p].h = n
      BY <2>1 DEF TypeOK, ProcState
    <3>7. /\ holder'[n].hasResult /\ holder'[n].wg = 1
          /\ \A h \in Holders \ {n} : holder'[h] = holder[h]
      BY <1>1, <2>1, <3>2 DEF TypeOK, HolderState
    <3>8. ASSUME NEW q \in Procs PROVE DoneInv(q)'
      <4>1. CASE q = p
        BY <3>4, <3>5, <3>6, <3>7, <4>1 DEF DoneInv
      <4>2. CASE q # p
        BY <1>1, <3>1, <3>3, <3>4, <3>5, <3>6, <3>7, <4>2 DEF DoneInv, GroupSafe, TypeOK, Holders
      <4> QED BY <4>1, <4>2
    <3>9. ASSUME NEW h \in 1 .. created PROVE HolderInv(h)'
      <4>1. CASE h = n
        BY <3>6, <3>7, <4>1 DEF HolderInv, Spent
      <4>2. CASE h # n
        <5>1. holder'[h] = holder[h] /\ HolderInv(h)
          BY <3>1, <3>7, <4>2 DEF GroupSafe, TypeOK, Holders
        <5> QED BY <1>1, <3>3, <3>5, <3>6, <4>2, <5>1 DEF HolderInv, Spent
      <4> QED BY <4>1, <4>2
    <3> QED BY <1>1, <3>1, <3>8, <3>9 DEF GroupSafe
  <2> QED BY <1>1, <2>1, <2>2, <2>3, <2>4
<1> QED BY <1>2, <1>3

LEMMA PutDoneKeeps ==
    ASSUME BlockInv, UNCHANGED ops, NEW p \in Procs, putDone(p)
    PROVE  BlockInv'
<1> USE GroupAssumption DEF BlockInv, Idle, Puts, Removes, CallInv, LockInv, Detached
<1>1. TypeOK'
  <2>1. proc[p].h \in Holders /\ "idle" \in ProcSteps
    BY DEF TypeOK, ProcState, ProcSteps, putDone, Holders
  <2>2. proc' \in [Procs -> ProcState]
    BY <2>1, ProcUpdates DEF putDone, Return
  <2>3. holder' \in [Holders -> HolderState]
    BY <2>1, HolderUpdates DEF putDone
  <2>4. panicked' \in BOOLEAN
    BY DEF putDone
  <2> QED BY <2>2, <2>3, <2>4 DEF TypeOK, putDone, Return
<1>2. MapInv'
  BY DEF TypeOK, ProcState, MapInv, putDone, Return
<1>3. ASSUME NEW q \in Procs PROVE CallInv(q)'
  BY DEF TypeOK, ProcState, MapInv, putDone, Return
<1>4. ASSUME NEW q \in Procs PROVE LockInv(q)'
  BY DEF TypeOK, ProcState, ProcSteps, putDone, Return
<1>5. (writer # Nil => readers = {})'
  BY DEF TypeOK, ProcState, ProcSteps, putDone, Return
<1>6. ASSUME PutApart' PROVE GroupSafe'
  <2>1. PutApart /\ GroupSafe
    BY <1>6 DEF PutApart
  <2>2. ASSUME NEW q \in Procs PROVE DoneInv(q)'
    BY <1>6, <2>1 DEF TypeOK, ProcState, MapInv, GroupSafe, DoneInv, HolderInv, Spent, putDone, Return
  <2>3. ASSUME NEW h \in 1 .. created' PROVE HolderInv(h)'
    <3> DEFINE n == proc[p].h
    <3>1. /\ proc[p].pc = "putDone" /\ h \in 1 .. created /\ n \in 1 .. created /\ n \in Holders /\ h \in Holders
          /\ UNCHANGED <<holders, created>> /\ holder' = [holder EXCEPT ![n].wg = @ - 1]
          /\ proc' = [proc EXCEPT ![p] = Idle]
      BY DEF putDone, Return, TypeOK, Holders
    <3>2. HolderInv(h) /\ DoneInv(p)
      BY <2>1, <3>1 DEF GroupSafe
    <3>3. \A q \in Procs : q # p => proc'[q] = proc[q]
      BY <3>1
    <3>4. proc'[p].pc = "idle"
      BY <3>1 DEF TypeOK
    <3>5. \A q \in Procs : proc[q].pc \notin Removes
      BY <2>1, <3>1 DEF PutApart, Removals, TypeOK
    <3>6. CASE h = n
      <4>1. holder'[h].wg = 0 /\ holder'[h].hasResult
        BY <3>1, <3>2, <3>6 DEF DoneInv, TypeOK, HolderState
      <4> QED BY <4>1 DEF HolderInv, Spent
    <3>7. CASE h # n
      <4>1. holder'[h] = holder[h]
        BY <3>1, <3>7 DEF TypeOK
      <4>2. Detached(h)' <=> Detached(h)
        BY <3>1
      <4> QED BY <3>1, <3>2, <3>3, <3>4, <3>5, <3>7, <4>1, <4>2 DEF HolderInv, Spent
    <3> QED BY <3>6, <3>7
  <2>4. ~panicked'
    <3>1. ~(holder[proc[p].h].wg <= 0)
      BY <2>1 DEF TypeOK, GroupSafe, DoneInv, Spent, putDone
    <3> QED BY <3>1 DEF putDone
  <2> QED BY <2>2, <2>3, <2>4 DEF GroupSafe
<1> QED BY <1>1, <1>2, <1>3, <1>4, <1>5, <1>6

LEMMA RemoveKeeps ==
    ASSUME BlockInv, UNCHANGED ops, NEW p \in Procs, NEW k \in Keys, remove(p, k)
    PROVE  BlockInv'
<1> USE GroupAssumption DEF BlockInv, Idle, Puts, Removes, CallInv, LockInv, Detached
<1>1. TypeOK'
  BY DEF TypeOK, ProcState, ProcSteps, HolderState, HolderOrNone, Holders, remove, CanWrite
<1>2. MapInv'
  BY DEF TypeOK, ProcState, MapInv, remove, CanWrite
<1>3. ASSUME NEW q \in Procs PROVE CallInv(q)'
  BY DEF TypeOK, ProcState, MapInv, remove, CanWrite
<1>4. ASSUME NEW q \in Procs PROVE LockInv(q)'
  BY DEF Removals, TypeOK, ProcState, ProcSteps, remove, CanWrite
<1>5. (writer # Nil => readers = {})'
  BY DEF TypeOK, ProcState, ProcSteps, remove, CanWrite
<1>6. ASSUME PutApart' PROVE GroupSafe'
  <2>1. PutApart /\ GroupSafe
    BY <1>6 DEF PutApart
  <2>2. ASSUME NEW q \in Procs PROVE DoneInv(q)'
    BY <1>6, <2>1 DEF TypeOK, ProcState, MapInv, GroupSafe, DoneInv, HolderInv, Spent, remove, CanWrite
  <2>3. ASSUME NEW h \in 1 .. created' PROVE HolderInv(h)'
    <3>1. /\ writer = Nil /\ holders' = [holders EXCEPT ![k] = NoHolder] /\ h \in 1 .. created /\ h # NoHolder
          /\ holder' = holder /\ created' = created
      BY DEF remove, CanWrite, TypeOK
    <3>2. Detached(h) => Detached(h)'
      BY <3>1 DEF TypeOK
    <3>3. \A q \in Procs : proc[q].pc \notin Removes
      BY <3>1 DEF TypeOK
    <3>4. \A q \in Procs : q # p => proc'[q] = proc[q]
      BY DEF remove
    <3>5. proc[p].pc = "idle" /\ proc'[p].pc = "unblock"
      BY DEF remove, TypeOK
    <3>6. HolderInv(h)
      BY <2>1, <3>1 DEF GroupSafe
    <3> QED BY <3>1, <3>2, <3>3, <3>4, <3>5, <3>6 DEF HolderInv, Spent
  <2>4. ~panicked'
    BY <1>6, <2>1 DEF GroupSafe, DoneInv, HolderInv, Spent, remove, CanWrite
  <2> QED BY <2>2, <2>3, <2>4 DEF GroupSafe
<1> QED BY <1>1, <1>2, <1>3, <1>4, <1>5, <1>6

LEMMA RemoveAllKeeps ==
    ASSUME BlockInv, UNCHANGED ops, NEW p \in Procs, removeAll(p)
    PROVE  BlockInv'
<1> USE GroupAssumption DEF BlockInv, Idle, Puts, Removes, CallInv, LockInv, Detached
<1>1. TypeOK'
  <2> DEFINE T == {holders[k] : k \in Keys} \ {NoHolder}
  <2>1. T \subseteq Holders
    BY DEF TypeOK, HolderOrNone
  <2>2. [Idle EXCEPT !.pc = "removeAll", !.todo = T] \in ProcState
    BY <2>1 DEF ProcState, ProcSteps, HolderOrNone
  <2>3. proc' = [proc EXCEPT ![p] = [Idle EXCEPT !.pc = "removeAll", !.todo = T]]
    BY DEF removeAll
  <2> HIDE DEF T, Idle
  <2>4. proc' \in [Procs -> ProcState]
    BY <2>2, <2>3 DEF TypeOK
  <2> QED BY <2>4 DEF TypeOK, removeAll
<1>2. MapInv'
  BY DEF TypeOK, ProcState, MapInv, removeAll, CanWrite
<1>3. ASSUME NEW q \in Procs PROVE CallInv(q)'
  BY DEF TypeOK, ProcState, MapInv, removeAll, CanWrite
<1>4. ASSUME NEW q \in Procs PROVE LockInv(q)'
  BY DEF Removals, TypeOK, ProcState, ProcSteps, removeAll, CanWrite
<1>5. (writer # Nil => readers = {})'
  BY DEF TypeOK, ProcState, ProcSteps, removeAll, CanWrite
<1>6. ASSUME PutApart' PROVE GroupSafe'
  <2>1. PutApart /\ GroupSafe
    BY <1>6 DEF PutApart
  <2>2. ASSUME NEW q \in Procs PROVE DoneInv(q)'
    BY <1>6, <2>1 DEF TypeOK, ProcState, MapInv, GroupSafe, DoneInv, HolderInv, Spent, removeAll, CanWrite
  <2>3. ASSUME NEW h \in 1 .. created' PROVE HolderInv(h)'
    BY <1>6, <2>1 DEF TypeOK, ProcState, MapInv, GroupSafe, DoneInv, HolderInv, Spent, removeAll, CanWrite
  <2>4. ~panicked'
    BY <1>6, <2>1 DEF GroupSafe, DoneInv, HolderInv, Spent, removeAll, CanWrite
  <2> QED BY <2>2, <2>3, <2>4 DEF GroupSafe
<1> QED BY <1>1, <1>2, <1>3, <1>4, <1>5, <1>6

LEMMA RemoveAllNextKeeps ==
    ASSUME BlockInv, UNCHANGED ops, NEW p \in Procs, removeAllNext(p)
    PROVE  BlockInv'
<1> USE GroupAssumption DEF BlockInv, Puts, Removes, CallInv, LockInv, Detached
<1>1. /\ proc[p].pc = "removeAll" /\ writer = p /\ readers = {} /\ ops \cap Removals # {}
      /\ UNCHANGED <<created, holder, panicked>> /\ "unblock" \in ProcSteps
  BY DEF removeAllNext, TypeOK, ProcSteps
<1>2. ASSUME NEW n \in proc[p].todo, UNCHANGED <<holders, writer, readers>>,
             proc' = [proc EXCEPT ![p].pc = "unblock", ![p].h = n, ![p].todo = @ \ {n}]
      PROVE  BlockInv'
  <2>1. n \in 1 .. created /\ n \in Holders /\ n \in HolderOrNone
    BY DEF TypeOK, Holders, HolderOrNone
  <2>2. TypeOK' /\ MapInv'
    BY <1>1, <1>2, <2>1, ProcUpdates DEF TypeOK, MapInv
  <2>3. /\ \A q \in Procs : q # p => proc'[q] = proc[q]
        /\ proc'[p].pc = "unblock" /\ proc'[p].h = n /\ proc'[p].todo = proc[p].todo \ {n}
        /\ proc'[p].key = proc[p].key
    BY <1>2 DEF TypeOK, ProcState
  <2>4. ASSUME NEW q \in Procs PROVE (CallInv(q) /\ LockInv(q))'
    BY <1>1, <1>2, <2>1, <2>3
  <2>5. ASSUME PutApart' PROVE GroupSafe'
    <3>1. PutApart /\ GroupSafe
      BY <2>5 DEF PutApart
    <3>2. ASSUME NEW q \in Procs PROVE DoneInv(q)'
      <4>1. CASE q = p
        BY <1>1, <2>1, <2>3, <3>1, <4>1 DEF GroupSafe, DoneInv, Spent
      <4>2. CASE q # p
        <5>1. DoneInv(q) /\ proc'[q] = proc[q]
          BY <2>3, <3>1, <4>2 DEF GroupSafe
        <5>2. \A r \in Procs : proc'[r].pc = "putDone" => proc[r].pc = "putDone" /\ proc'[r].h = proc[r].h
          BY <1>1, <2>3
        <5> QED BY <1>1, <5>1, <5>2 DEF DoneInv, Spent
      <4> QED BY <4>1, <4>2
    <3>3. ASSUME NEW h \in 1 .. created PROVE HolderInv(h)'
      <4>1. HolderInv(h) /\ (Detached(h) => Detached(h)')
        BY <1>1, <1>2, <3>1 DEF GroupSafe
      <4> QED BY <1>1, <2>3, <4>1 DEF HolderInv, Spent
    <3> QED BY <1>1, <3>1, <3>2, <3>3 DEF GroupSafe
  <2> QED BY <1>1, <1>2, <2>2, <2>4, <2>5
<1>3. ASSUME proc[p].todo = {}, holders' = [k \in Keys |-> NoHolder], Return(p)
      PROVE  BlockInv'
  <2>1. /\ proc' = [proc EXCEPT ![p] = Idle] /\ writer' = Nil /\ readers' = {}
    BY <1>1, <1>3 DEF Return
  <2>2. TypeOK' /\ MapInv'
    BY <1>1, <1>3, <2>1, ProcUpdates DEF TypeOK, MapInv, HolderOrNone
  <2>3. \A h \in 1 .. created : Detached(h)'
    BY <1>1, <1>3 DEF TypeOK
  <2>4. \A q \in Procs : q # p => proc'[q] = proc[q] /\ proc[q].pc \notin Removes
    BY <1>1, <2>1
  <2>5. proc'[p] = Idle
    BY <2>1 DEF TypeOK
  <2>6. ASSUME NEW q \in Procs PROVE (CallInv(q) /\ LockInv(q))'
    BY <1>1, <2>1, <2>3, <2>4, <2>5 DEF Idle, TypeOK
  <2>7. ASSUME PutApart' PROVE GroupSafe'
    BY <1>1, <2>1, <2>3, <2>4, <2>5, <2>7 DEF PutApart, GroupSafe, DoneInv, HolderInv, Spent, Idle
  <2> QED BY <1>1, <2>1, <2>2, <2>6, <2>7
<1> QED BY <1>2, <1>3 DEF removeAllNext

LEMMA UnblockKeeps ==
    ASSUME BlockInv, UNCHANGED ops, NEW p \in Procs, unblock(p)
    PROVE  BlockInv'
<1> USE GroupAssumption DEF BlockInv, Idle, Puts, Removes, CallInv, LockInv, Detached
<1>1. TypeOK'
  <2> HIDE DEF Idle
  <2>1. {"removeAll", "unblockDone"} \subseteq ProcSteps
    BY DEF ProcSteps
  <2>2. \/ proc' = [proc EXCEPT ![p] = Idle]
        \/ proc' = [proc EXCEPT ![p].pc = "removeAll"]
        \/ proc' = [proc EXCEPT ![p].pc = "unblockDone"]
    BY DEF unblock, AfterUnblock, Goto, Return
  <2>3. proc' \in [Procs -> ProcState]
    <3>1. /\ [proc EXCEPT ![p] = Idle] \in [Procs -> ProcState]
          /\ [proc EXCEPT ![p].pc = "removeAll"] \in [Procs -> ProcState]
          /\ [proc EXCEPT ![p].pc = "unblockDone"] \in [Procs -> ProcState]
      BY <2>1, ProcUpdates
    <3> QED BY <2>2, <3>1
  <2> QED BY <2>3 DEF TypeOK, unblock, AfterUnblock, Goto, Return
<1>2. MapInv'
  BY DEF TypeOK, ProcState, MapInv, unblock, AfterUnblock, Goto, Return
<1>3. ASSUME NEW q \in Procs PROVE CallInv(q)'
  BY DEF TypeOK, ProcState, MapInv, unblock, AfterUnblock, Goto, Return
<1>4. ASSUME NEW q \in Procs PROVE LockInv(q)'
  BY DEF TypeOK, ProcState, ProcSteps, unblock, AfterUnblock, Goto, Return
<1>5. (writer # Nil => readers = {})'
  BY DEF TypeOK, ProcState, ProcSteps, unblock, AfterUnblock, Goto, Return
<1>6. ASSUME PutApart' PROVE GroupSafe'
  <2>1. PutApart /\ GroupSafe
    BY <1>6 DEF PutApart
  <2>2. ASSUME NEW q \in Procs PROVE DoneInv(q)'
    BY <1>6, <2>1 DEF TypeOK, ProcState, MapInv, GroupSafe, DoneInv, HolderInv, Spent, unblock, AfterUnblock, Goto, Return
  <2>3. ASSUME NEW h \in 1 .. created' PROVE HolderInv(h)'
    BY <1>6, <2>1 DEF TypeOK, ProcState, MapInv, GroupSafe, DoneInv, HolderInv, Spent, unblock, AfterUnblock, Goto, Return
  <2>4. ~panicked'
    BY <1>6, <2>1 DEF GroupSafe, DoneInv, HolderInv, Spent, unblock, AfterUnblock, Goto, Return
  <2> QED BY <2>2, <2>3, <2>4 DEF GroupSafe
<1> QED BY <1>1, <1>2, <1>3, <1>4, <1>5, <1>6

LEMMA UnblockDoneKeeps ==
    ASSUME BlockInv, UNCHANGED ops, NEW p \in Procs, unblockDone(p)
    PROVE  BlockInv'
<1> USE GroupAssumption DEF BlockInv, Idle, Puts, Removes, CallInv, LockInv, Detached
<1>1. TypeOK'
  <2> HIDE DEF Idle
  <2>1. proc[p].h \in Holders /\ "removeAll" \in ProcSteps
    BY DEF TypeOK, ProcState, ProcSteps, unblockDone, Holders
  <2>2. proc' \in [Procs -> ProcState]
    <3>1. \/ proc' = [proc EXCEPT ![p] = Idle]
          \/ proc' = [proc EXCEPT ![p].pc = "removeAll"]
      BY DEF unblockDone, AfterUnblock, Goto, Return
    <3>2. /\ [proc EXCEPT ![p] = Idle] \in [Procs -> ProcState]
          /\ [proc EXCEPT ![p].pc = "removeAll"] \in [Procs -> ProcState]
      BY <2>1, ProcUpdates
    <3> QED BY <3>1, <3>2
  <2>3. holder' \in [Holders -> HolderState]
    BY <2>1, HolderUpdates DEF unblockDone
  <2>4. panicked' \in BOOLEAN
    BY DEF unblockDone
  <2> QED BY <2>2, <2>3, <2>4 DEF TypeOK, unblockDone, AfterUnblock, Goto, Return
<1>2. MapInv'
  BY DEF TypeOK, ProcState, MapInv, unblockDone, AfterUnblock, Goto, Return
<1>3. ASSUME NEW q \in Procs PROVE CallInv(q)'
  BY DEF TypeOK, ProcState, MapInv, unblockDone, AfterUnblock, Goto, Return
<1>4. ASSUME NEW q \in Procs PROVE LockInv(q)'
  BY DEF TypeOK, ProcState, ProcSteps, unblockDone, AfterUnblock, Goto, Return
<1>5. (writer # Nil => readers = {})'
  BY DEF TypeOK, ProcState, ProcSteps, unblockDone, AfterUnblock, Goto, Return
<1>6. ASSUME PutApart' PROVE GroupSafe'
  <2>1. PutApart /\ GroupSafe
    BY <1>6 DEF PutApart
  <2>2. ASSUME NEW q \in Procs PROVE DoneInv(q)'
    BY <1>6, <2>1 DEF TypeOK, ProcState, MapInv, GroupSafe, DoneInv, HolderInv, Spent, unblockDone, AfterUnblock, Goto, Return
  <2>3. ASSUME NEW h \in 1 .. created' PROVE HolderInv(h)'
    <3> DEFINE n == proc[p].h
    <3>1. /\ proc[p].pc = "unblockDone" /\ h \in 1 .. created /\ n \in 1 .. created /\ n \in Holders /\ h \in Holders
          /\ UNCHANGED <<holders, created>> /\ holder' = [holder EXCEPT ![n].wg = @ - 1]
      BY DEF unblockDone, TypeOK, Holders
    <3>2. HolderInv(h) /\ DoneInv(p)
      BY <2>1, <3>1 DEF GroupSafe
    <3>3. \A q \in Procs : q # p => proc'[q] = proc[q] /\ proc[q].pc \notin Removes
      BY <3>1 DEF unblockDone, AfterUnblock, Goto, Return, TypeOK
    <3>4. \/ proc'[p].pc = "removeAll" /\ proc[p].key = Nil /\ proc'[p].key = Nil
          \/ proc'[p].pc = "idle" /\ proc[p].key # Nil /\ Detached(n)
      BY <3>1 DEF unblockDone, AfterUnblock, Goto, Return, TypeOK, ProcState
    <3>5. \A q \in Procs : proc[q].pc \notin Puts
      BY <2>1, <3>1 DEF PutApart, TypeOK
    <3>6. Detached(h)' <=> Detached(h)
      BY <3>1
    <3>7. CASE h = n
      <4>1. ~holder'[h].hasResult
        BY <3>1, <3>2, <3>7 DEF DoneInv, TypeOK, HolderState
      <4> QED BY <3>3, <3>4, <3>5, <3>6, <3>7, <4>1 DEF HolderInv, Spent
    <3>8. CASE h # n
      <4>1. holder'[h] = holder[h]
        BY <3>1, <3>8 DEF TypeOK
      <4>2. Spent(h) /\ ~Detached(h) => proc[p].key = Nil
        BY <3>2, <3>3 DEF HolderInv
      <4>3. Spent(h) /\ ~Detached(h) => proc'[p].pc = "removeAll" /\ proc'[p].key = Nil
        BY <3>1, <3>4, <4>2
      <4> QED BY <3>1, <3>2, <3>3, <3>4, <3>5, <3>6, <3>8, <4>1, <4>3 DEF HolderInv, Spent
    <3> QED BY <3>7, <3>8
  <2>4. ~panicked'
    <3>1. ~(holder[proc[p].h].wg <= 0)
      BY <2>1 DEF TypeOK, GroupSafe, DoneInv, Spent, unblockDone
    <3> QED BY <3>1 DEF unblockDone
  <2> QED BY <2>2, <2>3, <2>4 DEF GroupSafe
<1> QED BY <1>1, <1>2, <1>3, <1>4, <1>5, <1>6

-----------------------------------------------------------------------------
LEMMA BlockInvInit == Init => BlockInv
<1> SUFFICES ASSUME Init PROVE BlockInv
  OBVIOUS
<1>1. TypeOK
  <2>1. Idle \in ProcState /\ NewHolder \in HolderState
    BY DEF Idle, ProcState, ProcSteps, HolderOrNone, NewHolder, HolderState
  <2>2. panicked \in BOOLEAN
    BY Zenon DEF Init
  <2> QED BY <2>1, <2>2, GroupAssumption DEF Init, TypeOK, HolderOrNone
<1>2. MapInv /\ \A p \in Procs : CallInv(p) /\ LockInv(p)
  BY GroupAssumption DEF Init, MapInv, CallInv, LockInv, Idle, Puts, Removes
<1>3. GroupSafe
  <2>1. ~panicked /\ created = 0 /\ 1 .. created = {}
    BY DEF Init
  <2>2. \A p \in Procs : DoneInv(p)
    BY DEF Init, DoneInv, Idle, Removes
  <2> QED BY <2>1, <2>2 DEF GroupSafe
<1> QED BY <1>1, <1>2, <1>3 DEF Init, BlockInv

\* The invariant of a BlockGroup is inductive, whatever methods its callers use.
THEOREM BlockInvariant == Spec => []BlockInv
<1>1. BlockInv /\ [Next]_vars => BlockInv'
  <2> SUFFICES ASSUME BlockInv, [Next]_vars PROVE BlockInv'
    OBVIOUS
  <2>1. ASSUME NEW p \in Procs, UNCHANGED ops, call(p) PROVE BlockInv'
    BY <2>1, GetLookKeeps, RemoveKeeps, PutLookKeeps, PutIfExistKeeps, RemoveAllKeeps DEF call
  <2>2. ASSUME NEW p \in Procs, UNCHANGED ops, step(p) PROVE BlockInv'
    BY <2>2, GetCreateKeeps, GetReturnKeeps, PutSlowKeeps, PutResultKeeps, PutSwapKeeps, PutDoneKeeps,
       RemoveAllNextKeeps, UnblockKeeps, UnblockDoneKeeps DEF step
  <2>3. CASE UNCHANGED vars
    <3>1. UNCHANGED <<holders, created, holder, proc, writer, readers, panicked, ops>>
      BY <2>3 DEF vars
    <3> QED BY <3>1 DEF BlockInv, TypeOK, MapInv, CallInv, LockInv, Detached, PutApart, GroupSafe, DoneInv,
                        HolderInv, Spent
  <2> QED BY <2>1, <2>2, <2>3 DEF Next
<1> QED BY <1>1, BlockInvInit, PTL DEF Spec

\* As long as Put is not used together with removals, the WaitGroup of a holder is
\* released once, for any number of goroutines, keys and holders.
THEOREM HoldersReleasedOnceIfApart == Spec => [](PutApart => HoldersReleasedOnce)
<1>1. BlockInv => (PutApart => HoldersReleasedOnce)
  <2> SUFFICES ASSUME BlockInv, PutApart PROVE HoldersReleasedOnce
    OBVIOUS
  <2>1. TypeOK /\ NoPanic
    BY DEF BlockInv, GroupSafe, NoPanic
  <2>2. ASSUME NEW h \in 1 .. created, ~Detached(h), writer = Nil PROVE ~Spent(h)
    BY <2>2, GroupAssumption DEF BlockInv, GroupSafe, HolderInv, LockInv, TypeOK
  <2>3. ReleasedOnce
    BY <2>2 DEF BlockInv, GroupSafe, HolderInv, Spent, ReleasedOnce
  <2> QED BY <2>1, <2>3 DEF HoldersReleasedOnce
<1> QED BY <1>1, BlockInvariant, PTL
=============================================================================
