--------------------------- MODULE TimerClockProofs ---------------------------
(***************************************************************************)
(* Proofs about TimerExecutor, and about when a task of its wheel fires in *)
(* real time (TimerClock), for any number of keys, objects and buckets,    *)
(* any period and any set of delays.                                       *)
(***************************************************************************)
EXTENDS TimerClock, TLAPS

-----------------------------------------------------------------------------
(* Arithmetic of the wheel *)

\* Division with remainder, as the provers need it.
LEMMA DivModFact ==
    ASSUME NEW n \in Nat \ {0}, NEW a \in Int
    PROVE  /\ a \div n \in Int
           /\ a % n \in 0 .. n-1
           /\ a = n * (a \div n) + (a % n)
OBVIOUS

\* The number of steps and rounds of a delay is a natural number.
LEMMA DivNat ==
    ASSUME NEW n \in Nat \ {0}, NEW a \in Nat
    PROVE  a \div n \in Nat
OBVIOUS

\* A remainder is determined by any way to write a number as n * q + r.
LEMMA ModUnique ==
    ASSUME NEW n \in Nat \ {0}, NEW q \in Int, NEW r \in 0 .. n-1
    PROVE  (n * q + r) % n = r
OBVIOUS

\* The distance from bucket c to bucket b in the direction the wheel turns.
LEMMA Distance ==
    ASSUME NEW n \in Nat \ {0}, NEW b \in 0 .. n-1, NEW c \in 0 .. n-1
    PROVE  (b - c + n) % n = IF b >= c THEN b - c ELSE b - c + n
<1>1. CASE b >= c
  <2>1. b - c + n = n * 1 + (b - c) /\ b - c \in 0 .. n-1
    BY <1>1
  <2>2. (n * 1 + (b - c)) % n = b - c
    BY <2>1, ModUnique
  <2> QED BY <1>1, <2>1, <2>2
<1>2. CASE b < c
  <2>1. b - c + n = n * 0 + (b - c + n) /\ b - c + n \in 0 .. n-1
    BY <1>2
  <2>2. (n * 0 + (b - c + n)) % n = b - c + n
    BY <2>1, ModUnique
  <2> QED BY <1>2, <2>1, <2>2
<1> QED BY <1>1, <1>2

\* resetTaskPosition: the bucket and the round chosen for a number of steps are
\* exactly that many ticks away.
LEMMA PositionIsSteps ==
    ASSUME NEW n \in Nat \ {0}, NEW a \in Nat, NEW c \in 0 .. n-1
    PROVE  /\ (a + c) % n \in 0 .. n-1
           /\ ((((a + c) % n) - c + n) % n) + (a \div n) * n = a
<1> DEFINE q == a \div n
           m == a % n
           b == (a + c) % n
<1>1. q \in Int /\ m \in 0 .. n-1 /\ a = n * q + m
  BY DivModFact
<1> HIDE DEF q, m
<1>2. b = IF m + c < n THEN m + c ELSE m + c - n
  <2>1. CASE m + c < n
    <3>1. a + c = n * q + (m + c) /\ m + c \in 0 .. n-1
      BY <1>1, <2>1
    <3> QED BY <3>1, <1>1, <2>1, ModUnique
  <2>2. CASE m + c >= n
    <3>1. a + c = n * (q + 1) + (m + c - n) /\ m + c - n \in 0 .. n-1 /\ q + 1 \in Int
      BY <1>1, <2>2
    <3>2. (n * (q + 1) + (m + c - n)) % n = m + c - n
      BY <3>1, ModUnique
    <3> QED BY <3>1, <3>2, <1>1, <2>2
  <2> QED BY <2>1, <2>2, <1>1
<1>3. b \in 0 .. n-1
  BY <1>1, <1>2
<1> HIDE DEF b
<1>4. (b - c + n) % n = m
  BY <1>1, <1>2, <1>3, Distance
<1>5. ((b - c + n) % n) + q * n = a
  BY <1>1, <1>4
<1> QED BY <1>3, <1>5 DEF b, q
-----------------------------------------------------------------------------
(* The inductive invariant *)

OwnedBy(r, id) == id \in r.todo \/ r.reput = id

\* A task of the wheel has the delay it was put with.
WheelDelays == \A id \in Ids : InWheel(id) => heap[id].delay \in Delays

\* A task with a runner is a real task that is not marked removed, belongs to one
\* runner, and is either still to be handled or being put again.
RunnersConsistent ==
    /\ \A r \in runners, id \in Ids : OwnedBy(r, id) =>
          heap[id].key \in Keys /\ heap[id].delay \in Delays /\ ~heap[id].removed
    /\ \A r, s \in runners, id \in Ids : OwnedBy(r, id) /\ OwnedBy(s, id) => r = s
    /\ \A r \in runners : r.reput \notin r.todo

\* Nothing is handed over before run() has returned, and what was is in the wheel;
\* Close returns only after run() has.
CloseConsistent ==
    /\ handedOver # {} => runDone
    /\ \A id \in handedOver : InWheel(id)
    /\ closer = "returned" => runDone

Inv == /\ TypeOK
       /\ BucketsConsistent
       /\ IndexConsistent
       /\ WheelDelays
       /\ RunnersConsistent
       /\ WheelOnSchedule
       /\ CloseConsistent

-----------------------------------------------------------------------------
\* Where a put task lands.
LEMMA PutPosition ==
    ASSUME TypeOK, NEW d \in Delays
    PROVE  /\ BucketFor(d) \in Idx
           /\ RoundFor(d) \in Nat
           /\ ((BucketFor(d) - cur + N) % N) + RoundFor(d) * N = Steps(d)
<1>1. d \in Nat /\ Period \in Nat \ {0} /\ N \in Nat \ {0} /\ cur \in 0 .. N-1
  BY WheelAssumption DEF TypeOK, Idx
<1>2. Steps(d) \in Nat
  BY <1>1, DivNat DEF Steps
<1>3. RoundFor(d) \in Nat
  BY <1>1, <1>2, DivNat DEF RoundFor
<1> QED BY <1>1, <1>2, <1>3, PositionIsSteps DEF BucketFor, RoundFor, Idx

\* The record of an object that is garbage is well typed.
LEMMA BlankType == Blank \in TaskObject
BY WheelAssumption DEF Blank, TaskObject, Idx

\* MarkRemoved changes the flag of at most one object, the key's in e.tasks.
LEMMA MarkRemovedType ==
    ASSUME TypeOK, NEW k \in Keys
    PROVE  /\ MarkRemoved(k) \in [Ids -> TaskObject]
           /\ \A i \in Ids : /\ MarkRemoved(k)[i].key = heap[i].key
                             /\ MarkRemoved(k)[i].delay = heap[i].delay
                             /\ MarkRemoved(k)[i].bucketIdx = heap[i].bucketIdx
                             /\ MarkRemoved(k)[i].round = heap[i].round
                             /\ MarkRemoved(k)[i].waited = heap[i].waited
                             /\ heap[i].removed => MarkRemoved(k)[i].removed
                             /\ i # tasks[k] => MarkRemoved(k)[i] = heap[i]
<1>1. ASSUME NEW i \in Ids
      PROVE  /\ MarkRemoved(k)[i] \in TaskObject
             /\ MarkRemoved(k)[i].key = heap[i].key
             /\ MarkRemoved(k)[i].delay = heap[i].delay
             /\ MarkRemoved(k)[i].bucketIdx = heap[i].bucketIdx
             /\ MarkRemoved(k)[i].round = heap[i].round
             /\ MarkRemoved(k)[i].waited = heap[i].waited
             /\ heap[i].removed => MarkRemoved(k)[i].removed
             /\ i # tasks[k] => MarkRemoved(k)[i] = heap[i]
  <2>1. heap[i] \in TaskObject
    BY DEF TypeOK
  <2>2. MarkRemoved(k)[i] = IF i = tasks[k] THEN [heap[i] EXCEPT !.removed = TRUE] ELSE heap[i]
    BY DEF MarkRemoved
  <2> QED BY <2>1, <2>2 DEF TaskObject
<1> QED BY <1>1 DEF MarkRemoved

\* What a put does to the state, for a task that was not in the wheel.
LEMMA PutPreserves ==
    ASSUME Inv, ~runDone, NEW id \in Ids, NEW k \in Keys, NEW d \in Delays, NEW c \in BOOLEAN,
           ~InWheel(id), ~InTodo(id)', ~InReput(id)',
           \A r \in runners' : \A i \in Ids : OwnedBy(r, i) => \E s \in runners : OwnedBy(s, i),
           runners' \in SUBSET Runner,
           onPut(id, k, d, c)
    PROVE  /\ TypeOK'
           /\ BucketsConsistent'
           /\ IndexConsistent'
           /\ WheelDelays'
           /\ WheelOnSchedule'
           /\ CloseConsistent'
           /\ \A r \in runners' : \A i \in Ids : OwnedBy(r, i) => heap'[i] = heap[i]
<1> DEFINE b == BucketFor(d)
           new == [key |-> k, delay |-> d, bucketIdx |-> b, round |-> RoundFor(d),
                   removed |-> FALSE, cyclic |-> c, waited |-> 0, cancelled |-> FALSE]
<1>1. /\ b \in Idx
      /\ RoundFor(d) \in Nat
      /\ ((b - cur + N) % N) + RoundFor(d) * N = Steps(d)
  BY PutPosition DEF Inv
<1> HIDE DEF b
<1>2. new \in TaskObject
  BY <1>1 DEF TaskObject
<1>3. /\ heap' = [i \in Ids |-> IF i = id THEN new
                                ELSE IF i = buckets[b][k] THEN Blank
                                ELSE MarkRemoved(k)[i]]
      /\ tasks' = [tasks EXCEPT ![k] = id]
      /\ buckets' = [buckets EXCEPT ![b] = [@ EXCEPT ![k] = id]]
      /\ UNCHANGED <<cur, onClosedSet, closeDone, runDone, closer, handedOver>>
  BY DEF onPut, b
<1> HIDE DEF new
<1>4. heap'[id] = new
  BY <1>3
<1>5. /\ buckets'[b][k] = id
      /\ \A x \in Idx, y \in Keys : (x # b \/ y # k) => buckets'[x][y] = buckets[x][y]
      /\ buckets' \in [Idx -> [Keys -> IdOrNone]]
  BY <1>1, <1>3 DEF Inv, TypeOK, IdOrNone
<1>6. /\ tasks'[k] = id
      /\ \A y \in Keys \ {k} : tasks'[y] = tasks[y]
      /\ tasks' \in [Keys -> IdOrNone]
  BY <1>3 DEF Inv, TypeOK, IdOrNone
<1>7. TypeOK'
  BY <1>2, <1>3, <1>5, <1>6, BlankType, MarkRemovedType DEF Inv, TypeOK
\* Objects other than the new one keep their place, unless they were overwritten.
<1>8. ASSUME NEW x \in Idx, NEW y \in Keys, x # b \/ y # k, buckets[x][y] # NoTask
      PROVE  LET i == buckets[x][y]
             IN  i \in Ids /\ i # id /\ heap'[i] = MarkRemoved(k)[i]
  <2> DEFINE i == buckets[x][y]
  <2>1. i \in Ids /\ heap[i].key = y /\ heap[i].bucketIdx = x
    BY <1>8, WheelAssumption DEF Inv, TypeOK, BucketsConsistent, IdOrNone
  <2>2. i # id
    BY DEF InWheel
  <2>3. i # buckets[b][k]
    <3> SUFFICES ASSUME i = buckets[b][k] PROVE FALSE
      OBVIOUS
    <3>1. heap[i].key = k /\ heap[i].bucketIdx = b
      BY <1>1, <2>1 DEF Inv, BucketsConsistent
    <3> QED BY <3>1, <2>1, <1>8
  <2> QED BY <2>1, <2>2, <2>3, <1>3
<1>9. BucketsConsistent'
  <2> SUFFICES ASSUME NEW x \in Idx, NEW y \in Keys, NEW i \in Ids, buckets'[x][y] = i
               PROVE  /\ heap'[i].key = y
                      /\ heap'[i].bucketIdx = x
                      /\ ~InTodo(i)'
                      /\ ~InReput(i)'
    BY DEF BucketsConsistent
  <2>1. CASE x = b /\ y = k
    BY <2>1, <1>4, <1>5 DEF new
  <2>2. CASE x # b \/ y # k
    <3>0. buckets[x][y] = i /\ i # NoTask
      BY <2>2, <1>5, WheelAssumption
    <3>1. heap'[i].key = y /\ heap'[i].bucketIdx = x
      BY <2>2, <3>0, <1>8, MarkRemovedType DEF Inv, BucketsConsistent
    <3>2. ~InTodo(i) /\ ~InReput(i)
      BY <3>0 DEF Inv, BucketsConsistent
    <3>3. ~InTodo(i)' /\ ~InReput(i)'
      BY <3>2 DEF InTodo, InReput, OwnedBy
    <3> QED BY <3>1, <3>3
  <2> QED BY <2>1, <2>2
<1>10. IndexConsistent'
  <2> SUFFICES ASSUME NEW y \in Keys, NEW i \in Ids, tasks'[y] = i
               PROVE  buckets'[heap'[i].bucketIdx][y] = i
    BY DEF IndexConsistent
  <2>1. CASE y = k
    BY <2>1, <1>4, <1>5, <1>6 DEF new
  <2>2. CASE y # k
    <3>1. buckets[heap[i].bucketIdx][y] = i /\ heap[i].bucketIdx \in Idx /\ i # NoTask
      BY <2>2, <1>6, WheelAssumption DEF Inv, IndexConsistent, TypeOK, TaskObject
    <3>2. heap'[i] = MarkRemoved(k)[i]
      BY <1>8, <3>1, <2>2
    <3>3. heap'[i].bucketIdx = heap[i].bucketIdx
      BY <3>2, MarkRemovedType DEF Inv
    <3> QED BY <2>2, <1>5, <3>1, <3>3
  <2> QED BY <2>1, <2>2
<1>11. ASSUME NEW i \in Ids, InWheel(i)', i # id
       PROVE  InWheel(i) /\ heap'[i] = MarkRemoved(k)[i]
  <2> PICK x \in Idx, y \in Keys : buckets'[x][y] = i
    BY <1>11 DEF InWheel
  <2>1. x # b \/ y # k
    BY <1>5, <1>11
  <2>2. buckets[x][y] = i /\ i # NoTask
    BY <2>1, <1>5, WheelAssumption
  <2> QED BY <2>1, <2>2, <1>8 DEF InWheel
<1>12. WheelDelays'
  <2> SUFFICES ASSUME NEW i \in Ids, InWheel(i)' PROVE heap'[i].delay \in Delays
    BY DEF WheelDelays
  <2>1. CASE i = id
    BY <2>1, <1>4 DEF new
  <2>2. CASE i # id
    BY <2>2, <1>11, MarkRemovedType DEF Inv, WheelDelays
  <2> QED BY <2>1, <2>2
<1>13. WheelOnSchedule'
  <2> SUFFICES ASSUME NEW i \in Ids, Pending(i)'
               PROVE  heap'[i].waited + TicksLeft(i)' = Steps(heap'[i].delay)
    BY DEF WheelOnSchedule, Steps
  <2>1. CASE i = id
    <3>1. cur' = cur /\ heap'[i].waited = 0 /\ heap'[i].bucketIdx = b
          /\ heap'[i].round = RoundFor(d) /\ heap'[i].delay = d
      BY <2>1, <1>3, <1>4 DEF new
    <3>2. TicksLeft(i)' = Steps(d)
      BY <3>1, <1>1 DEF TicksLeft
    <3>3. Steps(d) \in Nat
      BY DivNat, WheelAssumption DEF Steps
    <3> QED BY <3>1, <3>2, <3>3 DEF Steps
  <2>2. CASE i # id
    <3>1. InWheel(i) /\ heap'[i] = MarkRemoved(k)[i] /\ ~heap'[i].removed
      BY <2>2, <1>11 DEF Pending
    <3>2. Pending(i)
      BY <3>1, MarkRemovedType DEF Inv, Pending, TypeOK, TaskObject
    <3>3. /\ cur' = cur
          /\ heap'[i].waited = heap[i].waited
          /\ heap'[i].bucketIdx = heap[i].bucketIdx
          /\ heap'[i].round = heap[i].round
          /\ heap'[i].delay = heap[i].delay
      BY <3>1, <1>3, MarkRemovedType DEF Inv
    <3> QED BY <3>2, <3>3 DEF Inv, WheelOnSchedule, TicksLeft, Steps
  <2> QED BY <2>1, <2>2
<1>14. CloseConsistent'
  BY <1>3 DEF Inv, CloseConsistent
<1>15. ASSUME NEW r \in runners', NEW i \in Ids, OwnedBy(r, i)
       PROVE  heap'[i] = heap[i]
  <2>1. i # id
    BY <1>15 DEF OwnedBy, InTodo, InReput
  <2>2. InTodo(i) \/ InReput(i)
    BY <1>15 DEF OwnedBy, InTodo, InReput
  <2>3. i # buckets[b][k]
    BY <2>2, <1>1, WheelAssumption DEF Inv, BucketsConsistent
  <2>4. i # tasks[k]
    <3> SUFFICES ASSUME i = tasks[k] PROVE FALSE
      OBVIOUS
    <3>1. tasks[k] # NoTask
      BY WheelAssumption
    <3>2. heap[i].bucketIdx \in Idx /\ buckets[heap[i].bucketIdx][k] = i
      BY <3>1 DEF Inv, IndexConsistent, TypeOK, TaskObject
    <3> QED BY <3>1, <3>2, <2>2 DEF Inv, BucketsConsistent
  <2> QED BY <2>1, <2>3, <2>4, <1>3, MarkRemovedType DEF Inv
<1> QED BY <1>7, <1>9, <1>10, <1>12, <1>13, <1>14, <1>15

-----------------------------------------------------------------------------
\* A tick takes one tick off what a task it leaves in the wheel has to wait: from
\* the current bucket a whole turn remains, from any other the distance shrinks.
LEMMA TickDistance ==
    ASSUME TypeOK, NEW b \in Idx, NEW n \in Nat
    PROVE  /\ NextIdx \in Idx
           /\ b # cur => ((b - NextIdx + N) % N) + n * N + 1 = ((b - cur + N) % N) + n * N
           /\ (b = cur /\ n > 0) =>
                 ((b - NextIdx + N) % N) + (n - 1) * N + 1 = ((b - cur + N) % N) + n * N
<1>1. N \in Nat \ {0} /\ b \in 0 .. N-1 /\ cur \in 0 .. N-1
  BY WheelAssumption DEF TypeOK, Idx
<1>2. NextIdx \in 0 .. N-1
  BY <1>1 DEF NextIdx
<1>3. (b - cur + N) % N = IF b >= cur THEN b - cur ELSE b - cur + N
  BY <1>1, Distance
<1>4. (b - NextIdx + N) % N = IF b >= NextIdx THEN b - NextIdx ELSE b - NextIdx + N
  BY <1>1, <1>2, Distance
<1>5. ASSUME b # cur
      PROVE  ((b - NextIdx + N) % N) + 1 = (b - cur + N) % N
  BY <1>1, <1>3, <1>4, <1>5 DEF NextIdx
<1>6. ASSUME b = cur
      PROVE  (b - NextIdx + N) % N = N - 1 /\ (b - cur + N) % N = 0
  BY <1>1, <1>3, <1>4, <1>6 DEF NextIdx
<1>7. n * N \in Int /\ (n - 1) * N = n * N - N
  BY <1>1
<1>8. (b - NextIdx + N) % N \in Int /\ (b - cur + N) % N \in Int
  BY <1>1, <1>2, <1>3, <1>4
<1> QED BY <1>1, <1>2, <1>5, <1>6, <1>7, <1>8 DEF Idx

\* What a tick changes in a task that stays.
LEMMA TickedRecord ==
    ASSUME NEW t \in TaskObject
    PROVE  /\ Waited(t) \in TaskObject
           /\ t.round > 0 => NextRound(t) \in TaskObject
           /\ Waited(t).key = t.key /\ NextRound(t).key = t.key
           /\ Waited(t).delay = t.delay /\ NextRound(t).delay = t.delay
           /\ Waited(t).bucketIdx = t.bucketIdx /\ NextRound(t).bucketIdx = t.bucketIdx
           /\ Waited(t).removed = t.removed /\ NextRound(t).removed = t.removed
           /\ Waited(t).waited = t.waited + 1 /\ NextRound(t).waited = t.waited + 1
           /\ Waited(t).round = t.round /\ NextRound(t).round = t.round - 1
<1>1. Waited(t).key = t.key /\ NextRound(t).key = t.key
  BY DEF TaskObject, Waited, NextRound
<1>2. Waited(t).delay = t.delay /\ NextRound(t).delay = t.delay
  BY DEF TaskObject, Waited, NextRound
<1>3. Waited(t).bucketIdx = t.bucketIdx /\ NextRound(t).bucketIdx = t.bucketIdx
  BY DEF TaskObject, Waited, NextRound
<1>4. Waited(t).removed = t.removed /\ NextRound(t).removed = t.removed
  BY DEF TaskObject, Waited, NextRound
<1>5. Waited(t).waited = t.waited + 1 /\ NextRound(t).waited = t.waited + 1
  BY DEF TaskObject, Waited, NextRound
<1>6. Waited(t).round = t.round /\ NextRound(t).round = t.round - 1
  BY DEF TaskObject, Waited, NextRound
<1>7. Waited(t) \in TaskObject
  BY DEF TaskObject, Waited
<1>8. ASSUME t.round > 0 PROVE NextRound(t) \in TaskObject
  <2>1. t.round - 1 \in Nat /\ t.waited + 1 \in Nat
    BY <1>8 DEF TaskObject
  <2>2. \A n, w \in Nat : [t EXCEPT !.round = n, !.waited = w] \in TaskObject
    BY DEF TaskObject
  <2> QED BY <2>1, <2>2 DEF NextRound
<1> QED BY <1>1, <1>2, <1>3, <1>4, <1>5, <1>6, <1>7, <1>8

\* A tick preserves the invariant: due and removed tasks leave both maps, the
\* others come one tick nearer.
LEMMA TickPreserves ==
    ASSUME Inv, onTick
    PROVE  /\ Inv'
           /\ \A id \in Ids : (~InTodo(id) /\ InTodo(id)') =>
                 heap[id].waited = Steps(heap[id].delay)
<1> DEFINE due == DueIn(cur)
           gone == RemovedIn(cur) \cup due
\* No task is both removed and due.
<1>0. RemovedIn(cur) \ due = RemovedIn(cur)
  BY DEF RemovedIn, DueIn
<1>1. /\ ~runDone
      /\ tasks' = IndexWithout(gone)
      /\ buckets' = BucketsWithout(gone)
      /\ heap' = [id \in Ids |->
                      IF id \in RemovedIn(cur) THEN Blank
                      ELSE IF id \in LaterIn(cur) THEN NextRound(heap[id])
                      ELSE IF InWheel(id) THEN Waited(heap[id])
                      ELSE heap[id]]
      /\ cur' = NextIdx
      /\ UNCHANGED <<onClosedSet, closeDone, runDone, closer, handedOver>>
  BY <1>0 DEF onTick, Ticking
<1>1r. \A r \in runners' : r \in runners \/ r = [todo |-> due, reput |-> NoTask]
  BY DEF onTick, Ticking
<1>2. cur \in Idx /\ NextIdx \in Idx
  BY TickDistance DEF Inv, TypeOK
\* The tasks a tick takes out are those of the current bucket that are not later ones.
<1>3. ASSUME NEW i \in Ids
      PROVE  i \in gone <=> \E y \in Keys : /\ buckets[cur][y] = i
                                            /\ heap[i].key = y
                                            /\ heap[i].bucketIdx = cur
                                            /\ heap[i].removed \/ heap[i].round = 0
  BY <1>2 DEF Inv, BucketsConsistent, RemovedIn, DueIn, InBucket, TypeOK, TaskObject
<1>4. gone \subseteq Ids /\ due \subseteq gone
  BY DEF RemovedIn, DueIn, InBucket
<1>5. \A i \in due : i \in Ids /\ InWheel(i) /\ ~heap[i].removed /\ heap[i].round = 0
  BY <1>2 DEF DueIn, InBucket, InWheel
<1>6. \A i \in RemovedIn(cur) : InWheel(i) /\ heap[i].removed
  BY <1>2 DEF RemovedIn, InBucket, InWheel
<1>7. \A i \in LaterIn(cur) : heap[i].round > 0 /\ InWheel(i)
  BY <1>2 DEF LaterIn, InBucket, InWheel
<1> HIDE DEF due, gone
<1>8. ASSUME NEW x \in Idx, NEW y \in Keys, NEW i \in Ids
      PROVE  buckets'[x][y] = i <=> (buckets[x][y] = i /\ i \notin gone)
  <2>1. buckets'[x][y] = IF \E g \in gone : heap[g].bucketIdx = x /\ heap[g].key = y
                         THEN NoTask ELSE buckets[x][y]
    BY <1>1 DEF BucketsWithout
  <2>2. ASSUME NEW g \in gone, heap[g].bucketIdx = x, heap[g].key = y
        PROVE  buckets[x][y] = g
    BY <2>2, <1>3, <1>4
  <2>3. ASSUME buckets[x][y] = i, i \in gone
        PROVE  heap[i].bucketIdx = x /\ heap[i].key = y
    BY <2>3 DEF Inv, BucketsConsistent
  <2> QED BY <2>1, <2>2, <2>3, WheelAssumption
<1>9. \A i \in Ids : InWheel(i)' <=> (InWheel(i) /\ i \notin gone)
  BY <1>8 DEF InWheel
\* A task that leaves the wheel neither removed nor due keeps its record.
<1>10. ASSUME NEW i \in Ids, InWheel(i), i \notin RemovedIn(cur)
       PROVE  /\ heap'[i] \in TaskObject
              /\ heap'[i].key = heap[i].key
              /\ heap'[i].delay = heap[i].delay
              /\ heap'[i].bucketIdx = heap[i].bucketIdx
              /\ heap'[i].removed = heap[i].removed
              /\ heap'[i].waited = heap[i].waited + 1
              /\ heap'[i].round = IF i \in LaterIn(cur) THEN heap[i].round - 1 ELSE heap[i].round
  <2>1. heap[i] \in TaskObject
    BY DEF Inv, TypeOK
  <2>2. CASE i \in LaterIn(cur)
    <3>1. heap'[i] = NextRound(heap[i]) /\ heap[i].round > 0
      BY <1>1, <1>7, <1>10, <2>2
    <3> QED BY <2>1, <2>2, <3>1, TickedRecord
  <2>3. CASE i \notin LaterIn(cur)
    <3>1. heap'[i] = Waited(heap[i])
      BY <1>1, <1>10, <2>3
    <3> QED BY <2>1, <2>3, <3>1, TickedRecord
  <2> QED BY <2>2, <2>3
<1>11. \A i \in Ids : ~InWheel(i) => heap'[i] = heap[i]
  BY <1>1, <1>6, <1>7
<1>12. TypeOK'
  <2>1. tasks' \in [Keys -> IdOrNone] /\ buckets' \in [Idx -> [Keys -> IdOrNone]]
    BY <1>1 DEF IndexWithout, BucketsWithout, Inv, TypeOK, IdOrNone
  <2>2. \A i \in Ids : heap'[i] \in TaskObject
    BY <1>1, <1>10, <1>11, BlankType DEF Inv, TypeOK
  <2>3. heap' \in [Ids -> TaskObject]
    BY <1>1, <2>2
  <2>4. runners' \in SUBSET Runner
    <3>1. [todo |-> due, reput |-> NoTask] \in Runner
      BY <1>4 DEF Runner, IdOrNone
    <3>2. runners \in SUBSET Runner
      BY DEF Inv, TypeOK
    <3> QED BY <1>1r, <3>1, <3>2
  <2> QED BY <1>1, <1>2, <2>1, <2>3, <2>4 DEF Inv, TypeOK
\* Who a task is with after the tick.
<1>13. ASSUME NEW r \in runners', NEW i \in Ids, OwnedBy(r, i)
       PROVE  \/ r \in runners /\ ~InWheel(i)
              \/ r = [todo |-> due, reput |-> NoTask] /\ i \in due
  <2>1. CASE r \in runners
    <3>1. InTodo(i) \/ InReput(i)
      BY <1>13, <2>1 DEF OwnedBy, InTodo, InReput
    <3> QED BY <2>1, <3>1 DEF Inv, BucketsConsistent, InWheel
  <2>2. CASE r = [todo |-> due, reput |-> NoTask]
    BY <1>13, <2>2, WheelAssumption DEF OwnedBy
  <2> QED BY <2>1, <2>2, <1>1r
<1>14. BucketsConsistent'
  <2> SUFFICES ASSUME NEW x \in Idx, NEW y \in Keys, NEW i \in Ids, buckets'[x][y] = i
               PROVE  /\ heap'[i].key = y
                      /\ heap'[i].bucketIdx = x
                      /\ ~InTodo(i)'
                      /\ ~InReput(i)'
    BY DEF BucketsConsistent
  <2>1. buckets[x][y] = i /\ i \notin gone
    BY <1>8
  <2>2. InWheel(i) /\ i \notin due /\ i \notin RemovedIn(cur)
    BY <2>1, <1>4 DEF InWheel, gone
  <2>3. heap'[i].key = y /\ heap'[i].bucketIdx = x
    BY <2>1, <2>2, <1>10 DEF Inv, BucketsConsistent
  <2>4. ~InTodo(i)' /\ ~InReput(i)'
    BY <2>2, <1>13 DEF InTodo, InReput, OwnedBy
  <2> QED BY <2>3, <2>4
<1>15. IndexConsistent'
  <2> SUFFICES ASSUME NEW y \in Keys, NEW i \in Ids, tasks'[y] = i
               PROVE  buckets'[heap'[i].bucketIdx][y] = i
    BY DEF IndexConsistent
  <2>1. tasks[y] = i /\ ~ \E g \in gone : heap[g].key = y
    BY <1>1, WheelAssumption DEF IndexWithout
  <2>2. heap[i].bucketIdx \in Idx /\ buckets[heap[i].bucketIdx][y] = i
    BY <2>1 DEF Inv, IndexConsistent, TypeOK, TaskObject
  <2>3. InWheel(i) /\ heap[i].key = y
    BY <2>2 DEF InWheel, Inv, BucketsConsistent
  <2>4. i \notin gone
    BY <2>1, <2>3
  <2>5. heap'[i].bucketIdx = heap[i].bucketIdx
    BY <2>3, <2>4, <1>10 DEF gone
  <2> QED BY <2>2, <2>4, <2>5, <1>8
<1>16. WheelDelays'
  BY <1>9, <1>10 DEF WheelDelays, Inv, gone
<1>17. RunnersConsistent'
  <2>1. ASSUME NEW r \in runners', NEW i \in Ids, OwnedBy(r, i)
        PROVE  heap'[i].key \in Keys /\ heap'[i].delay \in Delays /\ ~heap'[i].removed
    <3>1. CASE r \in runners /\ ~InWheel(i)
      BY <2>1, <3>1, <1>11 DEF Inv, RunnersConsistent
    <3>2. CASE i \in due
      <4>1. InWheel(i) /\ ~heap[i].removed /\ i \notin RemovedIn(cur)
        BY <3>2, <1>5, <1>6
      <4>2. heap[i].key \in Keys /\ heap[i].delay \in Delays
        BY <4>1 DEF InWheel, Inv, BucketsConsistent, WheelDelays
      <4> QED BY <4>1, <4>2, <1>10
    <3> QED BY <2>1, <3>1, <3>2, <1>13
  <2>2. ASSUME NEW r \in runners', NEW t \in runners', NEW i \in Ids, OwnedBy(r, i), OwnedBy(t, i)
        PROVE  r = t
    <3>1. i \in due => InWheel(i)
      BY <1>5
    <3> QED BY <2>2, <3>1, <1>13 DEF Inv, RunnersConsistent
  <2>3. \A r \in runners' : r.reput \notin r.todo
    <3>1. [todo |-> due, reput |-> NoTask].reput \notin [todo |-> due, reput |-> NoTask].todo
      BY <1>4, WheelAssumption
    <3>2. \A r \in runners : r.reput \notin r.todo
      BY DEF Inv, RunnersConsistent
    <3> QED BY <1>1r, <3>1, <3>2
  <2> QED BY <2>1, <2>2, <2>3 DEF RunnersConsistent
<1>18. WheelOnSchedule'
  <2> SUFFICES ASSUME NEW i \in Ids, Pending(i)'
               PROVE  heap'[i].waited + TicksLeft(i)' = Steps(heap'[i].delay)
    BY DEF WheelOnSchedule, Steps
  <2>1. InWheel(i) /\ i \notin gone /\ i \notin RemovedIn(cur) /\ ~heap'[i].removed
    BY <1>9 DEF Pending, gone
  <2>2. ~heap[i].removed
    BY <2>1, <1>10
  <2>3. heap[i].waited + TicksLeft(i) = Steps(heap[i].delay)
    BY <2>1, <2>2 DEF Inv, WheelOnSchedule, Pending
  <2>4. heap[i].bucketIdx \in Idx /\ heap[i].round \in Nat /\ heap[i].waited \in Nat
    BY DEF Inv, TypeOK, TaskObject
  <2>5. i \in LaterIn(cur) <=> heap[i].bucketIdx = cur
    BY <2>1, <2>2, <2>4, <1>2, <1>3 DEF LaterIn, InBucket, InWheel, Inv, BucketsConsistent
  <2>6. heap[i].bucketIdx = cur => heap[i].round > 0
    BY <2>5, <1>7
  <2>7. TicksLeft(i)' = ((heap'[i].bucketIdx - NextIdx + N) % N) + heap'[i].round * N
    BY <1>1 DEF TicksLeft
  <2>8. /\ heap'[i].waited = heap[i].waited + 1
        /\ heap'[i].bucketIdx = heap[i].bucketIdx
        /\ heap'[i].delay = heap[i].delay
        /\ heap'[i].round = IF i \in LaterIn(cur) THEN heap[i].round - 1 ELSE heap[i].round
    BY <2>1, <1>10
  <2>9. TicksLeft(i)' + 1 = TicksLeft(i)
    <3>1. CASE heap[i].bucketIdx = cur
      BY <3>1, <2>4, <2>5, <2>6, <2>7, <2>8, TickDistance DEF TicksLeft, Inv
    <3>2. CASE heap[i].bucketIdx # cur
      BY <3>2, <2>4, <2>5, <2>7, <2>8, TickDistance DEF TicksLeft, Inv
    <3> QED BY <3>1, <3>2
  <2>10. TicksLeft(i)' \in Int
    <3> DEFINE z == heap'[i].bucketIdx - NextIdx + N
    <3>1. z \in Int /\ N \in Nat \ {0}
      BY <2>4, <2>8, <1>2, WheelAssumption DEF Idx
    <3>2. z % N \in Int
      BY <3>1, DivModFact
    <3>3. heap'[i].round \in Int
      BY <2>4, <2>8
    <3> QED BY <3>1, <3>2, <3>3, <2>7
  <2> QED BY <2>3, <2>4, <2>8, <2>9, <2>10
<1>19. CloseConsistent'
  BY <1>1 DEF Inv, CloseConsistent
<1>20. ASSUME NEW i \in Ids, ~InTodo(i), InTodo(i)'
       PROVE  heap[i].waited = Steps(heap[i].delay)
  <2>1. i \in due
    BY <1>20, <1>13 DEF InTodo, OwnedBy
  <2>2. Pending(i) /\ heap[i].round = 0 /\ heap[i].bucketIdx = cur
    BY <2>1, <1>3, <1>4, <1>5 DEF Pending
  <2>3. TicksLeft(i) = 0
    <3>1. N \in Nat \ {0} /\ cur \in 0 .. N-1 /\ cur >= cur
      BY <1>2, WheelAssumption DEF Idx
    <3>2. (cur - cur + N) % N = 0
      BY <3>1, Distance
    <3> QED BY <3>1, <3>2, <2>2 DEF TicksLeft
  <2>4. heap[i].waited \in Nat
    BY DEF Inv, TypeOK, TaskObject
  <2> QED BY <2>2, <2>3, <2>4 DEF Inv, WheelOnSchedule
<1> QED BY <1>12, <1>14, <1>15, <1>16, <1>17, <1>18, <1>19, <1>20 DEF Inv

-----------------------------------------------------------------------------
\* Replacing a runner by what is left of it keeps tasks with one runner each.
LEMMA RunnerReplaced ==
    ASSUME Inv, NEW r \in runners, NEW left \in SUBSET Runner,
           \A t \in left : /\ \A i \in Ids : OwnedBy(t, i) => OwnedBy(r, i)
                           /\ \A u \in left : t = u
                           /\ t.reput \notin t.todo,
           runners' = (runners \ {r}) \cup left
    PROVE  /\ runners' \in SUBSET Runner
           /\ \A t \in runners', i \in Ids : OwnedBy(t, i) => \E u \in runners : OwnedBy(u, i)
           /\ \A t, u \in runners', i \in Ids : OwnedBy(t, i) /\ OwnedBy(u, i) => t = u
           /\ \A t \in runners' : t.reput \notin t.todo
           /\ \A i \in Ids : (\A t \in left : ~OwnedBy(t, i)) /\ OwnedBy(r, i) =>
                 ~InTodo(i)' /\ ~InReput(i)'
<1>1. runners' \in SUBSET Runner
  BY DEF Inv, TypeOK
<1>2. \A t \in runners', i \in Ids : OwnedBy(t, i) => \E u \in runners : OwnedBy(u, i)
  OBVIOUS
<1>3. \A t, u \in runners', i \in Ids : OwnedBy(t, i) /\ OwnedBy(u, i) => t = u
  BY DEF Inv, RunnersConsistent
<1>4. \A t \in runners' : t.reput \notin t.todo
  BY DEF Inv, RunnersConsistent
<1>5. ASSUME NEW i \in Ids, \A t \in left : ~OwnedBy(t, i), OwnedBy(r, i)
      PROVE  ~InTodo(i)' /\ ~InReput(i)'
  <2>1. \A t \in runners' : ~OwnedBy(t, i)
    BY <1>5 DEF Inv, RunnersConsistent
  <2> QED BY <2>1 DEF OwnedBy, InTodo, InReput
<1> QED BY <1>1, <1>2, <1>3, <1>4, <1>5

\* What is left of a runner after the handler or after putting a task again.
LEMMA LeftOfRunner ==
    ASSUME Inv, NEW r \in runners, NEW id \in Ids
    PROVE  /\ (id \in r.todo /\ r.reput = NoTask) =>
                 /\ AfterHandler(r, id) \in SUBSET Runner
                 /\ \A t \in AfterHandler(r, id) :
                       /\ \A i \in Ids : OwnedBy(t, i) => OwnedBy(r, i)
                       /\ \A u \in AfterHandler(r, id) : t = u
                       /\ t.reput \notin t.todo
                 /\ ~heap[id].cyclic => \A t \in AfterHandler(r, id) : ~OwnedBy(t, id)
           /\ r.reput = id =>
                 /\ AfterReput(r) \in SUBSET Runner
                 /\ \A t \in AfterReput(r) :
                       /\ \A i \in Ids : OwnedBy(t, i) => OwnedBy(r, i)
                       /\ \A u \in AfterReput(r) : t = u
                       /\ t.reput \notin t.todo
                       /\ ~OwnedBy(t, id)
<1>1. r \in Runner /\ r.todo \subseteq Ids /\ r.reput \notin r.todo
  BY DEF Inv, TypeOK, RunnersConsistent, Runner
<1>2. NoTask \notin Ids
  BY WheelAssumption
<1> DEFINE mid == [todo |-> r.todo \ {id}, reput |-> id]
           rest == [todo |-> r.todo \ {id}, reput |-> NoTask]
           after == [todo |-> r.todo, reput |-> NoTask]
<1>3. mid \in Runner /\ rest \in Runner /\ after \in Runner
  BY <1>1 DEF Runner, IdOrNone
<1>4. ASSUME id \in r.todo
      PROVE  /\ \A i \in Ids : OwnedBy(mid, i) => OwnedBy(r, i)
             /\ \A i \in Ids : OwnedBy(rest, i) => OwnedBy(r, i)
             /\ mid.reput \notin mid.todo
             /\ rest.reput \notin rest.todo
             /\ ~OwnedBy(rest, id)
  BY <1>1, <1>2, <1>4 DEF OwnedBy
<1>5. ASSUME r.reput = id
      PROVE  /\ \A i \in Ids : OwnedBy(after, i) => OwnedBy(r, i)
             /\ after.reput \notin after.todo
             /\ ~OwnedBy(after, id)
  BY <1>1, <1>2, <1>5 DEF OwnedBy
<1>6. /\ AfterHandler(r, id) = {mid} \/ AfterHandler(r, id) = {rest} \/ AfterHandler(r, id) = {}
      /\ ~heap[id].cyclic => AfterHandler(r, id) \in {{rest}, {}}
      /\ AfterReput(r) = {after} \/ AfterReput(r) = {}
  BY DEF AfterHandler, AfterReput
<1> HIDE DEF mid, rest, after
<1> QED BY <1>3, <1>4, <1>5, <1>6

\* A step that leaves the wheel and its tasks alone keeps the wheel's invariants.
LEMMA WheelUntouched ==
    ASSUME Inv, UNCHANGED <<tasks, buckets, cur>>, heap' \in [Ids -> TaskObject],
           \A i \in Ids : InWheel(i) => heap'[i] = heap[i],
           \A t \in runners', i \in Ids : OwnedBy(t, i) => \E u \in runners : OwnedBy(u, i)
    PROVE  BucketsConsistent' /\ IndexConsistent' /\ WheelDelays' /\ WheelOnSchedule'
<1>1. \A i \in Ids : InWheel(i)' <=> InWheel(i)
  BY DEF InWheel
<1>2. BucketsConsistent'
  <2> SUFFICES ASSUME NEW x \in Idx, NEW y \in Keys, NEW i \in Ids, buckets'[x][y] = i
               PROVE  /\ heap'[i].key = y
                      /\ heap'[i].bucketIdx = x
                      /\ ~InTodo(i)'
                      /\ ~InReput(i)'
    BY DEF BucketsConsistent
  <2>1. InWheel(i) /\ buckets[x][y] = i
    BY DEF InWheel
  <2>2. heap'[i].key = y /\ heap'[i].bucketIdx = x
    BY <2>1 DEF Inv, BucketsConsistent
  <2>3. ~InTodo(i) /\ ~InReput(i)
    BY <2>1 DEF Inv, BucketsConsistent
  <2> QED BY <2>2, <2>3 DEF InTodo, InReput, OwnedBy
<1>3. IndexConsistent'
  <2> SUFFICES ASSUME NEW y \in Keys, NEW i \in Ids, tasks'[y] = i
               PROVE  buckets'[heap'[i].bucketIdx][y] = i
    BY DEF IndexConsistent
  <2>1. heap[i].bucketIdx \in Idx /\ buckets[heap[i].bucketIdx][y] = i
    BY DEF Inv, IndexConsistent, TypeOK, TaskObject
  <2>2. InWheel(i)
    BY <2>1 DEF InWheel
  <2> QED BY <2>1, <2>2
<1>4. WheelDelays'
  BY <1>1 DEF Inv, WheelDelays
<1>5. WheelOnSchedule'
  BY <1>1 DEF Inv, WheelOnSchedule, Pending, TicksLeft, Steps
<1> QED BY <1>2, <1>3, <1>4, <1>5

-----------------------------------------------------------------------------
(* The actions, one lemma each where more than a few facts are needed. *)

\* A task put by a caller preserves the invariant.
LEMMA PutTaskPreserves ==
    ASSUME Inv, NEW k \in Keys, NEW d \in Delays, NEW c \in CyclicFlags, PutTask(k, d, c)
    PROVE  Inv'
<1> PICK id \in Ids : ~Referenced(id) /\ onPut(id, k, d, c)
  BY DEF PutTask
<1>1. ~runDone /\ runners' = runners /\ c \in BOOLEAN
  BY WheelAssumption DEF PutTask
<1>2. ~InWheel(id) /\ ~InTodo(id)' /\ ~InReput(id)'
  BY <1>1 DEF Referenced, InTodo, InReput
<1>3. \A r \in runners' : \A i \in Ids : OwnedBy(r, i) => \E t \in runners : OwnedBy(t, i)
  BY <1>1
<1>4. runners' \in SUBSET Runner
  BY <1>1 DEF Inv, TypeOK
<1>5. /\ TypeOK' /\ BucketsConsistent' /\ IndexConsistent' /\ WheelDelays'
      /\ WheelOnSchedule' /\ CloseConsistent'
      /\ \A r \in runners' : \A i \in Ids : OwnedBy(r, i) => heap'[i] = heap[i]
  BY <1>1, <1>2, <1>3, <1>4, PutPreserves
<1>6. RunnersConsistent'
  BY <1>1, <1>5 DEF Inv, RunnersConsistent
<1> QED BY <1>5, <1>6 DEF Inv

\* A cyclic task put again by its runner preserves the invariant.
LEMMA ReputAcceptedPreserves ==
    ASSUME Inv, NEW id \in Ids, reputAccepted(id)
    PROVE  Inv'
<1> PICK r \in runners : /\ r.reput = id
                         /\ runners' = (runners \ {r}) \cup AfterReput(r)
  BY DEF reputAccepted
<1> DEFINE k == heap[id].key
           d == heap[id].delay
<1>1. ~runDone /\ onPut(id, k, d, TRUE)
  BY DEF reputAccepted
<1>2. OwnedBy(r, id)
  BY DEF OwnedBy
<1>3. k \in Keys /\ d \in Delays
  BY <1>2 DEF Inv, RunnersConsistent
<1>4. ~InWheel(id)
  BY DEF Inv, BucketsConsistent, InWheel, InReput
<1>5. /\ runners' \in SUBSET Runner
      /\ \A t \in runners', i \in Ids : OwnedBy(t, i) => \E u \in runners : OwnedBy(u, i)
      /\ \A t, u \in runners', i \in Ids : OwnedBy(t, i) /\ OwnedBy(u, i) => t = u
      /\ \A t \in runners' : t.reput \notin t.todo
      /\ ~InTodo(id)' /\ ~InReput(id)'
  <2> DEFINE left == AfterReput(r)
  <2>1. /\ left \in SUBSET Runner
        /\ \A t \in left : /\ \A i \in Ids : OwnedBy(t, i) => OwnedBy(r, i)
                           /\ \A u \in left : t = u
                           /\ t.reput \notin t.todo
        /\ \A t \in left : ~OwnedBy(t, id)
    BY LeftOfRunner
  <2>2. runners' = (runners \ {r}) \cup left
    OBVIOUS
  <2> HIDE DEF left
  <2> QED BY <1>2, <2>1, <2>2, RunnerReplaced
<1> HIDE DEF k, d
<1>6. /\ TypeOK' /\ BucketsConsistent' /\ IndexConsistent' /\ WheelDelays'
      /\ WheelOnSchedule' /\ CloseConsistent'
      /\ \A t \in runners' : \A i \in Ids : OwnedBy(t, i) => heap'[i] = heap[i]
  BY <1>1, <1>3, <1>4, <1>5, PutPreserves
<1>7. RunnersConsistent'
  BY <1>5, <1>6 DEF Inv, RunnersConsistent
<1> QED BY <1>6, <1>7 DEF Inv

\* A call of the handler preserves the invariant.
LEMMA RunHandlerPreserves ==
    ASSUME Inv, NEW id \in Ids, runHandler(id)
    PROVE  Inv'
<1> PICK r \in runners : /\ id \in r.todo
                         /\ r.reput = NoTask
                         /\ runners' = (runners \ {r}) \cup AfterHandler(r, id)
  BY DEF runHandler
<1>1. /\ heap' = IF heap[id].cyclic THEN heap ELSE [heap EXCEPT ![id] = Blank]
      /\ UNCHANGED <<tasks, buckets, cur, onClosedSet, closeDone, runDone, closer, handedOver>>
  BY DEF runHandler
<1>2. OwnedBy(r, id) /\ ~InWheel(id)
  BY DEF OwnedBy, Inv, BucketsConsistent, InWheel, InTodo
<1>3. /\ runners' \in SUBSET Runner
      /\ \A t \in runners', i \in Ids : OwnedBy(t, i) => \E u \in runners : OwnedBy(u, i)
      /\ \A t, u \in runners', i \in Ids : OwnedBy(t, i) /\ OwnedBy(u, i) => t = u
      /\ \A t \in runners' : t.reput \notin t.todo
      /\ ~heap[id].cyclic => ~InTodo(id)' /\ ~InReput(id)'
  <2> DEFINE left == AfterHandler(r, id)
  <2>1. /\ left \in SUBSET Runner
        /\ \A t \in left : /\ \A i \in Ids : OwnedBy(t, i) => OwnedBy(r, i)
                           /\ \A u \in left : t = u
                           /\ t.reput \notin t.todo
        /\ ~heap[id].cyclic => \A t \in left : ~OwnedBy(t, id)
    BY LeftOfRunner
  <2>2. runners' = (runners \ {r}) \cup left
    OBVIOUS
  <2> HIDE DEF left
  <2> QED BY <1>2, <2>1, <2>2, RunnerReplaced
<1>4. heap' \in [Ids -> TaskObject] /\ \A i \in Ids \ {id} : heap'[i] = heap[i]
  BY <1>1, BlankType DEF Inv, TypeOK
<1>5. BucketsConsistent' /\ IndexConsistent' /\ WheelDelays' /\ WheelOnSchedule'
  BY <1>1, <1>2, <1>3, <1>4, WheelUntouched
<1>6. \A t \in runners', i \in Ids : OwnedBy(t, i) => heap'[i] = heap[i]
  BY <1>1, <1>3, <1>4 DEF OwnedBy, InTodo, InReput
<1>7. RunnersConsistent'
  BY <1>3, <1>6 DEF Inv, RunnersConsistent
<1>8. TypeOK' /\ CloseConsistent'
  BY <1>1, <1>3, <1>4 DEF Inv, TypeOK, CloseConsistent, InWheel
<1> QED BY <1>5, <1>7, <1>8 DEF Inv

\* A cyclic task refused by a closing executor preserves the invariant.
LEMMA ReputRefusedPreserves ==
    ASSUME Inv, NEW id \in Ids, reputRefused(id)
    PROVE  Inv'
<1> PICK r \in runners : /\ r.reput = id
                         /\ runners' = (runners \ {r}) \cup AfterReput(r)
  BY DEF reputRefused
<1>1. /\ heap' = [heap EXCEPT ![id] = Blank]
      /\ UNCHANGED <<tasks, buckets, cur, onClosedSet, closeDone, runDone, closer, handedOver>>
  BY DEF reputRefused
<1>2. OwnedBy(r, id) /\ ~InWheel(id)
  BY DEF OwnedBy, Inv, BucketsConsistent, InWheel, InReput
<1>3. /\ runners' \in SUBSET Runner
      /\ \A t \in runners', i \in Ids : OwnedBy(t, i) => \E u \in runners : OwnedBy(u, i)
      /\ \A t, u \in runners', i \in Ids : OwnedBy(t, i) /\ OwnedBy(u, i) => t = u
      /\ \A t \in runners' : t.reput \notin t.todo
      /\ ~InTodo(id)' /\ ~InReput(id)'
  <2> DEFINE left == AfterReput(r)
  <2>1. /\ left \in SUBSET Runner
        /\ \A t \in left : /\ \A i \in Ids : OwnedBy(t, i) => OwnedBy(r, i)
                           /\ \A u \in left : t = u
                           /\ t.reput \notin t.todo
        /\ \A t \in left : ~OwnedBy(t, id)
    BY LeftOfRunner
  <2>2. runners' = (runners \ {r}) \cup left
    OBVIOUS
  <2> HIDE DEF left
  <2> QED BY <1>2, <2>1, <2>2, RunnerReplaced
<1>4. heap' \in [Ids -> TaskObject] /\ \A i \in Ids \ {id} : heap'[i] = heap[i]
  BY <1>1, BlankType DEF Inv, TypeOK
<1>5. BucketsConsistent' /\ IndexConsistent' /\ WheelDelays' /\ WheelOnSchedule'
  BY <1>1, <1>2, <1>3, <1>4, WheelUntouched
<1>6. \A t \in runners', i \in Ids : OwnedBy(t, i) => heap'[i] = heap[i]
  BY <1>3, <1>4 DEF OwnedBy, InTodo, InReput
<1>7. RunnersConsistent'
  BY <1>3, <1>6 DEF Inv, RunnersConsistent
<1>8. TypeOK' /\ CloseConsistent'
  BY <1>1, <1>3, <1>4 DEF Inv, TypeOK, CloseConsistent, InWheel
<1> QED BY <1>5, <1>7, <1>8 DEF Inv

\* Del marks a task of the wheel, never one that a runner already has.
LEMMA DelPreserves ==
    ASSUME Inv, NEW k \in Keys, Del(k)
    PROVE  Inv'
<1>1. UNCHANGED <<tasks, buckets, cur, runners, onClosedSet, closeDone, runDone,
                  closer, handedOver>>
  BY DEF Del
<1>2. ASSUME NEW i \in Ids
      PROVE  /\ heap'[i] \in TaskObject
             /\ heap'[i].key = heap[i].key
             /\ heap'[i].delay = heap[i].delay
             /\ heap'[i].bucketIdx = heap[i].bucketIdx
             /\ heap'[i].round = heap[i].round
             /\ heap'[i].waited = heap[i].waited
             /\ heap[i].removed => heap'[i].removed
             /\ i # tasks[k] => heap'[i].removed = heap[i].removed
  <2> DEFINE m == MarkRemoved(k)[i]
  <2>1. m \in TaskObject
    BY MarkRemovedType DEF Inv
  <2>2. heap'[i] = [m EXCEPT !.cancelled = m.cancelled \/ (Pending(i) /\ heap[i].key = k)]
    BY DEF Del
  <2>3. (m.cancelled \/ (Pending(i) /\ heap[i].key = k)) \in BOOLEAN
    BY <2>1 DEF TaskObject
  <2> HIDE DEF m
  <2>4. \A x \in BOOLEAN : /\ [m EXCEPT !.cancelled = x] \in TaskObject
                           /\ [m EXCEPT !.cancelled = x].key = m.key
                           /\ [m EXCEPT !.cancelled = x].delay = m.delay
                           /\ [m EXCEPT !.cancelled = x].bucketIdx = m.bucketIdx
                           /\ [m EXCEPT !.cancelled = x].round = m.round
                           /\ [m EXCEPT !.cancelled = x].waited = m.waited
                           /\ [m EXCEPT !.cancelled = x].removed = m.removed
    BY <2>1 DEF TaskObject
  <2>5. /\ heap'[i] \in TaskObject
        /\ heap'[i].key = m.key
        /\ heap'[i].delay = m.delay
        /\ heap'[i].bucketIdx = m.bucketIdx
        /\ heap'[i].round = m.round
        /\ heap'[i].waited = m.waited
        /\ heap'[i].removed = m.removed
    BY <2>2, <2>3, <2>4
  <2> QED BY <2>5, MarkRemovedType DEF m, Inv
<1>3. heap' \in [Ids -> TaskObject]
  <2>1. heap' = [i \in Ids |-> heap'[i]]
    BY DEF Del
  <2> QED BY <2>1, <1>2
<1>4. TypeOK'
  BY <1>1, <1>3 DEF Inv, TypeOK
<1>5. BucketsConsistent'
  BY <1>1, <1>2 DEF Inv, BucketsConsistent, InTodo, InReput
<1>6. IndexConsistent' /\ WheelDelays'
  BY <1>1, <1>2 DEF Inv, IndexConsistent, WheelDelays, InWheel
<1>7. WheelOnSchedule'
  <2> SUFFICES ASSUME NEW i \in Ids, Pending(i)'
               PROVE  heap'[i].waited + TicksLeft(i)' = Steps(heap'[i].delay)
    BY DEF WheelOnSchedule, Steps
  <2>1. Pending(i)
    BY <1>1, <1>2 DEF Pending, InWheel
  <2> QED BY <2>1, <1>1, <1>2 DEF Inv, WheelOnSchedule, TicksLeft, Steps
<1>8. RunnersConsistent'
  <2>1. ASSUME NEW r \in runners, NEW i \in Ids, OwnedBy(r, i)
        PROVE  i # tasks[k]
    <3>1. InTodo(i) \/ InReput(i)
      BY <2>1 DEF OwnedBy, InTodo, InReput
    <3> QED BY <3>1 DEF Inv, IndexConsistent, BucketsConsistent, TypeOK, TaskObject
  <2>2. \A r \in runners, i \in Ids : OwnedBy(r, i) =>
           heap'[i].key \in Keys /\ heap'[i].delay \in Delays /\ ~heap'[i].removed
    BY <2>1, <1>2 DEF Inv, RunnersConsistent
  <2> QED BY <2>2, <1>1 DEF Inv, RunnersConsistent
<1>9. CloseConsistent'
  BY <1>1 DEF Inv, CloseConsistent, InWheel
<1> QED BY <1>4, <1>5, <1>6, <1>7, <1>8, <1>9 DEF Inv

\* Close, onClosed and the other steps that leave wheel, tasks and runners alone.
LEMMA ClosingPreserves ==
    ASSUME Inv, UNCHANGED <<wheel, runners>>,
           WithOnClosedHandler \/ Close \/ CloseReturn \/ onClosed
    PROVE  Inv'
<1>1. UNCHANGED <<tasks, buckets, cur, heap, runners>>
  BY DEF wheel
<1>2. BucketsConsistent' /\ IndexConsistent' /\ WheelDelays' /\ WheelOnSchedule'
  BY <1>1, WheelUntouched DEF Inv, TypeOK
<1>3. RunnersConsistent'
  BY <1>1 DEF Inv, RunnersConsistent
<1>4. \A id \in Ids : Indexed(id) => InWheel(id)
  BY DEF Inv, TypeOK, TaskObject, IndexConsistent, Indexed, InWheel
<1>5. TypeOK'
  BY <1>1 DEF Inv, TypeOK, WithOnClosedHandler, Close, CloseReturn, onClosed
<1>6. CloseConsistent'
  <2>1. CASE WithOnClosedHandler \/ Close \/ CloseReturn
    BY <2>1, <1>1 DEF Inv, CloseConsistent, WithOnClosedHandler, Close, CloseReturn, InWheel
  <2>2. CASE onClosed
    BY <2>2, <1>1, <1>4 DEF Inv, CloseConsistent, onClosed, InWheel
  <2> QED BY <2>1, <2>2
<1> QED BY <1>2, <1>3, <1>5, <1>6 DEF Inv

\* NewTimerExecutor establishes the invariant.
LEMMA InitEstablishes == Init => Inv
<1> SUFFICES ASSUME Init PROVE Inv
  OBVIOUS
<1>1. TypeOK
  <2>1. cur \in Idx
    BY WheelAssumption DEF Init, Idx
  <2>2. heap \in [Ids -> TaskObject]
    BY BlankType DEF Init
  <2>3. tasks \in [Keys -> IdOrNone] /\ buckets \in [Idx -> [Keys -> IdOrNone]]
    BY DEF Init, IdOrNone
  <2> QED BY <2>1, <2>2, <2>3 DEF Init, TypeOK
<1>2. \A id \in Ids : ~InWheel(id)
  BY WheelAssumption DEF Init, InWheel
<1>3. BucketsConsistent /\ IndexConsistent
  BY WheelAssumption DEF Init, BucketsConsistent, IndexConsistent
<1>4. WheelDelays /\ WheelOnSchedule
  BY <1>2 DEF WheelDelays, WheelOnSchedule, Pending
<1>5. RunnersConsistent /\ CloseConsistent
  BY DEF Init, RunnersConsistent, CloseConsistent
<1> QED BY <1>1, <1>3, <1>4, <1>5 DEF Inv

\* Every step of the executor preserves the invariant.
LEMMA NextPreserves == Inv /\ [Next]_vars => Inv'
<1> SUFFICES ASSUME Inv, [Next]_vars PROVE Inv'
  OBVIOUS
<1>1. CASE \E k \in Keys, d \in Delays, c \in CyclicFlags : PutTask(k, d, c)
  BY <1>1, PutTaskPreserves
<1>2. CASE \E k \in Keys : Del(k)
  BY <1>2, DelPreserves
<1>3. CASE WithOnClosedHandler \/ Close \/ CloseReturn \/ onClosed
  <2>1. UNCHANGED <<wheel, runners>>
    BY <1>3 DEF WithOnClosedHandler, Close, CloseReturn, onClosed
  <2> QED BY <1>3, <2>1, ClosingPreserves
<1>4. CASE onTick
  BY <1>4, TickPreserves
<1>5. CASE \E id \in Ids : runHandler(id) \/ reputAccepted(id) \/ reputRefused(id)
  BY <1>5, RunHandlerPreserves, ReputAcceptedPreserves, ReputRefusedPreserves
<1>6. CASE UNCHANGED vars
  BY <1>6 DEF vars, Inv, TypeOK, BucketsConsistent, IndexConsistent, WheelDelays,
     RunnersConsistent, WheelOnSchedule, CloseConsistent, InTodo, InReput, InWheel, Pending,
     TicksLeft
<1> QED BY <1>1, <1>2, <1>3, <1>4, <1>5, <1>6 DEF Next

\* The inductive invariant holds in every reachable state.
THEOREM InvariantHolds == Spec => []Inv
BY InitEstablishes, NextPreserves, PTL DEF Spec

-----------------------------------------------------------------------------
(* The theorems *)

\* Every variable keeps its type, in particular currentBucketIdx stays in the wheel.
THEOREM TypeCorrect == Spec => []TypeOK
<1>1. Inv => TypeOK
  BY DEF Inv
<1> QED BY <1>1, InvariantHolds, PTL

\* e.tasks and the buckets stay in agreement: a task is in one bucket, under its
\* key, and what e.tasks refers to is in the wheel and with no runner.
THEOREM MapsAgree == Spec => []MapsConsistent
<1>1. Inv => MapsConsistent
  BY DEF Inv, MapsConsistent
<1> QED BY <1>1, InvariantHolds, PTL

\* Ticks waited and ticks left always add up to the steps asked for.
THEOREM OnSchedule == Spec => []WheelOnSchedule
<1>1. Inv => WheelOnSchedule
  BY DEF Inv
<1> QED BY <1>1, InvariantHolds, PTL

\* A task marked removed never reaches a runner.
THEOREM RemovedStayOut == Spec => []RemovedNeverRuns
<1>1. Inv => RemovedNeverRuns
  BY DEF Inv, RunnersConsistent, RemovedNeverRuns, InTodo, OwnedBy
<1> QED BY <1>1, InvariantHolds, PTL

\* No task goes both to the handler and to onClosedHandler.
THEOREM DeliveredToOne == Spec => []DeliveredOnce
<1>1. Inv => DeliveredOnce
  BY DEF Inv, TypeOK, CloseConsistent, DeliveredOnce, BucketsConsistent, InWheel
<1> QED BY <1>1, InvariantHolds, PTL

\* So a task that Del or Put removed is never run, and none is both run and handed over.
THEOREM EachHasOneFate == Spec => []OneFate
<1>1. RemovedNeverRuns /\ DeliveredOnce => OneFate
  BY DEF OneFate
<1> QED BY <1>1, RemovedStayOut, DeliveredToOne, PTL

\* Nothing but a tick gives a runner a task it did not have.
LEMMA OthersFireNothing ==
    ASSUME Inv, NEW id \in Ids, ~InTodo(id), InTodo(id)',
           \/ \E k \in Keys, d \in Delays, c \in CyclicFlags : PutTask(k, d, c)
           \/ \E k \in Keys : Del(k)
           \/ WithOnClosedHandler \/ Close \/ CloseReturn \/ onClosed
           \/ \E i \in Ids : runHandler(i) \/ reputAccepted(i) \/ reputRefused(i)
    PROVE  FALSE
<1>1. ASSUME NEW k \in Keys, NEW d \in Delays, NEW c \in CyclicFlags, PutTask(k, d, c) PROVE FALSE
  BY <1>1 DEF PutTask, InTodo
<1>2. ASSUME NEW k \in Keys, Del(k) PROVE FALSE
  BY <1>2 DEF Del, InTodo
<1>3. ASSUME WithOnClosedHandler \/ Close \/ CloseReturn \/ onClosed PROVE FALSE
  BY <1>3 DEF WithOnClosedHandler, Close, CloseReturn, onClosed, InTodo
<1>4. ASSUME NEW i \in Ids, runHandler(i) PROVE FALSE
  <2> PICK r \in runners : runners' = (runners \ {r}) \cup AfterHandler(r, i)
    BY <1>4 DEF runHandler
  <2>1. \A t \in AfterHandler(r, i) : t.todo \subseteq r.todo
    BY DEF AfterHandler
  <2> QED BY <2>1 DEF InTodo
<1>5. ASSUME NEW i \in Ids, reputAccepted(i) \/ reputRefused(i) PROVE FALSE
  <2> PICK r \in runners : runners' = (runners \ {r}) \cup AfterReput(r)
    BY <1>5 DEF reputAccepted, reputRefused
  <2>1. \A t \in AfterReput(r) : t.todo \subseteq r.todo
    BY DEF AfterReput
  <2> QED BY <2>1 DEF InTodo
<1> QED BY <1>1, <1>2, <1>3, <1>4, <1>5

\* A runner gains tasks only in a tick.
LEMMA OnlyTicksFire ==
    ASSUME Inv, [Next]_vars, NEW id \in Ids, ~InTodo(id), InTodo(id)'
    PROVE  onTick
<1>1. CASE UNCHANGED vars
  BY <1>1 DEF vars, InTodo
<1> QED BY <1>1, OthersFireNothing DEF Next

\* A task fires on the tick that follows exactly `steps' others.
THEOREM FiresOnTime == Spec => FiresAtItsTick
<1>1. Inv /\ [Next]_vars =>
        [\A id \in Ids : (~InTodo(id) /\ InTodo(id)') =>
            heap[id].waited = Steps(heap[id].delay)]_vars
  BY OnlyTicksFire, TickPreserves
<1> QED BY <1>1, InvariantHolds, PTL DEF Spec, FiresAtItsTick

\* After the winning Close has returned the wheel does not move any more.
THEOREM QuietOnceClosed == Spec => QuietAfterClose
<1>1. ASSUME Inv, [Next]_vars, closer = "returned"
      PROVE  UNCHANGED <<tasks, buckets, cur>>
  <2>1. runDone
    BY <1>1 DEF Inv, CloseConsistent
  <2> QED BY <1>1, <2>1 DEF Next, PutTask, Del, WithOnClosedHandler, Close, CloseReturn, onTick, Ticking,
          onClosed, runHandler, reputAccepted, reputRefused, vars, wheel
<1>2. Inv /\ [Next]_vars => [closer = "returned" => UNCHANGED <<tasks, buckets, cur>>]_vars
  BY <1>1
<1> QED BY <1>2, InvariantHolds, PTL DEF Spec, QuietAfterClose

-----------------------------------------------------------------------------
(* The clock *)

\* The ticker's phase, and a tick waits in its channel only at the end of a period.
PhaseInv ==
    /\ phase \in 0 .. Period - 1
    /\ tickReady \in BOOLEAN
    /\ tickReady => phase = 0
    /\ age \in [Ids -> Nat]

ClockInv == Inv /\ PhaseInv /\ AgeInStep

-----------------------------------------------------------------------------
\* With a clock the executor does nothing that it does not do without one.
THEOREM TimedIsTimer == TimedSpec => Spec
<1>1. TimedInit => Init
  BY DEF TimedInit
<1>2. [TimedNext]_timedVars => [Next]_vars
  BY DEF TimedNext, Elapse, ClockTick, OtherEvent, Next, timedVars
<1> QED BY <1>1, <1>2, PTL DEF TimedSpec, Spec

\* What is pending after a step was pending before with the same wait, or is new.
WaitsKept ==
    \A i \in Ids : Pending(i)' =>
        \/ InWheel(i) /\ Pending(i) /\ heap'[i].waited = heap[i].waited
        \/ ~InWheel(i) /\ heap'[i].waited = 0

\* A task that is put displaces others but leaves their waits alone.
LEMMA PutWaits ==
    ASSUME Inv, NEW id \in Ids, NEW k \in Keys, NEW d \in Delays, NEW c \in BOOLEAN,
           ~InWheel(id), onPut(id, k, d, c)
    PROVE  WaitsKept
<1> DEFINE b == BucketFor(d)
<1>1. b \in Idx
  BY PutPosition DEF Inv
<1>2. buckets' = [buckets EXCEPT ![b] = [buckets[b] EXCEPT ![k] = id]]
  BY DEF onPut
<1>3. heap'[id].waited = 0
  BY DEF onPut
<1>4. ASSUME NEW i \in Ids, i # id, i # buckets[b][k] PROVE heap'[i] = MarkRemoved(k)[i]
  BY <1>4 DEF onPut
<1> HIDE DEF b
<1>5. ASSUME NEW i \in Ids, i # id, Pending(i)'
      PROVE  InWheel(i) /\ Pending(i) /\ heap'[i].waited = heap[i].waited
  <2> PICK x \in Idx, y \in Keys : buckets'[x][y] = i
    BY <1>5 DEF Pending, InWheel
  <2>1. buckets[x][y] = i /\ ~(x = b /\ y = k)
    BY <1>1, <1>2, <1>5 DEF Inv, TypeOK
  <2>2. heap[i].key = y /\ heap[i].bucketIdx = x
    BY <2>1 DEF Inv, BucketsConsistent
  <2>3. i # buckets[b][k]
    BY <1>1, <2>1, <2>2 DEF Inv, BucketsConsistent
  <2>4. heap'[i] = MarkRemoved(k)[i]
    BY <1>4, <1>5, <2>3
  <2>5. heap'[i].waited = heap[i].waited /\ (heap[i].removed => heap'[i].removed)
    BY <2>4, MarkRemovedType DEF Inv
  <2> QED BY <1>5, <2>1, <2>5 DEF Pending, InWheel
<1> QED BY <1>3, <1>5 DEF WaitsKept

\* No event but a tick changes what a pending task has waited.
LEMMA OtherWaits ==
    ASSUME Inv, OtherEvent
    PROVE  WaitsKept
<1>1. ASSUME NEW k \in Keys, NEW d \in Delays, NEW c \in CyclicFlags, PutTask(k, d, c) PROVE WaitsKept
  <2> PICK id \in Ids : ~Referenced(id) /\ onPut(id, k, d, c)
    BY <1>1 DEF PutTask
  <2>1. ~InWheel(id) /\ c \in BOOLEAN
    BY WheelAssumption DEF Referenced
  <2> QED BY <2>1, PutWaits
<1>2. ASSUME NEW k \in Keys, Del(k) PROVE WaitsKept
  <2>1. buckets' = buckets
    BY <1>2 DEF Del
  <2>2. ASSUME NEW i \in Ids
        PROVE  heap'[i].waited = heap[i].waited /\ (heap[i].removed => heap'[i].removed)
    <3> DEFINE m == MarkRemoved(k)[i]
    <3>1. /\ m \in TaskObject /\ m.waited = heap[i].waited /\ (heap[i].removed => m.removed)
      BY MarkRemovedType DEF Inv
    <3>2. heap'[i] = [m EXCEPT !.cancelled = m.cancelled \/ (Pending(i) /\ heap[i].key = k)]
      BY <1>2 DEF Del
    <3> HIDE DEF m
    <3>3. heap'[i].waited = m.waited /\ heap'[i].removed = m.removed
      BY <3>1, <3>2 DEF TaskObject
    <3> QED BY <3>1, <3>3
  <2> QED BY <2>1, <2>2 DEF WaitsKept, Pending, InWheel
<1>3. ASSUME WithOnClosedHandler \/ Close \/ CloseReturn \/ onClosed PROVE WaitsKept
  <2>1. UNCHANGED <<buckets, heap>>
    BY <1>3 DEF WithOnClosedHandler, Close, CloseReturn, onClosed, wheel
  <2> QED BY <2>1 DEF WaitsKept, Pending, InWheel
<1>4. ASSUME NEW id \in Ids, runHandler(id) \/ reputRefused(id) PROVE WaitsKept
  <2>1. InTodo(id) \/ InReput(id)
    BY <1>4 DEF runHandler, reputRefused, InTodo, InReput
  <2>2. ~InWheel(id)
    BY <2>1 DEF Inv, BucketsConsistent, InWheel
  <2>3. buckets' = buckets /\ \A i \in Ids \ {id} : heap'[i] = heap[i]
    BY <1>4 DEF runHandler, reputRefused, Inv, TypeOK
  <2> QED BY <2>2, <2>3 DEF WaitsKept, Pending, InWheel
<1>5. ASSUME NEW id \in Ids, reputAccepted(id) PROVE WaitsKept
  <2> PICK r \in runners : r.reput = id
    BY <1>5 DEF reputAccepted
  <2>1. heap[id].key \in Keys /\ heap[id].delay \in Delays
    BY DEF Inv, RunnersConsistent, OwnedBy
  <2>2. ~InWheel(id)
    BY DEF Inv, BucketsConsistent, InWheel, InReput
  <2>3. onPut(id, heap[id].key, heap[id].delay, TRUE)
    BY <1>5 DEF reputAccepted
  <2> QED BY <2>1, <2>2, <2>3, PutWaits
<1> QED BY <1>1, <1>2, <1>3, <1>4, <1>5 DEF OtherEvent

\* A tick adds one to what a pending task has waited, and puts nothing into the wheel.
LEMMA TickWaits ==
    ASSUME Inv, onTick, NEW id \in Ids
    PROVE  /\ Pending(id)' => InWheel(id) /\ Pending(id) /\ heap'[id].waited = heap[id].waited + 1
           /\ ~InTodo(id) /\ InTodo(id)' => Pending(id) /\ heap[id].waited = Steps(heap[id].delay)
<1>1. ASSUME Pending(id)'
      PROVE  InWheel(id) /\ Pending(id) /\ heap'[id].waited = heap[id].waited + 1
  <2> PICK x \in Idx, y \in Keys : buckets'[x][y] = id
    BY <1>1 DEF Pending, InWheel
  <2>1. buckets[x][y] = id /\ InWheel(id) /\ id \notin RemovedIn(cur) \cup DueIn(cur)
    <3>1. buckets[x][y] = id
      BY WheelAssumption DEF onTick, BucketsWithout
    <3>2. heap[id].key = y /\ heap[id].bucketIdx = x
      BY <3>1 DEF Inv, BucketsConsistent
    <3> QED BY <3>1, <3>2, WheelAssumption DEF onTick, BucketsWithout, InWheel
  <2>2. heap[id] \in TaskObject
    BY DEF Inv, TypeOK
  <2>3. heap'[id] = NextRound(heap[id]) \/ heap'[id] = Waited(heap[id])
    BY <2>1 DEF onTick
  <2>4. heap'[id].waited = heap[id].waited + 1 /\ heap'[id].removed = heap[id].removed
    BY <2>2, <2>3, TickedRecord
  <2> QED BY <1>1, <2>1, <2>4 DEF Pending
<1>2. ASSUME ~InTodo(id), InTodo(id)'
      PROVE  Pending(id) /\ heap[id].waited = Steps(heap[id].delay)
  <2>1. id \in DueIn(cur)
    BY <1>2 DEF onTick, InTodo
  <2>2. cur \in Idx
    BY DEF Inv, TypeOK
  <2> QED BY <1>2, <2>1, <2>2, TickPreserves DEF DueIn, InBucket, Pending, InWheel
<1> QED BY <1>1, <1>2

-----------------------------------------------------------------------------
\* Time, ticks and the other events keep the ages in step with the wheel.
LEMMA ClockPreserves == ClockInv /\ [TimedNext]_timedVars => ClockInv'
<1> SUFFICES ASSUME ClockInv, [TimedNext]_timedVars PROVE ClockInv'
  OBVIOUS
<1> USE WheelAssumption DEF ClockInv
<1>1. Inv'
  <2>1. [Next]_vars
    BY DEF TimedNext, Elapse, ClockTick, OtherEvent, Next, timedVars
  <2> QED BY <2>1, NextPreserves
<1>2. /\ phase \in Int /\ 0 <= phase /\ phase < Period
      /\ \A id \in Ids : age[id] \in Nat /\ heap[id].waited \in Nat /\ heap'[id].waited \in Nat
  BY <1>1 DEF PhaseInv, Inv, TypeOK, TaskObject
<1>3. \A n \in Nat : n * Period \in Nat /\ (n + 1) * Period = n * Period + Period
  OBVIOUS
<1>4. CASE Elapse
  <2>1. /\ ~tickReady /\ Lead = phase
        /\ phase' = IF phase + 1 = Period THEN 0 ELSE phase + 1
        /\ tickReady' = (phase + 1 = Period)
        /\ age' = [id \in Ids |-> IF InWheel(id) THEN age[id] + 1 ELSE 0]
        /\ UNCHANGED vars
    BY <1>4, <1>2 DEF Elapse, Lead
  <2>2. PhaseInv'
    <3>1. tickReady' \in BOOLEAN
      BY <2>1, Zenon
    <3> QED BY <1>2, <2>1, <3>1 DEF PhaseInv
  <2>3. Lead' = Lead + 1
    <3>1. (phase + 1 = Period => tickReady') /\ (phase + 1 # Period => ~tickReady')
      BY <2>1, Zenon
    <3> QED BY <1>2, <2>1, <3>1 DEF Lead
  <2>4. \A id \in Ids : Pending(id)' => /\ Pending(id) /\ heap'[id].waited = heap[id].waited
                                        /\ age'[id] = age[id] + 1
    BY <2>1 DEF Pending, InWheel, vars
  <2>5. AgeInStep'
    BY <1>2, <1>3, <2>1, <2>3, <2>4 DEF AgeInStep
  <2> QED BY <1>1, <2>2, <2>5
<1>5. CASE ClockTick
  <2>1. /\ tickReady /\ onTick /\ ~tickReady' /\ tickReady' \in BOOLEAN /\ phase' = phase
        /\ age' = [id \in Ids |-> IF InWheel(id) /\ InWheel(id)' THEN age[id] ELSE 0]
    BY <1>5 DEF ClockTick, KeepAge
  <2>2. PhaseInv'
    BY <2>1 DEF PhaseInv
  <2>3. Lead = Lead' + Period /\ Lead' \in Int
    BY <1>2, <2>1 DEF Lead
  <2>4. \A id \in Ids : Pending(id)' => /\ Pending(id) /\ heap'[id].waited = heap[id].waited + 1
                                        /\ age'[id] = age[id]
    BY <2>1, TickWaits DEF Pending
  <2>5. AgeInStep'
    BY <1>2, <1>3, <2>3, <2>4 DEF AgeInStep
  <2> QED BY <1>1, <2>2, <2>5
<1>6. CASE OtherEvent
  <2>1. /\ tickReady' = tickReady /\ phase' = phase
        /\ age' = [id \in Ids |-> IF InWheel(id) /\ InWheel(id)' THEN age[id] ELSE 0]
    BY <1>6 DEF OtherEvent, KeepAge
  <2>2. PhaseInv'
    BY <2>1 DEF PhaseInv
  <2>3. Lead' = Lead /\ Lead \in Int /\ 0 <= Lead /\ Lead <= Period
    BY <1>2, <2>1 DEF Lead, PhaseInv
  <2>4. ASSUME NEW id \in Ids, Pending(id)'
        PROVE  \/ Pending(id) /\ heap'[id].waited = heap[id].waited /\ age'[id] = age[id]
               \/ heap'[id].waited = 0 /\ age'[id] = 0
    BY <1>6, <2>1, <2>4, OtherWaits DEF WaitsKept, Pending
  <2>5. AgeInStep'
    BY <1>2, <1>3, <2>3, <2>4 DEF AgeInStep
  <2> QED BY <1>1, <2>2, <2>5
<1>7. CASE UNCHANGED timedVars
  BY <1>1, <1>7 DEF timedVars, clockVars, vars, PhaseInv, AgeInStep, Lead, Pending, InWheel
<1> QED BY <1>4, <1>5, <1>6, <1>7 DEF TimedNext

\* A task fires no earlier than its delay rounded down to whole periods, and no later than one
\* period after its delay: however puts, dels and ticks fall within a period (timer.go).
THEOREM FiresWithinWindow == TimedSpec => FiresInWindow
<1>1. TimedInit => ClockInv
  <2> SUFFICES ASSUME TimedInit PROVE ClockInv
    OBVIOUS
  <2>1. Inv
    BY InitEstablishes DEF TimedInit
  <2>2. tickReady \in BOOLEAN
    BY Zenon DEF TimedInit
  <2>3. PhaseInv
    BY <2>2, WheelAssumption DEF TimedInit, PhaseInv
  <2>4. \A id \in Ids : ~InWheel(id)
    BY WheelAssumption DEF TimedInit, Init, InWheel
  <2> QED BY <2>1, <2>3, <2>4 DEF ClockInv, AgeInStep, Pending
<1>2. ASSUME ClockInv, [TimedNext]_timedVars, NEW id \in Ids, ~InTodo(id), InTodo(id)'
      PROVE  /\ age[id] >= Steps(heap[id].delay) * Period
             /\ age[id] <= heap[id].delay + Period
  <2> USE WheelAssumption DEF ClockInv
  <2>1. [Next]_vars
    BY <1>2 DEF TimedNext, Elapse, ClockTick, OtherEvent, Next, timedVars
  <2>2. onTick
    BY <1>2, <2>1, OnlyTicksFire
  <2>3. Pending(id) /\ heap[id].waited = Steps(heap[id].delay)
    BY <1>2, <2>2, TickWaits
  <2>4. ClockTick
    <3>1. CASE Elapse \/ UNCHANGED timedVars
      BY <1>2, <3>1 DEF Elapse, timedVars, vars, InTodo
    <3>2. CASE OtherEvent
      BY <1>2, <3>2, OthersFireNothing DEF OtherEvent
    <3> QED BY <1>2, <3>1, <3>2 DEF TimedNext
  <2>5. Lead = Period
    BY <1>2, <2>4 DEF Lead, ClockTick, PhaseInv
  <2>6. /\ age[id] <= heap[id].waited * Period + Period
        /\ age[id] + Period >= heap[id].waited * Period + Period
    BY <1>2, <2>3, <2>5 DEF AgeInStep
  <2>7. age[id] \in Nat /\ heap[id].delay \in Nat
    <3>1. age[id] \in Nat
      BY <1>2 DEF PhaseInv
    <3>2. heap[id] \in TaskObject
      BY <1>2 DEF Inv, TypeOK
    <3>3. heap[id].delay \in Delays \cup {0}
      BY <3>2 DEF TaskObject
    <3>4. Delays \cup {0} \subseteq Nat
      BY WheelAssumption
    <3> QED BY <3>1, <3>3, <3>4, Zenon
  <2>8. Steps(heap[id].delay) \in Int /\ Steps(heap[id].delay) * Period <= heap[id].delay
    <3> DEFINE d == heap[id].delay
    <3>1. d \in Int /\ Period \in Nat \ {0}
      BY <2>7
    <3> HIDE DEF d
    <3>2. d \div Period \in Int /\ d % Period \in 0 .. Period - 1 /\ d = Period * (d \div Period) + (d % Period)
      BY <3>1, DivModFact
    <3>3. (d \div Period) * Period = Period * (d \div Period)
      BY <3>1, <3>2
    <3>4. (d \div Period) * Period <= d
      BY <3>1, <3>2, <3>3
    <3> QED BY <3>2, <3>4 DEF d, Steps
  <2> QED BY <2>3, <2>6, <2>7, <2>8
<1>3. ClockInv => AgeInStep
  BY DEF ClockInv
<1>4. ClockInv /\ [TimedNext]_timedVars =>
        [\A id \in Ids : (~InTodo(id) /\ InTodo(id)') =>
            /\ age[id] >= Steps(heap[id].delay) * Period
            /\ age[id] <= heap[id].delay + Period]_timedVars
  BY <1>2
<1> QED BY <1>1, <1>3, <1>4, ClockPreserves, PTL DEF TimedSpec, FiresInWindow
=============================================================================
