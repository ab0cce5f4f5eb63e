-------------------------- MODULE RdbSchedulerProofs --------------------------
(***************************************************************************)
(* For any number of clients, any TTL and any lag that LagAssumption       *)
(* admits, a claim on the lock is backed by the key unless the session is  *)
(* late.  The scheduler uses its lock as SessionLock says, so a running    *)
(* task has the lock unless a refresh failed or was late, and an instance  *)
(* acts at most once on a stale reading of the next time.                  *)
(***************************************************************************)
EXTENDS RdbScheduler, TLAPS


\* The session counts on the key: it is about to hold it, or holds it, and is in time.
NeedsKey(s) == ~s.late /\ (s.pc = "obtaining" \/ ~s.released)

\* What is left of the TTL outlasts the longest way to the next refresh: the rest of
\* the interval and a call, or the rest of the call that is out.
Margin(s, t) ==
    /\ s.pc = "obtaining" => t + s.lag >= TTL
    /\ s.loop = "wait" => t > Lag + (IF s.ready THEN 0 ELSE RefreshInterval - s.phase)
    /\ s.loop = "ok" => t + s.lag >= TTL
    /\ s.loop \in {"call", "failed", "report"} => t + s.lag > Lag

\* A session that claims the lock has a loop; a client that is obtaining one, or has
\* none, has not.
WellFormed(s) ==
    /\ ~s.released => s.pc = "held" /\ s.loop # "off"
    /\ s.pc \in {"none", "obtaining"} => s.loop = "off"

Sound(s, k, t, c) == WellFormed(s) /\ (NeedsKey(s) => k = c /\ Margin(s, t))

LockInv ==
    /\ LockTypeOK
    /\ \A c \in Clients : Sound(sess[c], key, ttl, c)

-----------------------------------------------------------------------------
\* The interval of the refresh loop is a positive number of units.
LEMMA IntervalType ==
    /\ RefreshInterval \in Nat \ {0}
    /\ RefreshInterval + 2 * Lag < TTL
    /\ TTL \in Nat /\ Lag \in Nat
    /\ 0 \in 0 .. Lag /\ 0 \in 0 .. RefreshInterval - 1 /\ TTL \in 0 .. TTL
BY LockAssumption, LagAssumption DEF RefreshInterval

\* A client without a session satisfies the invariant whatever the key is.
LEMMA NoSessionSound ==
    /\ NoSession \in Session
    /\ \A k, t, c : Sound(NoSession, k, t, c)
BY IntervalType DEF NoSession, Session, Sound, WellFormed, NeedsKey

\* A step of client c that changes its own session and leaves the others theirs keeps
\* the invariant, if it is sound for c and the others, who do not own the key, do not
\* lose it.
LEMMA StepOf ==
    ASSUME LockInv, NEW c \in Clients, NEW s \in Session,
           sess' = [sess EXCEPT ![c] = s],
           key' \in Clients \cup {None, Orphan}, ttl' \in 0 .. TTL,
           Sound(s, key', ttl', c),
           \A d \in Clients \ {c} : key = d => key' = key /\ ttl' = ttl
    PROVE  LockInv'
<1>1. LockTypeOK'
  BY DEF LockInv, LockTypeOK
<1>2. ASSUME NEW d \in Clients PROVE Sound(sess'[d], key', ttl', d)
  <2>1. CASE d = c
    BY <2>1 DEF LockInv, LockTypeOK
  <2>2. CASE d # c
    <3>1. sess'[d] = sess[d] /\ Sound(sess[d], key, ttl, d)
      BY <2>2 DEF LockInv, LockTypeOK
    <3>2. CASE NeedsKey(sess[d])
      BY <2>2, <3>1, <3>2 DEF Sound
    <3>3. CASE ~NeedsKey(sess[d])
      BY <3>1, <3>3 DEF Sound
    <3> QED BY <3>2, <3>3
  <2> QED BY <2>1, <2>2
<1> QED BY <1>1, <1>2 DEF LockInv

\* The step of a client ends its session; the key keeps its token, or loses one that
\* was the client's.
LEMMA EndOf ==
    ASSUME LockInv, NEW c \in Clients,
           sess' = [sess EXCEPT ![c] = NoSession],
           key' = key \/ (key = c /\ key' \in {None, Orphan}),
           ttl' = ttl \/ (key \notin Clients \ {c} /\ ttl' \in 0 .. TTL)
    PROVE  LockInv'
<1>1. key' \in Clients \cup {None, Orphan} /\ ttl' \in 0 .. TTL
  BY DEF LockInv, LockTypeOK
<1>2. \A d \in Clients \ {c} : key = d => key' = key /\ ttl' = ttl
  OBVIOUS
<1> QED BY <1>1, <1>2, NoSessionSound, StepOf

-----------------------------------------------------------------------------
\* Obtaining the lock keeps the invariant: nobody else counted on the key.
LEMMA ObtainKeeps ==
    ASSUME LockInv, NEW c \in Clients, Obtain(c) \/ ObtainReturns(c) \/ ObtainFails(c)
    PROVE  LockInv'
<1>0. sess[c] \in Session /\ Sound(sess[c], key, ttl, c) /\ ttl \in 0 .. TTL
  BY DEF LockInv, LockTypeOK
<1>1. CASE Obtain(c)
  <2> DEFINE s == [sess[c] EXCEPT !.pc = "obtaining", !.lag = 0]
  <2>1. /\ sess' = [sess EXCEPT ![c] = s] /\ key = None /\ key' = c /\ ttl' = TTL
        /\ sess[c].pc = "none"
    BY <1>1 DEF Obtain, LockInv, LockTypeOK
  <2>2. /\ s \in Session /\ s.pc = "obtaining" /\ s.lag = 0
        /\ s.loop = sess[c].loop /\ s.released = sess[c].released
    BY <1>0, IntervalType DEF Session
  <2> HIDE DEF s
  <2>3. sess[c].released /\ s.loop = "off"
    BY <1>0, <2>1, <2>2 DEF Sound, WellFormed, Session
  <2>4. Sound(s, c, TTL, c)
    BY <2>2, <2>3, IntervalType DEF Sound, WellFormed, NeedsKey, Margin
  <2> QED BY <2>1, <2>2, <2>4, IntervalType, LockAssumption, StepOf
<1>2. CASE ObtainReturns(c)
  <2> DEFINE s == [NoSession EXCEPT !.pc = "held", !.released = FALSE, !.loop = "wait",
                                    !.late = sess[c].late]
  <2>1. /\ s \in Session /\ s.pc = "held" /\ s.released = FALSE /\ s.loop = "wait"
        /\ s.phase = 0 /\ s.ready = FALSE /\ s.late = sess[c].late
    BY <1>0, IntervalType DEF Session, NoSession
  <2>2. sess' = [sess EXCEPT ![c] = s] /\ key' = key /\ ttl' = ttl /\ sess[c].pc = "obtaining"
    BY <1>2 DEF ObtainReturns
  <2> HIDE DEF s
  <2>3. ~s.late => key = c /\ ttl + sess[c].lag >= TTL /\ sess[c].lag \in 0 .. Lag
    BY <1>0, <2>1, <2>2 DEF Sound, NeedsKey, Margin, Session
  <2>4. ~s.late => ttl > Lag + RefreshInterval
    BY <1>0, <2>3, IntervalType
  <2>5. Sound(s, key', ttl', c)
    BY <2>1, <2>2, <2>3, <2>4, IntervalType DEF Sound, WellFormed, NeedsKey, Margin
  <2>6. key' \in Clients \cup {None, Orphan}
    BY <2>2 DEF LockInv, LockTypeOK
  <2> QED BY <1>0, <2>1, <2>2, <2>5, <2>6, StepOf
<1>3. CASE ObtainFails(c)
  BY <1>3, EndOf DEF ObtainFails, Abandon
<1> QED BY <1>1, <1>2, <1>3

\* Every step of the refresh loop keeps the invariant.
LEMMA RefreshKeeps ==
    ASSUME LockInv, NEW c \in Clients, refreshStep(c) \/ refreshFails(c)
    PROVE  LockInv'
<1> DEFINE s == sess[c]
<1>0. /\ s \in Session /\ Sound(s, key, ttl, c) /\ ttl \in 0 .. TTL
      /\ key \in Clients \cup {None, Orphan}
  BY DEF LockInv, LockTypeOK
<1>t. /\ s.lag \in 0 .. Lag /\ s.ready \in BOOLEAN /\ s.released \in BOOLEAN /\ s.late \in BOOLEAN
      /\ s.phase \in 0 .. RefreshInterval - 1 /\ 0 \in 0 .. Lag
  BY <1>0, IntervalType DEF Session
<1>1. CASE refreshTick(c)
  <2> DEFINE n == [s EXCEPT !.loop = "call", !.ready = FALSE, !.lag = 0]
  <2>1. /\ sess' = [sess EXCEPT ![c] = n] /\ key' = key /\ ttl' = ttl
        /\ s.loop = "wait" /\ s.ready
    BY <1>1 DEF refreshTick
  <2>2. /\ n \in Session /\ n.loop = "call" /\ n.lag = 0
        /\ n.pc = s.pc /\ n.released = s.released /\ n.late = s.late
    BY <1>0, <1>t DEF Session
  <2> HIDE DEF n
  <2>3. Sound(n, key, ttl, c)
    BY <1>0, <1>t, <2>1, <2>2, IntervalType DEF Sound, WellFormed, NeedsKey, Margin
  <2> QED BY <1>0, <2>1, <2>2, <2>3, StepOf
<1>2. CASE refreshExec(c)
  <2> DEFINE n == [s EXCEPT !.loop = IF key = c THEN "ok" ELSE "failed",
                            !.late = s.late /\ key # c]
  <2>1. /\ sess' = [sess EXCEPT ![c] = n] /\ key' = key /\ s.loop = "call"
        /\ ttl' = IF key = c THEN TTL ELSE ttl
    BY <1>2 DEF refreshExec
  <2>2. /\ n \in Session /\ n.loop = (IF key = c THEN "ok" ELSE "failed") /\ n.lag = s.lag
        /\ n.pc = s.pc /\ n.released = s.released /\ n.late = (s.late /\ key # c)
    BY <1>0, <1>t DEF Session
  <2> HIDE DEF n
  <2>3. CASE key = c
    <3>1. Sound(n, key, TTL, c)
      BY <1>0, <1>t, <2>1, <2>2, <2>3, IntervalType DEF Sound, WellFormed, NeedsKey, Margin
    <3>2. ttl' = TTL /\ key' = key
      BY <2>1, <2>3
    <3>3. \A d \in Clients \ {c} : key # d
      BY <2>3
    <3> QED BY <1>0, <2>1, <2>2, <3>1, <3>2, <3>3, IntervalType, StepOf
  <2>4. CASE key # c
    <3>1. Sound(n, key, ttl, c)
      BY <1>0, <1>t, <2>1, <2>2, <2>4 DEF Sound, WellFormed, NeedsKey
    <3> QED BY <1>0, <2>1, <2>2, <2>4, <3>1, StepOf
  <2> QED BY <2>3, <2>4
<1>3. CASE refreshFails(c)
  <2> DEFINE n == [s EXCEPT !.loop = "failed"]
  <2>1. /\ sess' = [sess EXCEPT ![c] = n] /\ key' = key /\ ttl' = ttl
        /\ s.loop \in {"call", "ok"}
    BY <1>3 DEF refreshFails
  <2>2. /\ n \in Session /\ n.loop = "failed" /\ n.lag = s.lag
        /\ n.pc = s.pc /\ n.released = s.released /\ n.late = s.late
    BY <1>0 DEF Session
  <2> HIDE DEF n
  <2>3. Sound(n, key, ttl, c)
    BY <1>0, <1>t, <2>1, <2>2, IntervalType DEF Sound, WellFormed, NeedsKey, Margin
  <2> QED BY <1>0, <2>1, <2>2, <2>3, StepOf
<1>4. CASE refreshReturns(c)
  <2> DEFINE n == [s EXCEPT !.loop = "wait", !.lag = 0]
  <2>1. /\ sess' = [sess EXCEPT ![c] = n] /\ key' = key /\ ttl' = ttl /\ s.loop = "ok"
    BY <1>4 DEF refreshReturns
  <2>2. /\ n \in Session /\ n.loop = "wait" /\ n.phase = s.phase /\ n.ready = s.ready
        /\ n.pc = s.pc /\ n.released = s.released /\ n.late = s.late
    BY <1>0, <1>t DEF Session
  <2> HIDE DEF n
  <2>3. Sound(n, key, ttl, c)
    BY <1>0, <1>t, <2>1, <2>2, IntervalType DEF Sound, WellFormed, NeedsKey, Margin
  <2> QED BY <1>0, <2>1, <2>2, <2>3, StepOf
<1>5. CASE refreshChecks(c)
  <2> DEFINE n == [s EXCEPT !.loop = IF s.released THEN "wait" ELSE "report",
                            !.lag = IF s.released THEN 0 ELSE s.lag]
  <2>1. /\ sess' = [sess EXCEPT ![c] = n] /\ key' = key /\ ttl' = ttl /\ s.loop = "failed"
    BY <1>5 DEF refreshChecks
  <2>2. /\ n \in Session /\ n.pc = s.pc /\ n.released = s.released /\ n.late = s.late
        /\ n.loop = IF s.released THEN "wait" ELSE "report"
        /\ ~s.released => n.lag = s.lag
    BY <1>0, <1>t DEF Session
  <2> HIDE DEF n
  <2>3. Sound(n, key, ttl, c)
    BY <1>0, <1>t, <2>1, <2>2, IntervalType DEF Sound, WellFormed, NeedsKey, Margin
  <2> QED BY <1>0, <2>1, <2>2, <2>3, StepOf
<1>6. CASE refreshReports(c)
  <2> DEFINE n == [s EXCEPT !.released = TRUE, !.loop = "off", !.lag = 0]
  <2>1. /\ sess' = [sess EXCEPT ![c] = n] /\ ttl' = ttl /\ s.loop = "report"
        /\ (key' = key \/ (key = c /\ key' = Orphan))
    BY <1>6 DEF refreshReports, Abandon
  <2>2. n \in Session /\ n.loop = "off" /\ n.released /\ n.pc = s.pc
    BY <1>0, <1>t DEF Session
  <2> HIDE DEF n
  <2>3. Sound(n, key', ttl, c)
    BY <1>0, <2>1, <2>2 DEF Sound, WellFormed, NeedsKey
  <2> QED BY <1>0, <2>1, <2>2, <2>3, StepOf
<1>7. CASE refreshEnds(c)
  <2> DEFINE n == [s EXCEPT !.loop = "off"]
  <2>1. /\ sess' = [sess EXCEPT ![c] = n] /\ key' = key /\ ttl' = ttl /\ s.pc = "stopping"
    BY <1>7 DEF refreshEnds
  <2>2. n \in Session /\ n.pc = s.pc /\ n.released = s.released /\ n.late = s.late
    BY <1>0 DEF Session
  <2> HIDE DEF n
  <2>3. Sound(n, key, ttl, c)
    BY <1>0, <2>1, <2>2 DEF Sound, WellFormed, NeedsKey
  <2> QED BY <1>0, <2>1, <2>2, <2>3, StepOf
<1> QED BY <1>1, <1>2, <1>3, <1>4, <1>5, <1>6, <1>7 DEF refreshStep

\* Releasing and crashing keep the invariant.
LEMMA ReleaseKeeps ==
    ASSUME LockInv, NEW c \in Clients,
           Release(c) \/ StopReturns(c) \/ Unlock(c) \/ UnlockFails(c) \/ Crash(c)
    PROVE  LockInv'
<1> DEFINE s == sess[c]
<1>0. /\ s \in Session /\ Sound(s, key, ttl, c) /\ ttl \in 0 .. TTL
      /\ key \in Clients \cup {None, Orphan}
  BY DEF LockInv, LockTypeOK
<1>1. CASE Release(c) /\ s.released
  BY <1>1, EndOf DEF Release
<1>2. CASE Release(c) /\ ~s.released
  <2> DEFINE n == [s EXCEPT !.pc = "stopping", !.released = TRUE]
  <2>1. sess' = [sess EXCEPT ![c] = n] /\ key' = key /\ ttl' = ttl
    BY <1>2 DEF Release
  <2>2. n \in Session /\ n.pc = "stopping" /\ n.released
    BY <1>0 DEF Session
  <2>3. Sound(n, key, ttl, c)
    BY <2>2 DEF Sound, WellFormed, NeedsKey
  <2> HIDE DEF n
  <2> QED BY <1>0, <2>1, <2>2, <2>3, StepOf
<1>3. CASE StopReturns(c)
  <2> DEFINE n == [s EXCEPT !.pc = "unlocking"]
  <2>1. sess' = [sess EXCEPT ![c] = n] /\ key' = key /\ ttl' = ttl /\ s.pc = "stopping"
    BY <1>3 DEF StopReturns
  <2>2. n \in Session /\ n.pc = "unlocking" /\ n.released = s.released
    BY <1>0 DEF Session
  <2>3. s.released
    BY <1>0, <2>1 DEF Sound, WellFormed
  <2>4. Sound(n, key, ttl, c)
    BY <2>2, <2>3 DEF Sound, WellFormed, NeedsKey
  <2> HIDE DEF n
  <2> QED BY <1>0, <2>1, <2>2, <2>4, StepOf
<1>4. CASE Unlock(c)
  <2>1. sess' = [sess EXCEPT ![c] = NoSession]
        /\ key' = (IF key = c THEN None ELSE key) /\ ttl' = IF key' = None THEN 0 ELSE ttl
    BY <1>4 DEF Unlock, Deleted
  <2>2. CASE key = c
    <3>1. key' = None /\ ttl' = 0 /\ 0 \in 0 .. TTL
      BY <2>1, <2>2, IntervalType
    <3> QED BY <2>1, <2>2, <3>1, EndOf
  <2>3. CASE key = None
    <3>1. key' = key /\ ttl' = 0 /\ 0 \in 0 .. TTL
      BY <2>1, <2>3, IntervalType
    <3> QED BY <2>1, <2>3, <3>1, LockAssumption, EndOf
  <2>4. CASE key # c /\ key # None
    BY <2>1, <2>4, EndOf
  <2> QED BY <2>2, <2>3, <2>4
<1>5. CASE UnlockFails(c) \/ Crash(c)
  BY <1>5, EndOf DEF UnlockFails, Crash, Abandon
<1> QED BY <1>1, <1>2, <1>3, <1>4, <1>5

\* A unit of time uses up a unit of the margin and a unit of what it is for.
LEMMA ElapseKeeps ==
    ASSUME LockInv, Elapse
    PROVE  LockInv'
<1>1. /\ ttl \in 0 .. TTL /\ ttl' = (IF ttl > 0 THEN ttl - 1 ELSE 0)
      /\ key' = IF ttl > 1 THEN key ELSE None
  BY DEF LockInv, LockTypeOK, Elapse
<1>2. ASSUME NEW c \in Clients
      PROVE  sess'[c] \in Session /\ Sound(sess'[c], key', ttl', c)
  <2> DEFINE s == sess[c]
             n == sess'[c]
  <2>1. s \in Session /\ Sound(s, key, ttl, c)
    BY DEF LockInv, LockTypeOK
  <2>2. n = Older(s)
    BY DEF Elapse
  <2>3. /\ n.pc = s.pc /\ n.released = s.released /\ n.loop = s.loop
        /\ n.late = (s.late \/ Delayed(s))
        /\ n.lag = (IF InCall(s) /\ ~n.late THEN s.lag + 1 ELSE 0)
        /\ n.phase = (IF s.loop = "off" \/ s.phase + 1 = RefreshInterval THEN 0 ELSE s.phase + 1)
        /\ n.ready = (s.loop # "off" /\ (s.ready \/ s.phase + 1 = RefreshInterval))
    BY <2>1, <2>2 DEF Older, Session
  <2>4. s.phase \in 0 .. RefreshInterval - 1 /\ s.lag \in 0 .. Lag /\ s.ready \in BOOLEAN
        /\ s.released \in BOOLEAN /\ s.late \in BOOLEAN
    BY <2>1 DEF Session
  <2>d. ~n.late => /\ ~s.late
                   /\ InCall(s) => s.lag < Lag
                   /\ s.loop = "wait" => ~s.ready
    <3> SUFFICES ASSUME ~n.late PROVE ~s.late /\ (InCall(s) => s.lag < Lag)
                                      /\ (s.loop = "wait" => ~s.ready)
      OBVIOUS
    <3>1. ~s.late /\ ~Delayed(s)
      BY <2>3
    <3>2. (InCall(s) => s.lag # Lag) /\ (s.loop = "wait" => ~s.ready)
      BY <3>1 DEF Delayed
    <3> QED BY <2>4, <3>1, <3>2, IntervalType
  <2>5. n.phase \in 0 .. RefreshInterval - 1 /\ n.lag \in 0 .. Lag
        /\ n.ready \in BOOLEAN /\ n.late \in BOOLEAN
    BY <2>3, <2>4, <2>d, IntervalType DEF Delayed, InCall
  <2>6. n \in Session
    <3>1. n = [s EXCEPT !.lag = n.lag, !.phase = n.phase, !.ready = n.ready, !.late = n.late]
      BY <2>1, <2>2, <2>3 DEF Older, Session
    <3> QED BY <2>1, <2>5, <3>1 DEF Session
  <2> HIDE DEF n
  <2>7. WellFormed(n)
    BY <2>1, <2>3 DEF Sound, WellFormed
  <2>8. ASSUME NeedsKey(n) PROVE key' = c /\ Margin(n, ttl')
    <3>n. ~n.late
      BY <2>8 DEF NeedsKey
    <3>1. NeedsKey(s) /\ key = c /\ Margin(s, ttl) /\ WellFormed(s)
      BY <2>1, <2>3, <2>8, <2>d DEF NeedsKey, Sound
    <3>2. CASE s.pc = "obtaining"
      <4>1. s.loop = "off" /\ InCall(s)
        BY <3>1, <3>2 DEF WellFormed, InCall
      <4>2. ttl > 1
        BY <1>1, <2>d, <2>4, <3>n, <3>1, <3>2, <4>1, IntervalType DEF Margin
      <4> QED BY <1>1, <2>d, <3>n, <2>3, <2>4, <3>1, <3>2, <4>1, <4>2, IntervalType DEF Margin
    <3>3. CASE s.pc # "obtaining" /\ s.loop = "wait"
      <4>1. ~InCall(s) /\ ~s.ready
        BY <2>d, <3>n, <3>3 DEF InCall
      <4>2. ttl > 1 /\ ttl > Lag + RefreshInterval - s.phase
        BY <1>1, <2>4, <3>1, <3>3, <4>1, IntervalType DEF Margin
      <4>3. key' = c /\ ttl' = ttl - 1 /\ n.loop = "wait" /\ n.pc # "obtaining"
        BY <1>1, <2>3, <3>1, <3>3, <4>2
      <4>4. CASE s.phase + 1 = RefreshInterval
        <5>1. n.ready
          BY <2>3, <3>3, <4>4
        <5>2. ttl' > Lag
          BY <1>1, <2>4, <4>2, <4>3, <4>4, IntervalType
        <5> QED BY <4>3, <5>1, <5>2, IntervalType DEF Margin
      <4>5. CASE s.phase + 1 # RefreshInterval
        <5>1. ~n.ready /\ n.phase = s.phase + 1
          BY <2>3, <3>3, <4>1, <4>5
        <5>2. ttl' > Lag + (RefreshInterval - n.phase)
          BY <1>1, <2>4, <4>2, <4>3, <5>1, IntervalType
        <5> QED BY <4>3, <5>1, <5>2 DEF Margin
      <4> QED BY <4>3, <4>4, <4>5
    <3>4. CASE s.pc # "obtaining" /\ s.loop \in {"call", "ok", "failed", "report"}
      <4>1. InCall(s)
        BY <3>4 DEF InCall
      <4>2. ttl > 1
        BY <1>1, <2>d, <2>4, <3>n, <3>1, <3>4, <4>1, IntervalType DEF Margin
      <4> QED BY <1>1, <2>d, <3>n, <2>3, <2>4, <3>1, <3>4, <4>1, <4>2, IntervalType DEF Margin
    <3>5. s.pc = "obtaining" \/ s.loop # "off"
      BY <3>1 DEF NeedsKey, WellFormed
    <3> QED BY <2>1, <3>2, <3>3, <3>4, <3>5 DEF Session
  <2> QED BY <2>6, <2>7, <2>8 DEF Sound, n
<1>3. LockTypeOK'
  <2>1. sess' \in [Clients -> Session]
    <3>1. sess' = [c \in Clients |-> sess'[c]]
      BY DEF Elapse
    <3> QED BY <3>1, <1>2
  <2> QED BY <1>1, <2>1, IntervalType DEF LockInv, LockTypeOK
<1> QED BY <1>2, <1>3 DEF LockInv

-----------------------------------------------------------------------------
\* The invariant is inductive.
THEOREM LockInvariant == LockSpec => []LockInv
<1>1. LockInit => LockInv
  BY NoSessionSound, IntervalType DEF LockInit, LockInv, LockTypeOK
<1>2. LockInv /\ [LockNext]_lockVars => LockInv'
  <2> SUFFICES ASSUME LockInv, [LockNext]_lockVars PROVE LockInv'
    OBVIOUS
  <2>1. CASE Elapse
    BY <2>1, ElapseKeeps
  <2>2. ASSUME NEW c \in Clients, clientStep(c) PROVE LockInv'
    BY <2>2, ObtainKeeps, RefreshKeeps, ReleaseKeeps DEF clientStep
  <2>3. CASE UNCHANGED lockVars
    BY <2>3 DEF lockVars, LockInv, LockTypeOK
  <2> QED BY <2>1, <2>2, <2>3 DEF LockNext
<1> QED BY <1>1, <1>2, PTL DEF LockSpec

\* IsReleased() = false means that the key is the session's: with refreshes two seconds
\* (or half the TTL) ahead, as long as the session's calls take less than half of that and
\* its loop is prompt, no failure, crash or slowness of the holder's task, and nothing any
\* other client does, lets another client obtain the lock behind its back.
THEOREM ClaimBacked == LockSpec => []ClaimIsBacked
<1>1. LockInv => ClaimIsBacked
  BY DEF LockInv, Sound, NeedsKey, Counts, Claims, ClaimIsBacked
<1> QED BY <1>1, LockInvariant, PTL

-----------------------------------------------------------------------------
(* SessionLock implements Lease.                                            *)

\* A step of client c that neither obtains the key nor begins to count on it: it may
\* let the key go, if the invariant holds after it, and give up its claim.
LEMMA LettingGo ==
    ASSUME LockInv, LockInv', NEW c \in Clients, NEW s \in Session,
           sess' = [sess EXCEPT ![c] = s],
           s.pc = "held" /\ ~s.released /\ ~s.late => Counts(c),
           key' = key \/ (key = c /\ key' \in {None, Orphan})
    PROVE  [Granted!LeaseNext]_(Granted!leaseVars)
<1> DEFINE C == {d \in Clients : Counts(d)}
           H == IF key = Orphan THEN None ELSE key
<1>1. /\ c # None /\ c # Orphan
      /\ (key = c => H = c) /\ (key' = key => H' = H) /\ (key' \in {None, Orphan} => H' = None)
  BY LockAssumption
<1>2. \A d \in Clients \ {c} : Counts(d)' <=> Counts(d)
  BY DEF Counts, Claims, LockInv, LockTypeOK
<1>3. Counts(c)' => Counts(c) /\ key' = c
  BY DEF Counts, Claims, LockInv, LockTypeOK, Sound, NeedsKey
<1>4. CASE Counts(c) /\ ~Counts(c)'
  <2>1. c \in C /\ C' = C \ {c}
    BY <1>2, <1>4
  <2>2. H' = H \/ (H = c /\ H' = None)
    BY <1>1
  <2>3. Granted!GiveUp(c)
    BY <2>1, <2>2 DEF Granted!GiveUp
  <2> QED BY <2>3 DEF Granted!LeaseNext
<1>5. CASE Counts(c) <=> Counts(c)'
  <2>1. C' = C
    BY <1>2, <1>5
  <2>2. CASE key' = key
    BY <1>1, <2>1, <2>2 DEF Granted!leaseVars
  <2>3. CASE key = c /\ key' \in {None, Orphan}
    <3>1. c \notin C
      BY <1>1, <1>3, <1>5, <2>3
    <3>2. Granted!Revoke
      BY <1>1, <2>1, <2>3, <3>1 DEF Granted!Revoke
    <3> QED BY <3>2 DEF Granted!LeaseNext
  <2> QED BY <2>2, <2>3
<1> QED BY <1>3, <1>4, <1>5

\* Time takes the key from nobody who counts on it afterwards, as the invariant holds
\* then: a client that is late gives up as the lease is taken, and there is only one.
LEMMA ElapseRevokes ==
    ASSUME LockInv, LockInv', Elapse
    PROVE  [Granted!LeaseNext]_(Granted!leaseVars)
<1> DEFINE C == {d \in Clients : Counts(d)}
           H == IF key = Orphan THEN None ELSE key
<1>1. ASSUME NEW d \in Clients, Counts(d)' PROVE Counts(d)
  <2>1. sess'[d] = Older(sess[d]) /\ sess[d] \in Session
    BY DEF Elapse, LockInv, LockTypeOK
  <2>2. /\ sess'[d].pc = sess[d].pc /\ sess'[d].released = sess[d].released
        /\ ~sess'[d].late => ~sess[d].late
    BY <2>1 DEF Older, Session
  <2> QED BY <1>1, <2>2 DEF Counts, Claims
<1>2. ASSUME NEW d \in Clients, Counts(d) PROVE key = d /\ H = d
  BY <1>2, LockAssumption DEF Counts, Claims, LockInv, Sound, NeedsKey
<1>3. key' = key \/ key' = None
  BY DEF Elapse
<1>4. H' = H \/ H' = None
  BY <1>3, LockAssumption
<1>5. CASE C' = C
  <2>1. CASE H' = H
    BY <1>5, <2>1 DEF Granted!leaseVars
  <2>2. CASE H' # H
    <3>1. H # None /\ H' = None /\ key' = None
      BY <1>3, <1>4, <2>2
    <3>2. H \notin C
      <4> SUFFICES ASSUME H \in C PROVE FALSE
        OBVIOUS
      <4>1. PICK d \in Clients : d = H /\ d \in C'
        BY <1>5
      <4>2. key' = d
        BY <4>1 DEF Counts, Claims, LockInv, Sound, NeedsKey
      <4> QED BY <3>1, <4>1, <4>2
    <3>3. Granted!Revoke
      BY <1>5, <3>1, <3>2 DEF Granted!Revoke
    <3> QED BY <3>3 DEF Granted!LeaseNext
  <2> QED BY <2>1, <2>2
<1>6. CASE C' # C
  <2>1. PICK d \in Clients : d \in C /\ d \notin C'
    BY <1>1, <1>6
  <2>2. H = d /\ C = {d} /\ C' = {}
    BY <1>1, <1>2, <2>1
  <2>3. Granted!GiveUp(d)
    BY <1>4, <2>2 DEF Granted!GiveUp
  <2> QED BY <2>3 DEF Granted!LeaseNext
<1> QED BY <1>5, <1>6

\* The steps by which a client gets the lock: redis sets the key, the answer comes, or a
\* refresh that was late finds the key there.
LEMMA Obtained ==
    ASSUME LockInv, LockInv', NEW c \in Clients,
           Obtain(c) \/ ObtainReturns(c) \/ (refreshExec(c) /\ key = c)
    PROVE  [Granted!LeaseNext]_(Granted!leaseVars)
<1> DEFINE C == {d \in Clients : Counts(d)}
           H == IF key = Orphan THEN None ELSE key
<1>1. \A d \in Clients \ {c} : Counts(d)' <=> Counts(d)
  BY DEF Counts, Claims, LockInv, LockTypeOK, Obtain, ObtainReturns, refreshExec
<1>2. CASE Obtain(c)
  <2>1. ~Counts(c) /\ ~Counts(c)'
    BY <1>2 DEF Counts, Claims, Obtain, LockInv, LockTypeOK, Session
  <2>2. C' = C
    BY <1>1, <2>1
  <2>3. H = None /\ H' = c
    BY <1>2, LockAssumption DEF Obtain
  <2>4. Granted!Grant(c)
    BY <2>2, <2>3 DEF Granted!Grant
  <2> QED BY <2>4 DEF Granted!LeaseNext
<1>3. CASE ObtainReturns(c) \/ (refreshExec(c) /\ key = c)
  <2>1. key' = key
    BY <1>3 DEF ObtainReturns, refreshExec
  <2>2. CASE Counts(c)'
    <3>1. C' = C \cup {c}
      BY <1>1, <2>2
    <3>2. key = c
      BY <2>1, <2>2 DEF Counts, Claims, LockInv, Sound, NeedsKey
    <3>3. H = c /\ H' = H
      BY <2>1, <3>2, LockAssumption
    <3>4. Granted!Learn(c)
      BY <3>1, <3>3 DEF Granted!Learn
    <3> QED BY <3>4 DEF Granted!LeaseNext
  <2>3. CASE ~Counts(c)'
    <3>1. ~Counts(c)
      BY <1>3, <2>3 DEF Counts, Claims, ObtainReturns, refreshExec, LockInv, LockTypeOK, Session
    <3>2. C' = C /\ H' = H
      BY <1>1, <2>1, <2>3, <3>1
    <3> QED BY <3>2 DEF Granted!leaseVars
  <2> QED BY <2>2, <2>3
<1> QED BY <1>2, <1>3

\* The rest of what a client does only lets go.
LEMMA LetsGo ==
    ASSUME LockInv, LockInv', NEW c \in Clients, clientStep(c),
           ~Obtain(c), ~ObtainReturns(c), ~(refreshExec(c) /\ key = c)
    PROVE  [Granted!LeaseNext]_(Granted!leaseVars)
<1> DEFINE s == sess'[c]
<1>1. sess' = [sess EXCEPT ![c] = s] /\ s \in Session
  BY DEF LockInv, LockTypeOK, clientStep, refreshStep, ObtainFails, refreshTick, refreshExec,
         refreshFails, refreshReturns, refreshChecks, refreshReports, refreshEnds, Release,
         StopReturns, Unlock, UnlockFails, Crash
<1>2. s.pc = "held" /\ ~s.released /\ ~s.late => Counts(c)
  <2>0. sess \in [Clients -> Session]
    BY DEF LockInv, LockTypeOK
  <2>1. CASE refreshTick(c) \/ refreshExec(c) \/ refreshFails(c) \/ refreshReturns(c)
             \/ refreshChecks(c) \/ refreshReports(c) \/ refreshEnds(c)
    BY <2>0, <2>1 DEF refreshTick, refreshExec, refreshFails, refreshReturns, refreshChecks,
         refreshReports, refreshEnds, Counts, Claims, Session
  <2>2. CASE Release(c)
    <3>1. CASE sess[c].released
      BY <2>0, <2>2, <3>1 DEF Release, NoSession
    <3>2. CASE ~sess[c].released
      BY <2>0, <2>2, <3>2 DEF Release, Session
    <3> QED BY <3>1, <3>2
  <2>3. CASE StopReturns(c)
    BY <2>0, <2>3 DEF StopReturns, Session
  <2>4. CASE ObtainFails(c) \/ Unlock(c) \/ UnlockFails(c) \/ Crash(c)
    BY <2>0, <2>4 DEF ObtainFails, Unlock, UnlockFails, Crash, NoSession
  <2> QED BY <2>1, <2>2, <2>3, <2>4 DEF clientStep, refreshStep
<1>3. key' = key \/ (key = c /\ key' \in {None, Orphan})
  BY DEF clientStep, refreshStep, ObtainFails, refreshTick, refreshExec,
         refreshFails, refreshReturns, refreshChecks, refreshReports, refreshEnds, Release,
         StopReturns, Unlock, UnlockFails, Crash, Abandon, Deleted
<1> HIDE DEF s
<1> QED BY <1>1, <1>2, <1>3, LettingGo

\* SessionLock implements Lease: of the server's key and the clients' claims, every step
\* is one that a lease allows, so the key never leaves a client that counts on it.
THEOREM LockIsLease == LockSpec => ImplementsLease
<1>1. LockInit => Granted!LeaseInit
  BY LockAssumption DEF LockInit, Granted!LeaseInit, Counts, Claims, NoSession
<1>2. LockInv /\ LockInv' /\ [LockNext]_lockVars => [Granted!LeaseNext]_(Granted!leaseVars)
  <2> SUFFICES ASSUME LockInv, LockInv', [LockNext]_lockVars
               PROVE  [Granted!LeaseNext]_(Granted!leaseVars)
    OBVIOUS
  <2>1. CASE Elapse
    BY <2>1, ElapseRevokes
  <2>2. ASSUME NEW c \in Clients, clientStep(c)
        PROVE  [Granted!LeaseNext]_(Granted!leaseVars)
    BY <2>2, Obtained, LetsGo
  <2>3. CASE UNCHANGED lockVars
    BY <2>3 DEF lockVars, Granted!leaseVars, Counts, Claims
  <2> QED BY <2>1, <2>2, <2>3 DEF LockNext
<1> QED BY <1>1, <1>2, LockInvariant, PTL DEF LockSpec, ImplementsLease, Granted!LeaseSpec

-----------------------------------------------------------------------------
(* The scheduler.                                                           *)


\* Every step of the scheduler is a step of its lock, or leaves the lock alone.
LEMMA SchedStepIsLockStep == [SchedNext]_allVars => [LockNext]_lockVars
<1> SUFFICES ASSUME [SchedNext]_allVars PROVE [LockNext]_lockVars
  OBVIOUS
<1>1. ASSUME NEW i \in Clients, loopStep(i) PROVE clientStep(i) \/ UNCHANGED lockVars
  BY <1>1 DEF loopStep, invoke, endLoop, readNextTime, obtainLock, obtainRefused, taskBegins,
              taskReturns, releaseLock, clientStep
<1>2. ASSUME NEW i \in Clients, \/ obtainFails(i) \/ refreshLock(i) \/ refreshBreaks(i) \/ crash(i)
      PROVE clientStep(i)
  BY <1>2 DEF obtainFails, refreshLock, refreshBreaks, crash, clientStep, refreshStep
<1>3. ASSUME NEW i \in Clients, Start(i) \/ Stop(i) \/ closeClient(i) \/ setNextTime(i)
      PROVE UNCHANGED lockVars
  BY <1>3 DEF Start, Stop, closeClient, setNextTime
<1>4. CASE timePasses
  BY <1>4 DEF timePasses, LockNext
<1>5. CASE timeComes \/ UNCHANGED allVars
  BY <1>5 DEF timeComes, allVars
<1> QED BY <1>1, <1>2, <1>3, <1>4, <1>5 DEF SchedNext, LockNext

\* The scheduler implements SessionLock, and with it Lease: what is proved of the lock
\* holds of its use.
THEOREM SchedulerUsesLock == SchedSpec => UsesSessionLock
<1>1. SchedInit => LockInit
  BY DEF SchedInit
<1>2. SchedSpec => LockSpec
  BY <1>1, SchedStepIsLockStep, PTL DEF SchedSpec, LockSpec
<1> QED BY <1>2, LockIsLease DEF UsesSessionLock

-----------------------------------------------------------------------------
\* A task runs within a session that has not been released by its instance.
RunsInSession(i) == inst[i].pc = "run" => sess[i].pc = "held"

\* The first run on a stale reading uses the reading up: the instance reads again,
\* and while the next time has not come it gets no further.
StaleUsedUp(i) ==
    /\ staleRuns[i] \in {0, 1}
    /\ staleRuns[i] = 1 => ~due /\ inst[i].pc \notin {"lock", "obtain"}

SchedInv ==
    /\ inst \in [Clients -> Instance]
    /\ due \in BOOLEAN
    /\ staleRuns \in [Clients -> {0, 1}]
    /\ \A i \in Clients : RunsInSession(i) /\ StaleUsedUp(i)

\* A step of instance i alone: the others keep what they have, the next time is not
\* reached, and the invariant is kept for i.
LEMMA InstanceStep ==
    ASSUME SchedInv, NEW i \in Clients, NEW n \in Instance,
           inst' = [inst EXCEPT ![i] = n],
           \A j \in Clients \ {i} : sess'[j].pc = sess[j].pc,
           n.pc = "run" => sess'[i].pc = "held",
           due' \in BOOLEAN, due' => due,
           staleRuns' \in [Clients -> {0, 1}],
           \A j \in Clients \ {i} : staleRuns'[j] = staleRuns[j],
           staleRuns'[i] = 1 => ~due' /\ n.pc \notin {"lock", "obtain"}
    PROVE  SchedInv'
<1>1. ASSUME NEW j \in Clients PROVE RunsInSession(j)' /\ StaleUsedUp(j)'
  <2>1. CASE j = i
    BY <2>1 DEF SchedInv, RunsInSession, StaleUsedUp
  <2>2. CASE j # i
    <3>1. inst'[j] = inst[j] /\ sess'[j].pc = sess[j].pc /\ staleRuns'[j] = staleRuns[j]
      BY <2>2 DEF SchedInv
    <3> QED BY <3>1 DEF SchedInv, RunsInSession, StaleUsedUp
  <2> QED BY <2>1, <2>2
<1> QED BY <1>1 DEF SchedInv

\* The steps that leave the lock alone.
LEMMA QuietKeeps ==
    ASSUME SchedInv, NEW i \in Clients,
           \/ Start(i) \/ Stop(i) \/ closeClient(i) \/ invoke(i) \/ endLoop(i)
           \/ readNextTime(i) \/ obtainRefused(i) \/ setNextTime(i) \/ taskReturns(i)
    PROVE  SchedInv'
<1>0. inst[i] \in Instance /\ RunsInSession(i) /\ StaleUsedUp(i) /\ due \in BOOLEAN
      /\ staleRuns \in [Clients -> {0, 1}]
  BY DEF SchedInv
<1>1. ASSUME NEW n \in Instance, inst' = [inst EXCEPT ![i] = n], UNCHANGED <<lockVars, due, staleRuns>>,
             n.pc = "run" => inst[i].pc = "run",
             n.pc \in {"lock", "obtain"} => inst[i].pc \in {"lock", "obtain"} \/ due
      PROVE  SchedInv'
  BY <1>0, <1>1, InstanceStep DEF RunsInSession, StaleUsedUp, lockVars
<1>2. CASE Start(i)
  <2> DEFINE n == [inst[i] EXCEPT !.isRunning = TRUE, !.pc = "wait"]
  <2>1. n \in Instance /\ n.pc = "wait"
    BY <1>0 DEF Instance
  <2>2. inst' = [inst EXCEPT ![i] = n] /\ UNCHANGED <<lockVars, due, staleRuns>>
    BY <1>2 DEF Start
  <2> HIDE DEF n
  <2> QED BY <1>1, <2>1, <2>2
<1>3. CASE Stop(i)
  <2> DEFINE n == [inst[i] EXCEPT !.isRunning = FALSE, !.cancelled = TRUE]
  <2>1. n \in Instance /\ n.pc = inst[i].pc
    BY <1>0 DEF Instance
  <2>2. inst' = [inst EXCEPT ![i] = n] /\ UNCHANGED <<lockVars, due, staleRuns>>
    BY <1>3 DEF Stop
  <2> HIDE DEF n
  <2> QED BY <1>1, <2>1, <2>2
<1>4. CASE closeClient(i)
  <2> DEFINE n == [inst[i] EXCEPT !.closed = TRUE]
  <2>1. n \in Instance /\ n.pc = inst[i].pc
    BY <1>0 DEF Instance
  <2>2. inst' = [inst EXCEPT ![i] = n] /\ UNCHANGED <<lockVars, due, staleRuns>>
    BY <1>4 DEF closeClient
  <2> HIDE DEF n
  <2> QED BY <1>1, <2>1, <2>2
<1>5. CASE invoke(i) \/ endLoop(i) \/ readNextTime(i) \/ obtainRefused(i) \/ taskReturns(i)
  <2>1. PICK q \in {"wait", "read", "lock", "release", "ended"} :
            Goto(i, q) /\ (q = "lock" => due)
    BY <1>5 DEF invoke, endLoop, readNextTime, isTaskNextInvokeTimeUp, obtainRefused, taskReturns
  <2>2. UNCHANGED <<lockVars, due, staleRuns>>
    BY <1>5 DEF invoke, endLoop, readNextTime, obtainRefused, taskReturns
  <2> DEFINE n == [inst[i] EXCEPT !.pc = q]
  <2>3. n \in Instance /\ n.pc = q
    BY <1>0 DEF Instance
  <2>4. inst' = [inst EXCEPT ![i] = n]
    BY <2>1 DEF Goto
  <2> HIDE DEF n
  <2> QED BY <1>1, <2>1, <2>2, <2>3, <2>4
<1>6. CASE setNextTime(i)
  BY <1>6 DEF setNextTime, SchedInv, RunsInSession, StaleUsedUp, lockVars
<1> QED BY <1>2, <1>3, <1>4, <1>5, <1>6

\* The steps of the loop that use the lock, and a crash.
LEMMA LockedKeeps ==
    ASSUME SchedInv, LockInv, NEW i \in Clients,
           \/ obtainLock(i) \/ taskBegins(i) \/ obtainFails(i) \/ releaseLock(i) \/ crash(i)
    PROVE  SchedInv'
<1>0. inst[i] \in Instance /\ StaleUsedUp(i) /\ due \in BOOLEAN
      /\ staleRuns \in [Clients -> {0, 1}] /\ sess \in [Clients -> Session]
  BY DEF SchedInv, LockInv, LockTypeOK
<1>1. \A j \in Clients \ {i} : sess'[j].pc = sess[j].pc
  BY <1>0 DEF obtainLock, taskBegins, obtainFails, releaseLock, crash,
         Obtain, ObtainReturns, ObtainFails, Release, StopReturns, Unlock, UnlockFails, Crash
<1>2. ASSUME NEW q \in {"wait", "obtain", "release"}, Goto(i, q),
             UNCHANGED <<due, staleRuns>>, q = "obtain" => inst[i].pc = "lock"
      PROVE  SchedInv'
  <2> DEFINE n == [inst[i] EXCEPT !.pc = q]
  <2>1. n \in Instance /\ n.pc = q
    BY <1>0 DEF Instance
  <2>2. inst' = [inst EXCEPT ![i] = n]
    BY <1>2 DEF Goto
  <2> HIDE DEF n
  <2> QED BY <1>0, <1>1, <1>2, <2>1, <2>2, InstanceStep DEF StaleUsedUp
<1>3. CASE obtainLock(i) \/ obtainFails(i)
  BY <1>2, <1>3 DEF obtainLock, obtainFails
<1>4. CASE taskBegins(i)
  <2> DEFINE n == [inst[i] EXCEPT !.pc = "run"]
  <2>1. n \in Instance /\ n.pc = "run"
    BY <1>0 DEF Instance
  <2>2. inst' = [inst EXCEPT ![i] = n] /\ due' = due /\ inst[i].pc = "obtain"
        /\ staleRuns' = [staleRuns EXCEPT ![i] = IF due THEN @ ELSE @ + 1]
    BY <1>4 DEF taskBegins, Goto
  <2>3. sess'[i].pc = "held"
    BY <1>0, <1>4 DEF taskBegins, ObtainReturns, NoSession
  <2>4. staleRuns[i] = 0
    BY <1>0, <2>2 DEF StaleUsedUp
  <2>5. /\ staleRuns' \in [Clients -> {0, 1}] /\ (staleRuns'[i] = 1 => ~due)
        /\ \A j \in Clients \ {i} : staleRuns'[j] = staleRuns[j]
    BY <1>0, <2>2, <2>4
  <2> HIDE DEF n
  <2> QED BY <1>0, <1>1, <2>1, <2>2, <2>3, <2>5, InstanceStep
<1>5. CASE releaseLock(i)
  <2>1. CASE UNCHANGED inst
    <3>1. inst[i].pc = "release" /\ inst' = [inst EXCEPT ![i] = inst[i]] /\ UNCHANGED <<due, staleRuns>>
      BY <1>5, <2>1 DEF releaseLock, SchedInv
    <3> QED BY <1>0, <1>1, <3>1, InstanceStep DEF StaleUsedUp
  <2>2. CASE Goto(i, "wait") \/ Goto(i, "release")
    BY <1>2, <1>5, <2>2 DEF releaseLock
  <2> QED BY <1>5, <2>1, <2>2 DEF releaseLock
<1>6. CASE crash(i)
  <2> DEFINE n == [inst[i] EXCEPT !.pc = "ended", !.isRunning = FALSE]
  <2>1. n \in Instance /\ n.pc = "ended"
    BY <1>0 DEF Instance
  <2>2. inst' = [inst EXCEPT ![i] = n] /\ UNCHANGED <<due, staleRuns>>
    BY <1>6 DEF crash
  <2> HIDE DEF n
  <2> QED BY <1>0, <1>1, <2>1, <2>2, InstanceStep DEF StaleUsedUp
<1> QED BY <1>3, <1>4, <1>5, <1>6

\* The refresh loops and time do not end a session.
LEMMA BackgroundKeeps ==
    ASSUME SchedInv, LockInv,
           \/ timePasses \/ timeComes \/ UNCHANGED allVars
           \/ \E i \in Clients : refreshLock(i) \/ refreshBreaks(i)
    PROVE  SchedInv'
<1>0. sess \in [Clients -> Session]
  BY DEF LockInv, LockTypeOK
<1>1. ASSUME UNCHANGED schedVars, \A j \in Clients : sess'[j].pc = sess[j].pc
      PROVE  SchedInv'
  BY <1>1 DEF SchedInv, RunsInSession, StaleUsedUp, schedVars
<1>2. ASSUME NEW i \in Clients, refreshLock(i) \/ refreshBreaks(i) PROVE SchedInv'
  <2>1. ASSUME NEW j \in Clients PROVE sess'[j].pc = sess[j].pc
    <3>1. CASE refreshTick(i) \/ refreshExec(i) \/ refreshFails(i) \/ refreshReturns(i)
      BY <1>0, <3>1 DEF refreshTick, refreshExec, refreshFails, refreshReturns, Session
    <3>2. CASE refreshChecks(i)
      BY <1>0, <3>2 DEF refreshChecks, Session
    <3>3. CASE refreshReports(i) \/ refreshEnds(i)
      BY <1>0, <3>3 DEF refreshReports, refreshEnds, Session
    <3> QED BY <1>2, <3>1, <3>2, <3>3 DEF refreshLock, refreshBreaks
  <2> QED BY <1>1, <1>2, <2>1 DEF refreshLock, refreshBreaks
<1>3. CASE timePasses
  <2>1. ASSUME NEW j \in Clients PROVE sess'[j].pc = sess[j].pc
    <3>1. sess'[j] = Older(sess[j]) /\ sess[j] \in Session
      BY <1>0, <1>3 DEF timePasses, Elapse
    <3> QED BY <3>1 DEF Older, Session
  <2> QED BY <1>1, <1>3, <2>1 DEF timePasses
<1>4. CASE timeComes
  BY <1>4 DEF timeComes, SchedInv, RunsInSession, StaleUsedUp, lockVars
<1>5. CASE UNCHANGED allVars
  BY <1>1, <1>5 DEF allVars, lockVars
<1> QED BY <1>2, <1>3, <1>4, <1>5

\* The invariant of the instances, on top of the one of the lock.
THEOREM SchedulerInvariant == SchedSpec => [](SchedInv /\ LockInv)
<1>1. SchedInit => SchedInv
  BY DEF SchedInit, SchedInv, NewScheduler, Instance, RunsInSession, StaleUsedUp
<1>2. SchedInv /\ LockInv /\ [SchedNext]_allVars => SchedInv'
  BY QuietKeeps, LockedKeeps, BackgroundKeeps DEF SchedNext, loopStep
<1> QED BY <1>1, <1>2, SchedulerUsesLock, LockInvariant, PTL DEF SchedSpec, UsesSessionLock

\* Session, key and instance records stay well formed.
THEOREM SchedulerTypes == SchedSpec => []SchedTypeOK
<1>1. SchedInv /\ LockInv => SchedTypeOK
  BY DEF SchedInv, LockInv, SchedTypeOK
<1> QED BY <1>1, SchedulerInvariant, PTL

\* Two instances run the task at once only when one of them has lost its session or is
\* late: each of two claims that are in time would be backed by the one key.
THEOREM ExclusiveRuns == SchedSpec => []ExclusiveUnlessLost
<1>1. SchedInv /\ LockInv => ExclusiveUnlessLost
  <2> SUFFICES ASSUME SchedInv, LockInv, NEW i \in Clients, NEW j \in Clients,
                      i # j, Running(i), Running(j),
                      ~sess[i].released, ~sess[j].released, ~sess[i].late, ~sess[j].late
               PROVE  FALSE
    BY DEF ExclusiveUnlessLost
  <2>1. key = i
    BY DEF SchedInv, LockInv, Sound, NeedsKey, RunsInSession, Running
  <2>2. key = j
    BY DEF SchedInv, LockInv, Sound, NeedsKey, RunsInSession, Running
  <2> QED BY <2>1, <2>2
<1> QED BY <1>1, SchedulerInvariant, PTL

\* The next time is checked before the lock is obtained; the window costs every
\* instance one early run at most.
THEOREM StaleRunsBounded == SchedSpec => []OneStaleRun
<1>1. SchedInv => OneStaleRun
  <2> SUFFICES ASSUME SchedInv, NEW i \in Clients PROVE staleRuns[i] <= 1
    BY DEF OneStaleRun
  <2>1. staleRuns[i] \in {0, 1}
    BY DEF SchedInv
  <2> QED BY <2>1
<1> QED BY <1>1, SchedulerInvariant, PTL
=============================================================================
