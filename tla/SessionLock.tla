----------------------------- MODULE SessionLock -----------------------------
(***************************************************************************)
(* rdb/locker.go: a lock kept in a redis key with a TTL.  Whoever obtains  *)
(* it gets a SessionLock, whose background loop refreshes the key until    *)
(* Release, and gives the claim up when a refresh fails.                   *)
(*                                                                         *)
(* Time advances in units, and nothing holds it up: the calls have no      *)
(* deadline of their own and the loop may come late to a tick.  A session  *)
(* one of whose calls has taken more than Lag units, or whose loop has let *)
(* a tick wait, is late until redis next extends its key.  The redis       *)
(* scripts of the redislock library compare the token of the session: a    *)
(* client has one session at a time, and the token of a session that is    *)
(* over without having released its key is Orphan.                         *)
(***************************************************************************)
EXTENDS Integers

CONSTANTS
    Clients,    \* each with at most one session at a time
    None,       \* the absent key
    Orphan,     \* the token of a session that is over
    TTL,        \* lockTTL
    Second,     \* a second, in units of time
    Lag,        \* the longest call to redis that the margin of a refresh allows for
    Slow        \* the clients whose calls and loop may be late: all of them, in the code

\* refreshBgTask: two seconds before the key expires, or half way.
RefreshInterval == IF TTL > 2 * Second THEN TTL - 2 * Second ELSE TTL \div 2

ASSUME LockAssumption ==
    /\ None \notin Clients /\ Orphan \notin Clients /\ None # Orphan
    /\ Slow \subseteq Clients
    /\ TTL \in Nat /\ Second \in Nat \ {0} /\ Lag \in Nat

\* The margin of the interval covers the call that obtains and the one that refreshes.
ASSUME LagAssumption ==
    /\ RefreshInterval > 0
    /\ RefreshInterval + 2 * Lag < TTL

VARIABLES
    key,    \* redis: the token in the key
    ttl,    \* redis: what is left of its TTL
    sess    \* the session of every client

lockVars == <<key, ttl, sess>>

\* pc     where the client is in obtainLock and Release
\* released  isReleased
\* loop   refreshBgTask: waiting for a tick, in Refresh (before and after redis answers),
\*        or past the test of isReleased with a failed refresh
\* phase, ready  time since the loop's ticker last ticked, and whether a tick waits
\* lag    time since the outstanding call began, as long as it is not late
\* late   history: a call took longer than Lag, or a tick waited, since redis last set
\*        the key's TTL
Session == [pc : {"none", "obtaining", "held", "stopping", "unlocking"},
            released : BOOLEAN,
            loop : {"off", "wait", "call", "ok", "failed", "report"},
            phase : 0 .. RefreshInterval - 1, ready : BOOLEAN, lag : 0 .. Lag,
            late : BOOLEAN]
NoSession == [pc |-> "none", released |-> TRUE, loop |-> "off",
              phase |-> 0, ready |-> FALSE, lag |-> 0, late |-> FALSE]

LockTypeOK ==
    /\ key \in Clients \cup {None, Orphan}
    /\ ttl \in 0 .. TTL
    /\ sess \in [Clients -> Session]

\* The client's session is over: its token, if the key still has it, is nobody's.
Abandon(c) == key' = IF key = c THEN Orphan ELSE key

-----------------------------------------------------------------------------
(* Obtaining: Locker.obtainLock, ObtainSessionLock *)

\* SET NX PX reaches redis.  A key that is there leaves everything as it is, so that an
\* obtainLock with retries is an Obtain that comes later, or never.
Obtain(c) ==
    /\ sess[c].pc = "none"
    /\ key = None
    /\ key' = c
    /\ ttl' = TTL
    /\ sess' = [sess EXCEPT ![c].pc = "obtaining", ![c].lag = 0]

\* newSessionLock: the loop is started.
ObtainReturns(c) ==
    /\ sess[c].pc = "obtaining"
    /\ sess' = [sess EXCEPT ![c] = [NoSession EXCEPT !.pc = "held", !.released = FALSE,
                                                     !.loop = "wait",
                                                     !.late = sess[c].late]]
    /\ UNCHANGED <<key, ttl>>

\* The answer is lost.
ObtainFails(c) ==
    /\ sess[c].pc = "obtaining"
    /\ sess' = [sess EXCEPT ![c] = NoSession]
    /\ Abandon(c)
    /\ UNCHANGED ttl

-----------------------------------------------------------------------------
(* The loop of refreshBgTask *)

refreshTick(c) ==
    /\ sess[c].loop = "wait"
    /\ sess[c].ready
    /\ sess' = [sess EXCEPT ![c].loop = "call", ![c].ready = FALSE, ![c].lag = 0]
    /\ UNCHANGED <<key, ttl>>

\* The script: PEXPIRE when the token is ours.
refreshExec_NotExtending(c) ==
    /\ sess[c].loop = "call"
    /\ sess' = [sess EXCEPT ![c].loop = IF key = c THEN "ok" ELSE "failed",
                            ![c].late = @ /\ key # c]
    /\ UNCHANGED <<key, ttl>>
refreshExec(c) ==
    /\ sess[c].loop = "call"
    /\ sess' = [sess EXCEPT ![c].loop = IF key = c THEN "ok" ELSE "failed",
                            ![c].late = @ /\ key # c]
    /\ ttl' = IF key = c THEN TTL ELSE ttl
    /\ UNCHANGED key

\* The call fails, before or after redis has executed the script.
refreshFails(c) ==
    /\ sess[c].loop \in {"call", "ok"}
    /\ sess' = [sess EXCEPT ![c].loop = "failed"]
    /\ UNCHANGED <<key, ttl>>

refreshReturns(c) ==
    /\ sess[c].loop = "ok"
    /\ sess' = [sess EXCEPT ![c].loop = "wait", ![c].lag = 0]
    /\ UNCHANGED <<key, ttl>>

\* A failure after Release has begun is ignored.
refreshChecks(c) ==
    /\ sess[c].loop = "failed"
    /\ sess' = [sess EXCEPT ![c].loop = IF sess[c].released THEN "wait" ELSE "report",
                            ![c].lag = IF sess[c].released THEN 0 ELSE @]
    /\ UNCHANGED <<key, ttl>>

\* isReleased is set, the loop aborts, onLockRefreshFailed is called.  Unless a
\* Release overtook the test, no Release will delete the key any more.
refreshReports(c) ==
    /\ sess[c].loop = "report"
    /\ sess' = [sess EXCEPT ![c].released = TRUE, ![c].loop = "off", ![c].lag = 0]
    /\ IF sess[c].pc = "held" THEN Abandon(c) ELSE UNCHANGED key
    /\ UNCHANGED ttl

\* The loop finds its context cancelled.
refreshEnds_Never(c) == FALSE
refreshEnds(c) ==
    /\ sess[c].loop = "wait"
    /\ sess[c].pc = "stopping"
    /\ sess' = [sess EXCEPT ![c].loop = "off"]
    /\ UNCHANGED <<key, ttl>>

-----------------------------------------------------------------------------
(* Release *)

\* isReleased is swapped, refreshRunner.Stop cancels the loop; or there is nothing to do.
Release(c) ==
    /\ sess[c].pc = "held"
    /\ sess' = [sess EXCEPT ![c] = IF sess[c].released THEN NoSession
                                   ELSE [@ EXCEPT !.pc = "stopping", !.released = TRUE]]
    /\ UNCHANGED <<key, ttl>>

\* refreshRunner.Stop returns when the loop has ended.
StopReturns(c) ==
    /\ sess[c].pc = "stopping"
    /\ sess[c].loop = "off"
    /\ sess' = [sess EXCEPT ![c].pc = "unlocking"]
    /\ UNCHANGED <<key, ttl>>

\* The script: DEL when the token is ours.
Deleted_AnyToken(c) == None
Deleted(c) == IF key = c THEN None ELSE key

Unlock(c) ==
    /\ sess[c].pc = "unlocking"
    /\ sess' = [sess EXCEPT ![c] = NoSession]
    /\ key' = Deleted(c)
    /\ ttl' = IF key' = None THEN 0 ELSE ttl

\* The script is not executed.
UnlockFails(c) ==
    /\ sess[c].pc = "unlocking"
    /\ sess' = [sess EXCEPT ![c] = NoSession]
    /\ Abandon(c)
    /\ UNCHANGED ttl

-----------------------------------------------------------------------------
\* The client's process dies.
Crash(c) ==
    /\ sess[c].pc # "none"
    /\ sess' = [sess EXCEPT ![c] = NoSession]
    /\ Abandon(c)
    /\ UNCHANGED ttl

InCall(s) == s.pc = "obtaining" \/ s.loop \in {"call", "ok", "failed", "report"}

\* The call is about to exceed Lag, or the loop to leave a tick in the channel or to
\* overlook that its context is done.
Delayed(s) == \/ InCall(s) /\ s.lag = Lag
              \/ s.loop = "wait" /\ (s.ready \/ s.pc # "held")

\* A unit of time passes for a session: its ticker goes on and its call gets older.
Older(s) ==
    LET late == s.late \/ Delayed(s) IN
    [s EXCEPT !.late = late,
              !.lag = IF InCall(s) /\ ~late THEN @ + 1 ELSE 0,
              !.phase = IF s.loop = "off" \/ @ + 1 = RefreshInterval THEN 0 ELSE @ + 1,
              !.ready = s.loop # "off" /\ (@ \/ s.phase + 1 = RefreshInterval)]

Elapse ==
    /\ \A c \in Clients \ Slow : ~Delayed(sess[c])
    /\ ttl' = IF ttl > 0 THEN ttl - 1 ELSE 0
    /\ key' = IF ttl > 1 THEN key ELSE None
    /\ sess' = [c \in Clients |-> Older(sess[c])]

-----------------------------------------------------------------------------
LockInit ==
    /\ key = None
    /\ ttl = 0
    /\ sess = [c \in Clients |-> NoSession]

\* What the loop does by itself.
refreshStep(c) ==
    \/ refreshTick(c) \/ refreshExec(c) \/ refreshReturns(c)
    \/ refreshChecks(c) \/ refreshReports(c) \/ refreshEnds(c)

clientStep(c) ==
    \/ Obtain(c) \/ ObtainReturns(c) \/ Release(c) \/ StopReturns(c) \/ Unlock(c)
    \/ refreshStep(c) \/ refreshFails(c)
    \/ ObtainFails(c) \/ UnlockFails(c) \/ Crash(c)

LockNext == Elapse \/ \E c \in Clients : clientStep(c)

LockSpec == LockInit /\ [][LockNext]_lockVars

-----------------------------------------------------------------------------
(* Properties *)

\* The holder believes it has the lock: IsReleased() is false.
Claims(c) == sess[c].pc = "held" /\ ~sess[c].released

\* It may count on that: nothing of the session has been late.
Counts(c) == Claims(c) /\ ~sess[c].late

\* Whoever believes to have the lock has it, the key has its token, whatever call failed
\* and whoever crashed, as long as no call of the session took longer than Lag and its
\* loop was prompt since redis last set the TTL.  A session that was late and finds its
\* token still there is backed again.  So of two clients that believe it at once one is
\* late.  (Refresh has no deadline: a late session may well claim an expired key.)
ClaimIsBacked == \A c \in Clients : Counts(c) => key = c

\* The token of a session that is over is nobody's, though it keeps others out.
Granted == INSTANCE Lease WITH
    LeaseClients <- Clients, Nobody <- None,
    holder <- IF key = Orphan THEN None ELSE key,
    believers <- {c \in Clients : Counts(c)}

\* A session lock is a lease: the key goes from one client to another only by way of
\* nobody, and is not lost, whether it expires or is deleted, by a client whose
\* IsReleased() is still false and whose calls are in time.
ImplementsLease == Granted!LeaseSpec
=============================================================================
