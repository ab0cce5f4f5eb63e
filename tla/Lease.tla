-------------------------------- MODULE Lease ---------------------------------
(***************************************************************************)
(* What a lock with a time-out promises, as rdb.SessionLock means to: the  *)
(* server has one holder at a time, it is learnt of by that holder only,   *)
(* and the server takes the lease away from nobody who counts on it: the   *)
(* client gives up first.  Nothing is said of time.                        *)
(***************************************************************************)
CONSTANTS LeaseClients, Nobody

VARIABLES
    holder,     \* the server: who has the lease
    believers   \* the clients that count on having it

leaseVars == <<holder, believers>>

LeaseInit == holder = Nobody /\ believers = {}

Grant(c) ==
    /\ holder = Nobody
    /\ holder' = c
    /\ UNCHANGED believers

Learn(c) ==
    /\ holder = c
    /\ believers' = believers \cup {c}
    /\ UNCHANGED holder

\* The client gives up, because it releases the lock, could not refresh it or is dead.
\* The lease is still its own, to be returned, or nobody's at once.
GiveUp(c) ==
    /\ c \in believers
    /\ believers' = believers \ {c}
    /\ holder' = holder \/ (holder = c /\ holder' = Nobody)

\* The lease is returned, or expires.
Revoke ==
    /\ holder # Nobody /\ holder \notin believers
    /\ holder' = Nobody
    /\ UNCHANGED believers

LeaseNext == Revoke \/ \E c \in LeaseClients : Grant(c) \/ Learn(c) \/ GiveUp(c)

LeaseSpec == LeaseInit /\ [][LeaseNext]_leaseVars
=============================================================================
