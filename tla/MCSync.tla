-------------------------------- MODULE MCSync --------------------------------
(***************************************************************************)
(* The structures goroutines wait at: BlockGroup, CacheGroup, Latch, the   *)
(* lock of a RunnerGroup and the channel of the health client.  They share *)
(* no state: a behaviour picks one of them and the others stay as they     *)
(* were made.                                                              *)
(***************************************************************************)
EXTENDS BlockGroup, CacheGroup, Latch, HealthWatch, RunnerGroup

VARIABLE part       \* the part that is used

partVars == <<part, vars, cacheVars, latchVars, healthVars, rgVars>>

SyncInit ==
    /\ part \in {"block", "cache", "latch", "health", "group"}
    /\ Init /\ CacheInit /\ LatchInit /\ HealthInit /\ RunnerGroupInit
    /\ part # "block" => ops = {"Get", "Put", "PutIfExist"}
    /\ part # "latch" => isClosed

SyncNext ==
    \/ part = "block" /\ Next /\ UNCHANGED <<part, cacheVars, latchVars, healthVars, rgVars>>
    \/ part = "cache" /\ CacheNext /\ UNCHANGED <<part, vars, latchVars, healthVars, rgVars>>
    \/ part = "latch" /\ LatchNext /\ UNCHANGED <<part, vars, cacheVars, healthVars, rgVars>>
    \/ part = "health" /\ HealthNext /\ UNCHANGED <<part, vars, cacheVars, latchVars, rgVars>>
    \/ part = "group" /\ RunnerGroupNext /\ UNCHANGED <<part, vars, cacheVars, latchVars, healthVars>>

\* The fairness of each part; of a part that is not used nothing is enabled.
SyncSpec ==
    /\ SyncInit /\ [][SyncNext]_partVars
    /\ Fairness /\ CacheFairness /\ LatchFairness /\ HealthFairness /\ RunnerGroupFairness

-----------------------------------------------------------------------------
(* Properties *)

\* Nobody waits for what has happened: a holder with a result or removed (BlockGroup, where
\* Get returns the result too), a flight that has landed, a latch that stays open, a
\* health stream that has ended, the lock of a RunnerGroup.
SyncProgress ==
    /\ GetReturnsValue /\ WaitersReleased
    /\ DoReturns /\ OpenLetsThrough /\ WaitEnds /\ GroupReturns
=============================================================================
