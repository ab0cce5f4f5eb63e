-------------------------------- MODULE BgTask --------------------------------
(***************************************************************************)
(* What TaskRunner asks of a BgTask (async/runner.go, the comment on the   *)
(* interface): the channel that Run returned is closed when the task is    *)
(* done, which may be at any time, and is closed once the context given to *)
(* Run is cancelled.  RunLoop implements it, TaskRunner relies on it.      *)
(***************************************************************************)
VARIABLES
    ctxDone,    \* the context given to Run is done
    closed      \* the channel that Run returned is closed

taskVars == <<ctxDone, closed>>

TaskInit == ctxDone = FALSE /\ closed = FALSE

Cancel == ~ctxDone /\ ctxDone' = TRUE /\ UNCHANGED closed

Close == ~closed /\ closed' = TRUE /\ UNCHANGED ctxDone

\* What a BgTask never does otherwise: closing is final, and not undone by the context.
TaskSafety == TaskInit /\ [][Cancel \/ Close]_taskVars

TaskSpec == TaskSafety /\ WF_taskVars(ctxDone /\ Close)
=============================================================================
