----------------------------- MODULE HealthWatch ------------------------------
(***************************************************************************)
(* rpc/health.go: WaitStatusServing reads a channel that a goroutine of    *)
(* WatchStatus fills from the health stream, and returns at the first      *)
(* SERVING; WatchStatusServing runs it in a goroutine and passes its       *)
(* result on.  The channel holds one status.  The stream ends when the     *)
(* caller's context is cancelled or the connection breaks.                 *)
(***************************************************************************)
EXTENDS Naturals, Sequences

CONSTANT MaxEvents      \* bound: statuses the server sends

ASSUME HealthAssumption == MaxEvents \in Nat

Capacity == 1   \* make(chan, 1)

VARIABLES
    ctxDone,        \* the caller's context is cancelled
    broken,         \* the stream has failed otherwise
    arrived,        \* statuses on the stream that Recv has not returned yet
    events,         \* history: statuses sent by the server so far
    statusCh, chClosed,
    receiver,       \* the goroutine of WatchStatus: "recv", "send", "gone"
    received,       \* the status it has to send
    wait,           \* WaitStatusServing: "range", "serving", "canceled", "closed"
    sawServing      \* history: the server has reported SERVING

healthVars == <<ctxDone, broken, arrived, events, statusCh, chClosed, receiver, received, wait, sawServing>>

Statuses == {"SERVING", "NOT_SERVING"}

HealthTypeOK ==
    /\ ctxDone \in BOOLEAN /\ broken \in BOOLEAN /\ chClosed \in BOOLEAN /\ sawServing \in BOOLEAN
    /\ arrived \in Seq(Statuses) /\ events \in 0 .. MaxEvents
    /\ statusCh \in Seq(Statuses) /\ Len(statusCh) <= Capacity
    /\ receiver \in {"recv", "send", "gone"} /\ received \in Statuses
    /\ wait \in {"range", "serving", "canceled", "closed"}

Ended == ctxDone \/ broken

\* The server, the caller and the network.
serverSends == \E s \in Statuses :
    /\ ~Ended /\ events < MaxEvents
    /\ arrived' = Append(arrived, s) /\ events' = events + 1
    /\ sawServing' = (sawServing \/ s = "SERVING")
    /\ UNCHANGED <<ctxDone, broken, statusCh, chClosed, receiver, received, wait>>
cancelCtx ==
    /\ ~ctxDone /\ ctxDone' = TRUE
    /\ UNCHANGED <<broken, arrived, events, statusCh, chClosed, receiver, received, wait, sawServing>>
breakStream ==
    /\ ~Ended /\ broken' = TRUE
    /\ UNCHANGED <<ctxDone, arrived, events, statusCh, chClosed, receiver, received, wait, sawServing>>

\* stream.Recv(): a status, or an error once the stream has ended; close(ch) is deferred.
recvStatus ==
    /\ receiver = "recv" /\ arrived # <<>>
    /\ received' = Head(arrived) /\ arrived' = Tail(arrived) /\ receiver' = "send"
    /\ UNCHANGED <<ctxDone, broken, events, statusCh, chClosed, wait, sawServing>>
recvError ==
    /\ receiver = "recv" /\ Ended
    /\ receiver' = "gone" /\ chClosed' = TRUE
    /\ UNCHANGED <<ctxDone, broken, arrived, events, statusCh, received, wait, sawServing>>

sendStatus ==
    /\ receiver = "send" /\ Len(statusCh) < Capacity
    /\ statusCh' = Append(statusCh, received) /\ receiver' = "recv"
    /\ UNCHANGED <<ctxDone, broken, arrived, events, chClosed, received, wait, sawServing>>

\* for s := range ch
rangeStatus_AnyStatus ==
    /\ wait = "range" /\ statusCh # <<>>
    /\ statusCh' = Tail(statusCh) /\ wait' = "serving"
    /\ UNCHANGED <<ctxDone, broken, arrived, events, chClosed, receiver, received, sawServing>>
rangeStatus ==
    /\ wait = "range" /\ statusCh # <<>>
    /\ statusCh' = Tail(statusCh)
    /\ wait' = IF Head(statusCh) = "SERVING" THEN "serving" ELSE "range"
    /\ UNCHANGED <<ctxDone, broken, arrived, events, chClosed, receiver, received, sawServing>>
rangeEnds ==
    /\ wait = "range" /\ statusCh = <<>> /\ chClosed
    /\ wait' = IF ctxDone THEN "canceled" ELSE "closed"
    /\ UNCHANGED <<ctxDone, broken, arrived, events, statusCh, chClosed, receiver, received, sawServing>>

-----------------------------------------------------------------------------
HealthInit ==
    /\ ctxDone = FALSE /\ broken = FALSE /\ arrived = <<>> /\ events = 0
    /\ statusCh = <<>> /\ chClosed = FALSE
    /\ receiver = "recv" /\ received = "NOT_SERVING"
    /\ wait = "range" /\ sawServing = FALSE

goroutines == recvStatus \/ recvError \/ sendStatus
waiting == rangeStatus \/ rangeEnds

HealthNext == serverSends \/ cancelCtx \/ breakStream \/ goroutines \/ waiting

HealthFairness == WF_healthVars(goroutines) /\ WF_healthVars(waiting)

HealthSpec == HealthInit /\ [][HealthNext]_healthVars /\ HealthFairness

-----------------------------------------------------------------------------
(* Properties *)

\* Both results that the caller sees as nil are true: the server has reported SERVING, or
\* the caller has cancelled.
NilIsTrue == (wait = "serving" => sawServing) /\ (wait = "canceled" => ctxDone)

\* What the wait for SERVING says is true, at whichever moment the stream or the context ends.
AnswerIsTrue == HealthTypeOK /\ NilIsTrue

\* WaitStatusServing does not outlive its context or its stream.
WaitEnds == Ended ~> wait # "range"
=============================================================================
