------------------------------- MODULE MCParts -------------------------------
(***************************************************************************)
(* TimerExecutor without a clock, for its liveness: two keys are due at    *)
(* the same tick, after a whole turn of two buckets, so that a runner has  *)
(* a task to handle after one that it puts again.  And the parts whose     *)
(* properties are all about safety: Blocker, PeriodBarrier, the result     *)
(* collections, the retry counter, the string set, the stores, the redis   *)
(* scripts, the path of errors, the middlewares of rpc and http and the    *)
(* cron scheduler.  They share no state: a behaviour picks one of them and *)
(* the others stay as they were made.                                      *)
(***************************************************************************)
EXTENDS TimerExecutor, Blocker, PeriodBarrier, Collections, RetryCounter, Stores,
        RateLimiter, CompareAndSet, ErrorPath, RpcMiddleware, HttpSession, CronScheduler

VARIABLE part       \* the part that is used

\* Counters with and without a limit, constant, widening, capped, and with a first
\* interval above the cap.
MCOptions ==
    {o \in [maxCount : {0, 2}, init : {0, 1, 5}, step : {0, 2}, maxInterval : {0, 3}] :
        o.init > 0 \/ o.step > 0}

MCPrefixes == {BoltKeys, {2}}

\* Texts, bools and numbers of two widths, those that spell one another included.
MCStoreValues ==
    {[type |-> "string", n |-> 0, text |-> t] : t \in {Word, FormatInt(1), Text("padded", 1), FormatBool(TRUE)}}
        \cup {[type |-> ty, n |-> 1, text |-> Empty] : ty \in {"bool", "int8", "float"}}

\* A limit below one refuses everybody.
MCLimits == {-1, 1, 2}

\* Numerals in two spellings, the greatest of the width among them.
MCCasTexts == {Word, FormatInt(0), FormatInt(1), Text("padded", 1)}
MCCasInts == {-1, 0, 1}

\* Errors with the codes of the package, some of one's own, some that gRPC uses and some
\* that do not fit into a code of gRPC, alone, wrapped, doubled, and errors of the other
\* kinds, an http error that is none included.
MCCodes == {-2, -1, 0, 1, 3, 4, 5, 6, 9, 11, 12, 13, 100, 9999, 403001, RpcCodes \div 2, RpcCodes, RpcCodes + 5}
MCErrors ==
    {<<Layer("biz", c)>> : c \in MCCodes} \cup {<<Layer("plain", 0), Layer("biz", c)>> : c \in MCCodes}
        \cup {<<Layer("biz", 4), Layer("biz", 5)>>, <<Layer("plain", 0)>>, <<Layer("status", 5)>>,
              <<Layer("biz", 7), Layer("status", 5)>>, <<HttpLayer(503, 10)>>, <<HttpLayer(302, 0)>>,
              <<Layer("biz", 9999), HttpLayer(503, 10)>>, <<Layer("validation", 400900)>>,
              <<Layer("validation", Unknown), Layer("biz", 5)>>}

\* Sides that sign, that sign and leave out some methods, that have no key, that send
\* the key itself, and that are disabled.
MCSide(mode, key, ignores, put) ==
    [disabled |-> FALSE, mode |-> mode, key |-> key, ignores |-> ignores, putHeaders |-> put, headers |-> "own"]
MCSigned == MCSide("token", "k", FALSE, TRUE)
MCAuthOptions ==
    {MCSigned, MCSide("token", "k", TRUE, FALSE), MCSide("token", NoKey, FALSE, TRUE),
     MCSide("key", "k", FALSE, TRUE), [MCSigned EXCEPT !.disabled = TRUE]}
MCSkews == {-3, 1}

\* One task is skipped and recovered, the other delayed and not recovered.
MCTaskOptions ==
    [n \in TaskNames |-> [recover |-> n = "skips", skip |-> n = "skips", delay |-> n = "delays"]]

partVars == <<part, vars, blockerVars, barrierVars, resultVars, retryVars, setVars,
              boltVars, storeVars, limiterVars, casVars, errorVars,
              rpcStateVars, authVars, sessVars, cronVars>>

Parts == {"timer", "blocker", "barrier", "results", "retry", "set", "bolt", "store", "limiter", "cas", "error",
          "state", "auth", "session", "cron"}

PartsInit ==
    /\ part \in Parts
    /\ Init /\ BarrierInit /\ BoltInit /\ StoreInit /\ CasInit
    /\ BlockerInit /\ (part # "blocker" => ~hasValue)
    /\ ResultInit /\ (part # "results" => coll = [kind |-> "list", sync |-> FALSE])
    /\ RetryInit /\ (part # "retry" => opt = [maxCount |-> 0, init |-> 1, step |-> 0, maxInterval |-> 0])
    /\ SetInit /\ ref["x"] = 1 /\ mapOf[1] = 1
    /\ LimiterInit /\ (part # "limiter" => limiter = [kind |-> "often", limit |-> 1, expire |-> 1])
    /\ ErrorInit /\ (part # "error" => cause = <<Layer("plain", 0)>> /\ at = "server" /\ ~http.parse)
    /\ RpcStateInit /\ CronInit
    /\ AuthInit /\ (part # "auth" => client = MCSigned /\ server = MCSigned /\ skew = 1
                      /\ call = [method |-> "plain", md |-> <<>>])
    /\ SessInit /\ (part # "session" => sessStore = "cookie" /\ autoSave)

\* Every other part stays as it was.
KeepOthers ==
    /\ UNCHANGED part
    /\ IF part = "timer" THEN TRUE ELSE UNCHANGED vars
    /\ IF part = "blocker" THEN TRUE ELSE UNCHANGED blockerVars
    /\ IF part = "barrier" THEN TRUE ELSE UNCHANGED barrierVars
    /\ IF part = "results" THEN TRUE ELSE UNCHANGED resultVars
    /\ IF part = "retry" THEN TRUE ELSE UNCHANGED retryVars
    /\ IF part = "set" THEN TRUE ELSE UNCHANGED setVars
    /\ IF part = "bolt" THEN TRUE ELSE UNCHANGED boltVars
    /\ IF part = "store" THEN TRUE ELSE UNCHANGED storeVars
    /\ IF part = "limiter" THEN TRUE ELSE UNCHANGED limiterVars
    /\ IF part = "cas" THEN TRUE ELSE UNCHANGED casVars
    /\ IF part = "error" THEN TRUE ELSE UNCHANGED errorVars
    /\ IF part = "state" THEN TRUE ELSE UNCHANGED rpcStateVars
    /\ IF part = "auth" THEN TRUE ELSE UNCHANGED authVars
    /\ IF part = "session" THEN TRUE ELSE UNCHANGED sessVars
    /\ IF part = "cron" THEN TRUE ELSE UNCHANGED cronVars

PartsNext ==
    \/ part = "timer" /\ Next /\ KeepOthers
    \/ part = "blocker" /\ BlockerNext /\ KeepOthers
    \/ part = "barrier" /\ BarrierNext /\ KeepOthers
    \/ part = "results" /\ ResultNext /\ KeepOthers
    \/ part = "retry" /\ RetryNext /\ KeepOthers
    \/ part = "set" /\ SetNext /\ KeepOthers
    \/ part = "bolt" /\ BoltNext /\ KeepOthers
    \/ part = "store" /\ StoreNext /\ KeepOthers
    \/ part = "limiter" /\ LimiterNext /\ KeepOthers
    \/ part = "cas" /\ CasNext /\ KeepOthers
    \/ part = "error" /\ ErrorNext /\ KeepOthers
    \/ part = "state" /\ RpcStateNext /\ KeepOthers
    \/ part = "auth" /\ AuthNext /\ KeepOthers
    \/ part = "session" /\ SessNext /\ KeepOthers
    \/ part = "cron" /\ CronNext /\ KeepOthers

\* The fairness of TimerExecutor; nothing is asked of the other parts.
PartsSpec == PartsInit /\ [][PartsNext]_partVars /\ Fairness

-----------------------------------------------------------------------------
(* Properties *)

\* What limits calls by number or time keeps to it when callers interleave: the calls per
\* period (PeriodBarrier, RateLimiter) and the retries of a shared counter.  Two gaps are
\* named: a barrier invokes early where the time it compares was read before another
\* caller's invocation (OncePerPeriod), and a window below a second limits nothing.
LimitsKept ==
    /\ BarrierTypeOK /\ InvokesOneAtATime /\ EarlyOnlyIfStale
    /\ LimiterTypeOK /\ OftenSpaced /\ FrequencyBounded /\ CounterExpires
    /\ RetryTypeOK /\ SharedBudget /\ GivesUpWhenSpent /\ IntervalCapped

\* What a store says of an operation is true (bolt, MemoryStore, the compare-and-set
\* scripts): what was written is read back through the conversions, what is handed back
\* is handed back once, ids are new, and what has failed has changed nothing.  The scripts
\* have two exceptions, the ones IncrReturnsCurrent shows: IncrNEQ of a missing key writes
\* and fails, IncrEQ of a numeral in another spelling reports what it did not write.
ReportedIsTrue ==
    /\ [](BoltTypeOK /\ WrittenIsRead /\ StoreTypeOK /\ HandedBackOnce /\ TextKeepsAnswers
            /\ CasTypeOK /\ ReportedIsStored)
    /\ FailureChangesNothing /\ IdsFresh /\ FailureUntouched

\* Whoever shares a collection finds it whole and whoever does not share it finds it
\* untouched: result lists and maps between goroutines, sets between variables.
CollectionsKept ==
    /\ [](ResultTypeOK /\ BatchTogether /\ CopyIsWhole /\ DeletedOnce /\ FailedHasNoValue
            /\ SetTypeOK /\ EqualIsEqual)
    /\ OnlyReceiverChanges /\ PopSplits

\* A request finds what was put for it, in the State of a call and in the session of a
\* browser, unless it shares them with a request that runs at the same time: a State is
\* shared by the calls whose contexts carry the same one, and only these can race.
OwnValuesSeen ==
    /\ RpcStateTypeOK /\ OwnPutSeen /\ RaceNeedsSharing
    /\ SessTypeOK /\ NextLoadSeesSaved
=============================================================================
