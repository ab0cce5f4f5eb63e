# A verification project for b-go-util

b-go-util is a Go library of building blocks: goroutine coordination (`async`),
a redis-backed cache, lock, limiter and scheduler (`rdb`), and thin layers over
bolt, gorm, gin, grpc, rpcx, cron and zap.  This directory holds TLA+ models of
its parts, those in which goroutines, program instances and time meet first,
TLC configurations that check them on small instances, and TLAPS proofs that
hold for instances of any size.

Paths below are relative to `src/`.  `PROJECT.json` maps every definition to
the lines it models.

Contents: 1 the system · 2 the models · 3 the runs · 4 bounds · 5 fairness ·
6 the proofs · 7 where code and documentation disagree · 8 what is not modelled ·
9 plan · 10 running it

## 1. The system: inventory

### async

| component | state | operations | interaction, and what is hard | correct when |
|---|---|---|---|---|
| TimerExecutor (`async/timer.go`) | `tasks`, `buckets`, `currentBucketIdx`, two done channels | Put, PutTask, PutCyclic, Del, Close, WithOnClosedHandler; onTick | one goroutine owns the wheel and is fed through unbuffered channels; each tick starts a goroutine that runs handlers and puts cyclic tasks back through the same channel; Close races all of it | a task fires at its tick, once; a removed one never; the two maps agree; Close ends everything |
| Ticker, TickerExecutor (`async/ticker.go`) | count, last tick, one-place channel, batch of tasks | Add, IncrCount, InvokeNow, Close; time ticker and consumer goroutine | two callers of `fireTick`, one without the lock, share atomics with the consumer | no task lost, repeated or reordered; a full batch ticks; Close flushes |
| BlockGroup (`async/block_group.go`) | map of holders, each with a WaitGroup and an atomic flag | Get, Put, PutIfExist, Remove, RemoveAll | Put works on a holder outside the lock while Remove unblocks it | a holder is released once and everyone waiting returns |
| CacheGroup (`async/cache_group.go`) | map of holders | Do, Get, Del | single flight; Del inside the flight | one task at a time per key, everybody gets its result |
| Blocker (`async/blocker.go`) | a value, a flag, a WaitGroup under a lock | Get, Put, Remove | Get waits without the lock and reads with it: a Remove may come in between | it blocks exactly while nothing was put |
| Latch (`async/latch.go`) | `isClosed`, a condition variable | Open, Close, Wait, WaitOrCanceled, WaitOrTimeout | `isClosed` is tested before the lock is taken; a wait with a context leaves a goroutine behind | no wake-up is lost; nobody stays at an open latch |
| Barrier, PeriodBarrier (`async/barrier.go`) | `isInvoking`, time of the last call | Do, Invoke | the age is compared before the swap | one call at a time, one per period |
| TaskRunner (`async/runner.go`) | isRunning, ctx, WaitGroup | Start, Stop, Wait | Start publishes `isRunning` before its ctx; Stop may cancel nothing; the goroutine of a run calls Stop too | one run at a time; Stop ends it |
| RunnerGroup (`async/runner.go`) | a set of runners under a lock | Add, Del, Start, Stop | Stop holds the lock while it waits for every task | nothing runs after Stop; the lock comes back |
| WaitGroup, WorkerGroup, RoutineGroup (`async/group.go`, `run.go`) | permits, WaitGroup | Run, Wait, EnsureRun, EnsureDone | bounded workers | never more than the bound; Wait waits for all |
| run loops (`async/run.go`, `do.go`, `ctx.go`, `run_interval_helper.go`) | a counter, contexts, two tickers | Run…, Do…, interval, delay, retry and time-out | cancellation against the ticker and against the running task | the number of runs; the end of the context is noticed once |
| Promise (`async/promise.go`) | `cause`, `isOk`, a context | All and Any, serial and parallel, with and without a context | workers cancel each other; a cancelled function goes on running | the outcome is that of the functions |
| results (`async/result.go`, `task.go`, `done.go`) | a value or an error; lists and maps of them; a channel closed once | getters, collections with and without a lock, Close | goroutines add to one collection | batches do not mix; nothing is deleted twice |

### rdb

| component | state | operations | interaction, and what is hard | correct when |
|---|---|---|---|---|
| Cache (`rdb/cache.go`) | a redis hash `v, t, o` with a TTL, a CacheGroup per instance | Fetch, FetchNew, FetchBackend, Set, Expire, Del, load | several instances, a lock with a time-out, Lua scripts, failing calls and lost replies, stale loads | no stale value unmarked; FetchNew is current; nobody waits for ever |
| SessionLock (`rdb/locker.go`) | a redis key with a TTL and a token, `isReleased`, a refresh goroutine | ObtainSessionLock, Release, IsReleased, refresh | refresh against expiry, a failing refresh against Release | who believes to hold the lock holds it; Release returns |
| Scheduler (`rdb/scheduler/`) | tasks, `isRunning`, a context; in redis the lock and the next invocation time | MustAddTask, Start, Stop, the loop of runTask, SetTaskNextInvokeTime | instances race for a task: check the time, obtain the lock, run, release, while calls fail and holders crash | instances do not run a task at once; a due task is run |
| Limiter (`rdb/limiter.go`) | a key with a TTL, a counter with a TTL | IsTooOften, IsTooFrequent, their deletion | a counter that loses its TTL, TTLs rounded to seconds, lost answers | at most one, at most n per window; nobody is shut out for ever |
| compare-and-set (`rdb/ca.go`) | a key, or a field of a hash | SetEQ, SetNEQ, DelEQ, IncrEQ… | the script compares text, the client parses numbers | what is reported is what is stored |
| helpers (`rdb/z.go`, `util.go`) | none | sorted sets, options | none | — |

### the rest

| component | state | operations | what is hard | correct when |
|---|---|---|---|---|
| cron scheduler (`scheduler/`) | entries by name under a lock, tokens of the wrappers | MustAddTask, RemoveTasks, Start, Stop | runs outlive their entry; Stop waits or times out; a panic with the token held | no overlap, the token comes back, Stop means idle |
| store (`store/store.go`) | a map under a RWMutex | Put, Remove, Clear, typed getters | conversions | nothing handed out twice, conversions agree |
| bolt (`bolt/repo.go`) | a bucket and its sequence | Put…, Get…, Incr, Del, DelEach, BatchPut, NextId… | a function that fails half way, a commit that fails | all or nothing; ids are not repeated |
| rpc health (`rpc/health.go`) | a stream, a channel of one place | WatchStatus, WaitStatusServing, WatchStatusServing | cancellation against a full channel | the wait ends and says what happened |
| rpc errors, http errors (`util/error.go`, `rpc/error.go`, `rpc/mw_error.go`, `http/mw_err_handler.go`, `http/error.go`) | an error and its layers | wrap, convert to a status or a response and back | layers, codes that collide, panics, handlers that have answered already | the code survives, a failure arrives |
| rpc state (`rpc/mw_state.go`) | maps without a lock | the interceptor, Put, Get | States shared by requests, through the middleware or a context | own values are found; no data race |
| rpc auth (`rpc/mw_auth.go`, `util/crypto.go`) | options of two sides, a token in the metadata | the two interceptors, making and checking a token | clocks that differ, several tokens in one context | alike sides agree; what is accepted is recent |
| http session (`http/mw_session.go`) | the values in a cookie or in redis | Get, Set, Del, Clear, MWSaveSession | overlapping requests, a response already sent, failing saves | the next request sees what was saved |
| retry (`util/retry.go`) | a counter and an interval under a lock | NextInterval, DoRetry | goroutines share a counter | the budget is kept, the interval grows to its cap |
| sets (`_set/`) | a pointer to a map | set operations in place, Pop, Clone | aliasing | only the receiver changes |

`grpc` (connection pool), `orm`, `conf`, `slog`, the codecs of `util` and the
helpers `_string`, `_int64`, `_interface`, `_reflect`, `_stream` are wrappers
of libraries, I/O or sequential conversions (§8).

## 2. The models

| module | models | composed of |
|---|---|---|
| `TimerExecutor` | `async/timer.go` | |
| `TimerClock` | the time wheel in real time | `TimerExecutor` and its `time.Ticker` |
| `TimerClockProofs` | theorems | `TimerExecutor`, `TimerClock` |
| `TickerExecutor` | `async/ticker.go`: Ticker and TickerExecutor together, since they share the lock and the counter | |
| `BlockGroup` | `async/block_group.go` | |
| `RdbCache` | `rdb/cache.go` with `async/cache_group.go` as the cache uses it, a redis hash and a backend | |
| `RdbCacheProofs` | theorems | `RdbCache` |
| `Lease` | what a lock with a time-out promises | |
| `SessionLock` | `rdb/locker.go` and the redis key, in units of time | implements `Lease` |
| `RdbScheduler` | `rdb/scheduler/` | instances, each a client of `SessionLock` |
| `RdbSchedulerProofs` | theorems | `SessionLock`, `RdbScheduler` |
| `BgTask` | abstract: what `TaskRunner` asks of a task | |
| `RunLoop` | `async/run.go`, `do.go`, `ctx.go`, `run_interval_helper.go` | implements `BgTask` |
| `TaskRunner` | TaskRunner of `async/runner.go` | relies on `BgTask` |
| `RunnerGroup` | RunnerGroup of `async/runner.go` | over abstract runners |
| `Promise`, `Groups`, `Latch`, `Blocker`, `PeriodBarrier` | the files of `async` of that name (`group.go`, `barrier.go`) | |
| `Collections` | `async/result.go` and `_set/string_set.go` | |
| `Flights` | abstract: single flight | |
| `CacheGroup` | `async/cache_group.go` | implements `Flights` |
| `RateLimiter`, `CompareAndSet` | `rdb/limiter.go`, `rdb/ca.go` | the latter over `Strconv` |
| `Stores` | `store/store.go` and `bolt/repo.go` | over `Strconv` |
| `Strconv` | conversions between numbers, bools and texts, with a width | |
| `CronScheduler` | `scheduler/scheduler.go`; the cron is external | |
| `HealthWatch` | `rpc/health.go` | |
| `RpcMiddleware` | `rpc/mw_state.go`; `rpc/mw_auth.go` with the tokens of `util/crypto.go` | |
| `ErrorPath` | errors from a handler to its caller, over gRPC and over HTTP | |
| `HttpSession`, `RetryCounter` | `http/mw_session.go`, `util/retry.go` | |
| `MCTasks`, `MCSync`, `MCParts` | components by the question asked of them | see below |
| `TasksProofs`, `SyncProofs`, `PartsProofs` | theorems about the components of a run | the components of `MCTasks` and `MCSync`; `MCParts` |

**Putting components into one run.**  `MCTasks`, `MCSync` and `MCParts` extend
several components that share no state.  A variable `part`, chosen in the
initial state, says which of them moves; the others stay in an initial state.
The states of such a run are the sum of those of its components, not their
product, and every component's property is checked on every behaviour.  The
fairness of each component is the one in its own module: of a component that
does not move nothing is enabled.  Components that do interact are composed
for real: `TimerClock` with `TimerExecutor`, `RdbScheduler` with `SessionLock`,
and, through their contracts, `TaskRunner` with `RunLoop` (`BgTask`) and
`RdbCache` with `CacheGroup` (`Flights`).

An operator `X_Something` placed before `X` is a plausible mistake in the code
`X` models; it is used by no specification, only substituted for `X` to see
that a property notices it (`mutants` in `PROJECT.json`).

**TimerExecutor.**  `tasks`, `buckets`, `cur` are the executor's fields, `heap`
the task objects (Go pointers become elements of `Ids`, because `removed` is
set through one map and read through the other).  The `select` loop of `run()`
handles one event at a time over unbuffered channels, so an accepted PutTask or
Del is one action together with its handler.  `onTick` is the whole of the
handler: it drops removed tasks, counts down rounds, deletes what is due from
both maps *by key* as `delTask` does, advances the index and starts a runner.
Runners take their tasks in any order (a Go map), and a cyclic task is put
again through the same channel, accepted or refused by the closing executor.
`waited` and `cancelled` are history.  Dead objects are reset to `Blank` so
that identities are reused: `Ids` bounds the objects alive, not the puts.

**TimerClock** adds the time since the last tick and the age of every task.
Time does not advance while a tick lies in the ticker's channel: `run()` is
taken to be prompt, without which no real-time bound could hold.

**TickerExecutor.**  Everything under `e.lock` is one action, except that `Add`
keeps the lock while it goes through `fireTick`, whose test, read, send and
subtraction are steps of their own, for `Add` and for the unlocked time ticker.
A send on the closed channel panics and is recovered, as in the code.  The
option a ticker was made with is a variable that never changes, so that one run
covers tickers by count, by time and by both.

**BlockGroup.**  The RWMutex is explicit (`writer`, `readers`).  Look-up,
storing the result, the swap of the flag and `Done()` are separate steps; a
counter below zero is the panic of `sync.WaitGroup`.  `ops`, chosen in the
initial state, is the set of methods the program uses (`Usages`).

**RdbCache.**  One key.  Each Lua script is atomic; between scripts and backend
reads anything may happen: updates, Expire, Del, Set, the lock or the key
timing out, a failing call, a script whose reply is lost.  The value is its
version, so that *stale* can be said.  A request is made in one of the program
instances; the first of an instance leads and later ones join until the leader
deletes the group's entry.

**SessionLock.**  The key holds the token of a client's session, or `Orphan`
for a session that is over without having deleted it.  A call to redis is two
steps, its execution and its return, and either half may fail.  The loop of `refreshBgTask` is a ticker of one place (a tick that finds
one waiting is dropped), the call, the test of `isReleased` and the report,
each a step, against Release, which swaps the flag, waits for the loop and
deletes the key.  A refused Obtain changes nothing, so an `obtainLock` with
retries is an Obtain that comes later or never.  `Elapse` is a unit of time.
Nothing holds it up: the calls have no deadline (`rdb/locker.go:145`) and the
goroutine of the loop may come late to a tick.  A session one of whose calls has
taken more than `Lag` units, or whose loop has let a tick wait, is `late` until
redis next extends its key; the properties say what holds of a session that is
not, and a late one may well claim a key that has expired.  `Slow` is the set of
clients that may be late: all of them in the code and in the proofs.

**RdbScheduler** EXTENDS `SessionLock`: every action of an instance that
touches the lock is an action of that module joined with the step of the
instance (`UsesSessionLock` says so, and that the lock is a `Lease`).  Stop cancels the context that Obtain,
Release and the next-time calls use, but not the one of the refresh loop, and
closes the client later; after that every call fails.

**TaskRunner.**  Every access of `isRunning`, `ctx`, `cancel` and the WaitGroup
is a step; a run's goroutine waits for the task and then goes through Stop as
the code does.  Contexts are numbered, `canceled` is the set of those
cancelled.  Whether the runner was built with a context of its own decides
whether an overtaking Stop has something to cancel.  The sleep of `waitDone`
(line 88) is a step that ensures nothing: it may be over while a Start is still
before its `taskDone.Add(1)`, and such a Start, with the run that it makes, is
`overtaken`.

**RunLoop.**  One module for the four families of loops; `kind` says which
wrapper, delay, retry limit and time-out.  The two tickers are reduced to *the
delayed first tick* and *a tick*; `select` with both ready may take either.
Which Context the task is given (BaseCtx, or a FreezeCtx that hides the end of
the real one) is computed as in `ctx.go`.

**Promise.**  `RunCancelableTask` is two steps, the function and the select
that may prefer the context.  Workers skip when `isOk` or `cause` says so,
swap them atomically, then cancel.

**Groups.**  A task is handed over, waits for a permit, runs, gives the permit
back and is counted off, each a step.

**CacheGroup.**  Lock regions are one step; the task runs outside and may
panic, and then the holder stays undone (`paniced`).

**Latch.**  The unlocked test, the lock with the swap, `cond.Wait` and the
broadcast are separate; a cancelled waiter's goroutine goes on waiting
(`leftBehind`).

**Blocker.**  nil is a value like any other, as in the code and its test.  Get
waits for the WaitGroup, resumes, and reads the value under the lock: three
steps.  A goroutine that was woken and finds the WaitGroup added to panics, as
`sync.WaitGroup` does.

**PeriodBarrier, RetryCounter.**  Locked regions are atomic where the lock is
held throughout, and otherwise split at the atomics.

**Collections.**  In the result collections the steps inside the lock are split
as well, so that dropping the lock is visible; those without a lock are used by
one goroutine.  Of the sets, variables of the caller point to structs that point
to maps, so that an operation that shares or gives away its map is seen to.

**RunnerGroup.**  The members are TaskRunners known by their contract: Start
starts, Stop tells the task to end and waits, and a Stop that finds another one
at work returns at once.  They may also be stopped from outside.

**CronScheduler.**  The cron (external) starts a goroutine for an entry at any
time; `SkipIfStillRunning` and `DelayIfStillRunning` hold a token, given back
when the task returns or its panic was recovered inside.  An unrecovered panic
ends the process.

**HealthWatch.**  The goroutine that fills the channel, the one that reads it
and the one of WatchStatusServing; the stream ends by cancellation or failure.

**ErrorPath.**  An error is the sequence of its layers as `errors.As` and
`Unwrap` see them.  gRPC keeps a code and a message, HTTP a response with a
status and a code; the handler chain of gin answers once.  The client's
interceptor converts the error of a unary call and the failure of a call that
does not get through; the error of a stream comes past it, as a status, when the
caller reads (`streamReceives`, `rpc/mw_error.go:54-55`).  What Handle answers is
made of the last error of the request, which is always a `*gin.Error`; hooks of
one's own are left out.  A gRPC code has a width (`RpcCodes` values,
2^32 in the code), so a BizError code of one's own is converted, and the
transport, which reads it back as a signed number, may take one beyond half the
range for a malformed one.  An HTTP status can be the first three digits of a
code (`FirstThree`).

**RpcMiddleware.**  States: a request goes through a chain of `NumMWs`
interceptors; the State in its context was made for it, is the one of another
request from whose context it was made, or is put there by the first MWState of
the chain and used by the next ones.  A map access has a begin and an end; two
that overlap, one of them a write, are a data race, recorded in `raced`.
Tokens: the client appends a token, the server takes the last one.  A
token is dated in seconds, and checked by another clock after any delay.  A
signature is a fact about the key and what was signed.

**HttpSession.**  One browser, overlapping requests.  A request loads at its
first use, each change saves at once and MWSaveSession saves what is left;
with the cookie store the values travel in the cookie, which is lost once the
header was sent.  The Save of either store may fail.

**Stores, CompareAndSet.**  A text is its form and the number it spells
(`Strconv`): a numeral as it is written, one in another spelling that parses too
("05", "+5"), a bool, a word; parsing, formatting and wrap-around follow the standard
library.  A bolt operation is a transaction that fails in the function, or in
the commit, or succeeds.  A redis script compares texts on the server, INCRBY
takes only a numeral as redis writes it, and the client parses the answer and
compares numbers.

**RateLimiter.**  Time in half seconds, because redis is given whole ones; a
client that gets no answer counts the call as limited although the server may
have counted it.

## 3. The runs

| run | checks | shows |
|---|---|---|
| `timer_wheel` | `TypeOK`, `MapsConsistent`, `WheelOnSchedule`, `OneFate`, `FiresAtItsTick`, `QuietAfterClose`, `FiresInWindow` | the wheel on its ticker: maps agree, ticks waited plus ticks left are the steps asked for, a task fires at exactly that tick, between `⌊delay/period⌋·period` and `delay+period` in real time, never after a removal, and nothing moves after Close |
| `tasks` | `BatchesKept`, `OneRunAtATime`, `CallsAsAsked`, `OutcomeIsReal`, `TasksCovered`, `ImplementsBgTask`, `TasksProgress` | what runs tasks: none is lost, repeated or started twice, outcomes are real, nobody waits for ever |
| `sync` | `HoldersReleasedOnce`, `WakeupsKept`, `AnswerIsTrue`, `GroupStops`, `ImplementsFlights`, `SyncProgress` | what goroutines wait at: nobody waits for something that has happened, nobody is let through before it has |
| `parts` | `LimitsKept`, `ErrorsArrive`, `OwnValuesSeen`, `TokensJudged`, `RunsGuarded`, `BlocksUntilValue`, `ReportedIsTrue`, `CollectionsKept`, `TimerProgress` | the liveness of TimerExecutor and the safety of fourteen other parts |
| `cache` | `TypeOK`, `CacheConsistent`, `LeaderReadsCurrent`, `AllReturn` | two requests, two instances, every fault: a stale entry is marked, the owner check keeps late loads out, a leading FetchNew is current, and the retry loops end although owners fail, lose or never release the lock |
| `scheduler` | `SchedTypeOK`, `ClaimIsBacked`, `ExclusiveUnlessLost`, `OneStaleRun`, `UsesSessionLock`, `DueIsRun`, `StopEnds` | two instances with failing and late calls, lost answers, crashes and Stop: the claim of a session that is in time has the key, runs overlap only after a lost lock or with a late session, one early run per stale reading, a due task is run, the loop and the release end after Stop |
| `timer_del` ✗ | `DelIsEffective` | §7.1 |
| `ticker_missed` ✗ | `FullBatchTicks` | §7.2 |
| `block_panic` ✗ | `NoPanic` | §7.3 |
| `cache_fetchnew` ✗ | `FetchNewIsCurrent` | §7.4 |
| `scheduler_due` ✗ | `RunsWhenDue` | §7.5 |
| `runner_stop` ✗ | `StopAlwaysReturns` | §7.6 |

✗ marks a run in which TLC must find the counterexample.

Configurations kept beside the runs, to be used by hand.  In the first six TLC
finds a counterexample to what a comment or a test of the repository says; the
passing runs check what holds instead, with the exception named in the property.

| configuration, module | checks | shows |
|---|---|---|
| `timer_window`, TimerClock | `FiresAfterDelay` | §7.7 |
| `runner_idle`, TaskRunner | `IdleRunsNothing` | §7.8 |
| `barrier_period`, PeriodBarrier | `OncePerPeriod` | §7.9 |
| `blocker_get`, Blocker | `GetGetsValue` | §7.10 |
| `http_code`, ErrorPath | `ValidationCodeAnswered` | §7.11 |
| `cas_incr`, CompareAndSet | `IncrReturnsCurrent` | §7.12 |
| `scheduler_margin`, RdbScheduler | the safety of `scheduler` | it holds with a longer TTL and calls that take a unit of time (§4) |

A property is a conjunction of named parts where several facts answer one
question; each part is a definition with a comment of its own, and the
component's type invariant is one of them.

| property | of | parts, and what they show |
|---|---|---|
| `MapsConsistent` | TimerExecutor | `BucketsConsistent`, `IndexConsistent` |
| `OneFate` | TimerExecutor | `RemovedNeverRuns`, `DeliveredOnce` |
| `FiresInWindow` | TimerClock | the window of the code (its lower end is the delay rounded down, not the delay: §7.7), and `AgeInStep`, the invariant behind it |
| `TimerProgress` | TimerExecutor | `LeavesWheel` (rounds come down to zero), `FiredIsHandled` (a runner blocked in its own PutTask is released by Close), `CloseReturns` |
| `CacheConsistent` | RdbCache | `FreshIsCurrent` (what is stale is marked), its reason `OwnerIsCurrent`, `SingleFlight`, `NeverNil` |
| `BatchesKept` | TickerExecutor, by count, by time and by both | `HandledInOrder` (no task lost, repeated or reordered), `ClosedIsFlushed`, and without a period `CountedBatchTicks` (a full batch ticks) with its reason `CountIsBacklog` |
| `OneRunAtATime` | TaskRunner | `OneLiveRun` (two only while a Stop is about to cancel the first), `IdleIsStopped` (an idle runner runs no task but one whose Start was overtaken, §7.8, and that one is cancelled if the runner was built with a context) |
| `CallsAsAsked` | RunLoop | `DoneSeenOnce` (at most one call sees the context end), `AtMostRetries` (n retries, n+1 calls), `OneInitialRun`, `DeadlineReleased` |
| `OutcomeIsReal` | Promise | `NilIsSuccess`, `ErrorIsReal` ("canceled" is the caller's, never a worker's), `SerialUnlessCanceled` |
| `TasksCovered` | Groups | `PermitsBound`, `WaitCovers` |
| `TasksProgress` | the parts of `tasks` | `EventuallyHandled`, `ConsumerEnds` (ticker), `StopReturns` (a runner built with a context), `ReturnsEarly` (parallel promises), `WaitReturns` (groups) |
| `HoldersReleasedOnce` | BlockGroup: Put against Put and PutIfExist, or removals against PutIfExist, which keeps its read lock | `NoPanic`, `ReleasedOnce` |
| `WakeupsKept` | Latch | `NoLostWakeup` |
| `AnswerIsTrue` | HealthWatch | `NilIsTrue`: nil means SERVING or cancelled by the caller |
| `GroupStops` | RunnerGroup | `StopCoversMembers`: after Stop no member runs, unless someone else was stopping it |
| `SyncProgress` | the parts of `sync` | `GetReturnsValue`, `WaitersReleased` (BlockGroup), `DoReturns` (CacheGroup: everyone returns except from a flight whose task panicked), `OpenLetsThrough` (Latch), `WaitEnds` (health), `GroupReturns` (RunnerGroup: the lock comes back) |
| `BlocksUntilValue` | Blocker | `BlocksIffEmpty` (nil is a value), `NobodyLeftWaiting`, `GetSeesValue` (Get returns what the Blocker holds; without a value it returns, or panics, only if a Remove overtook it) |
| `LimitsKept` | PeriodBarrier | `InvokesOneAtATime`, `EarlyOnlyIfStale` (a second call within the period, §7.9, only if an invocation ended between the two halves of allowInvoke) |
| | RateLimiter | `OftenSpaced`, `FrequencyBounded` (at most twice the limit in a stretch as long as the window: windows are fixed, not sliding, and an expiry below a second is none), `CounterExpires` |
| | RetryCounter | `SharedBudget`, `GivesUpWhenSpent`, `IntervalCapped` |
| `ReportedIsTrue` | Stores: bolt | `WrittenIsRead`, `FailureChangesNothing` (half way through DelEach or at the commit), `IdsFresh` |
| | Stores: MemoryStore | `HandedBackOnce`, `TextKeepsAnswers` |
| | CompareAndSet | `ReportedIsStored` (but for IncrEQ of a numeral in another spelling), `FailureUntouched` (but for IncrNEQ of a missing key): §7.12 |
| `CollectionsKept` | Collections: results | `BatchTogether`, `CopyIsWhole`, `DeletedOnce`, `FailedHasNoValue` |
| | Collections: sets | `EqualIsEqual`, `OnlyReceiverChanges` (no operation leaves two sets with one map), `PopSplits` |
| `ErrorsArrive` | ErrorPath | `CodeSurvives` (of a stream, once the caller has converted the status), `FailureArrives`, `FailureAnswered`, `CodeAnswered` (over HTTP the code of the http error or BizError, wherever it is among the layers; a validation error's own code is not among them: §7.11) |
| `OwnValuesSeen` | RpcMiddleware | `OwnPutSeen` (of a request that shares its State with no other, down the chain), `RaceNeedsSharing` (a State that two requests share is the only way to race) |
| | HttpSession | `NextLoadSeesSaved`, unless requests overlapped or the response was under way |
| `TokensJudged` | RpcMiddleware | `AlikeIsAccepted`, `AcceptedIsRecent`, `ValueIsCallers` |
| `RunsGuarded` | CronScheduler | `OverlapNeedsReAdd`, `TokenComesBack`, `StoppedIsIdle` |

**Refinement.**  `Flights` is what the comment on CacheGroup promises: a key
has one flight at a time, a flight lands once, and whoever asked gets its
result.  The mapping is direct: the map is `current`, the holder's result is
`value`, the holder a goroutine waits for is what it `asked`.  `BgTask` is what
TaskRunner asks of a task: closed at any time, and closed once the context is
done, the latter with fairness, so that the refinement is a liveness property
too.  `Lease` is what a lock with a time-out is for: one holder at a time, and
nobody loses it while counting on it; the client gives up first.  `SessionLock`
implements it with its times and refreshes, where who counts on it is who claims
it and is in time, and `UsesSessionLock` says that the
scheduler's steps are steps of the lock and so, too, of a lease.

## 4. Bounds, and why they are enough

* `timer_wheel`: two keys, three objects alive (one pending, one replaced and
  still in its bucket, one with a runner), all cyclic, two buckets, period 2,
  delays 1 (below the period) and 5 (a whole turn and half a period), so that
  bucket wrap, rounds, a fire on the very next tick and a remainder all occur.
  A plain task is a cyclic one that its runner does not put again; the two
  kinds meet in `parts`.  The proofs remove the bounds.
* `tasks`: the ticker has at most 4 tasks (`MaxTasks`), a full batch at two or
  three: more than one batch, and a batch overshot by an add.  One Add at a
  time holds the lock, so more adders add nothing.  TaskRunner: two callers and
  two runs (`MaxStarts`), the old one and the one that overtakes it.  RunLoop:
  4 calls (`MaxCalls`), one more than two retries allow.  Promise: three
  functions, one that decides, one that is running and one that has not begun.
  Groups: three tasks for two permits.
* `sync`: BlockGroup with three goroutines (one that waits, two that race), two
  keys, three holders: a key can be removed and created again.  CacheGroup: one
  key (keys do not interact), three callers, two holders, the old and the new.
  Latch: three goroutines.  Health: 4 statuses against a channel of one place.
  RunnerGroup: two runners, two callers, 5 calls (`MaxCalls`): add, start, stop,
  and another start and stop against them.
* `parts`: TimerExecutor has two keys with a delay of a whole turn, so that
  rounds must come down and two tasks fall due in one tick.  Two goroutines
  share a Blocker (of a value and of nil), a barrier, a counter, a collection.  Time runs for two
  periods of the barrier and past two windows of the limiter, in half seconds;
  a limit is 1, 2 or below one, which refuses everybody.
  Integers have two bits (`Half` = 2, half their range), so that sums wrap; the texts are
  a word, a bool and numerals in two spellings.  Two variables hold sets, with one map and one struct to
  spare.  Errors have BizError codes with a gRPC counterpart, some of
  one's own, some that collide, negative ones, and ones at half the range of a
  gRPC code, at its end and beyond it (`RpcCodes` = 1000000), wrapped and doubled;
  `Powers` has what is needed for the first three digits of them all.  Two requests go
  through a chain of two MWStates (`NumMWs`), the least in which a State is handed on,
  or share a session; a clock is ahead by a tick or behind by more than the TTL.  Cron:
  one task that is skipped and recovered, one that is delayed and not recovered,
  three entries, two runs at once, so that a removed task can be added again.
* `cache`: two requests, because a lock has one owner and one late owner; two
  instances, because requests of one instance join; one update (`MaxVersion`),
  whose value is present or absent in the backend.  The proofs hold for any
  number of all of them.
* `scheduler`: two instances, a TTL of 3 units and a refresh every unit; every call
  that does not return within its unit is late.  `Lag` is not a bound on the calls: it is what the properties
  mean by *in time*, and `LagAssumption` only says that it was chosen so that
  the interval and two calls (the one that obtains, whose answer comes after the
  key was set, and the one that refreshes) fit into the TTL; with `TTL - 2 s` such
  a call takes less than a second.  One of the two instances may be late (`Slow`),
  the other is not, which is enough for a key to expire under a claim and to go
  to the other; the proofs hold of any set.  `staleRuns` counts to 2, one more
  than the property allows.  `scheduler_margin` checks the safety with a TTL of 6
  units, a refresh every 2 and a `Lag` of 1, where what is left of the TTL and the
  age of a call meet; its liveness would take too long.
* The configurations with a counterexample are as small as that is: `timer_window` has one
  task and a delay that is no multiple of the period, `barrier_period` two callers
  and two periods, `blocker_get` one goroutine in Get, `cas_incr` two integers,
  `http_code` one validation error, `runner_idle` two callers.

Deadlock checking is off throughout: a closed executor, a group whose callers
have all returned and a cache whose requests are all answered may really stop.
That nobody is stuck in the middle is what the liveness properties say.
Symmetry is used only in runs without liveness.

## 5. Fairness

Weak fairness of goroutines that can run (the Go scheduler is preemptive), of
the ticker, of the passing of time, and of LockTTL.  `select` chooses at random
among ready cases, so the close signal is not passed over for ever: weak
fairness of `onClosed`, which stays enabled until taken.  In `RunLoop`
the ticker is ready again and again while the context stays done: `select`
chooses at random, hence strong fairness of the case that sees it.  In
`BlockGroup` a goroutine waiting for the mutex needs strong fairness, since the mutex is free
again and again without being free for good; Go's RWMutex keeps readers out
once a writer waits and hands over in order, which gives just that.  Nobody is
obliged to call anything: Put, Add, Close, Remove, Expire have no fairness.
Failures (`getFails`, `refreshBreaks`, `crash`) have none either.  In
`RdbScheduler` the loops of the instances and of the locks and time have weak
fairness; `taskBegins` has strong fairness, because the answer to Obtain may be
lost any number of times but not every time; `refreshEnds` has strong fairness,
since the `select` of a loop that finds both a tick and its context done chooses
at random.  A call may take any time but returns.  The task itself is taken to
return; in `TaskRunner` and `RunnerGroup` only once its context is done, in
`Promise` a function need not return at all.  In `RunnerGroup` fairness is that
of each caller: whoever holds the lock goes on.  `CronScheduler`, the stores and
the middlewares are checked for safety only and need none.

## 6. The proofs

All are proved for every value of the constants, from the assumption named in
the component's module (`WheelAssumption`, `CacheAssumption`, `LockAssumption`,
`LagAssumption`, `RunnerAssumption` …), which TLC evaluates on the instances.
Most assumptions say that a bound is a number, that a marker such as `NoValue`
is no value, or that a set of processes is finite where the code counts them;
`WheelAssumption` (a positive period, at least one bucket) is the one the code
itself depends on, and `LagAssumption` delimits what is called in time (§4).  No
assumption is made on the length of a call, on a sleep, or on the values that are
put, nil and unusual numerals included.  A bound on a counter stays in the
guards, but it is any number.

Every proof has the same shape: the initial states satisfy the invariant
(`…Starts`, `…Init`), a step preserves it, one lemma or step per action
(`…Preserves`, `…Keeps`), it implies the property (`…Means`), and temporal logic
puts the three together.  Below, per module, the invariant and why the property
alone does not do.

**TimerClockProofs.**  First the wheel without a clock.  The hard fact is arithmetic: `resetTaskPosition`
computes a bucket and a round such that distance around the wheel plus rounds
times buckets is exactly the number of steps (`PositionIsSteps`), and a tick
takes exactly one off (`TickDistance`: from the current bucket a whole turn
remains, from any other the distance shrinks by one).  On them rests
`WheelOnSchedule`.  It is not inductive alone; the invariant is

    Inv == TypeOK /\ BucketsConsistent /\ IndexConsistent /\ WheelDelays
           /\ RunnersConsistent /\ WheelOnSchedule /\ CloseConsistent

`BucketsConsistent` is needed because `delTask` clears by key and recorded
index; `RunnersConsistent` (a task belongs to one runner and is not removed)
because a cyclic task comes back with the key and delay of its object;
`IndexConsistent` because Del and Put mark through `tasks`, and must not mark
what a runner has.  From `Inv` follow `TypeCorrect`, `MapsAgree`, `OnSchedule`,
`RemovedStayOut` and `DeliveredToOne` (together `EachHasOneFate`), and the action
properties `FiresOnTime` and `QuietOnceClosed`.

Then the clock.  `TimedIsTimer`: with a clock the executor does nothing
that it does not do without one, so `Inv` holds of it.  `FiresWithinWindow`, the
window in real time, needs `ClockInv == Inv /\ PhaseInv /\ AgeInStep`:
`AgeInStep` keeps the age of a pending task within one period of the time that
the ticks it has waited span, and `WheelOnSchedule` says how many those are when
it fires.

**RdbCacheProofs.**

    Inv == TypeOK /\ Ordered /\ FreshIsCurrent /\ OwnerIsCurrent
           /\ LoadsConsistent /\ FlightsConsistent /\ LeaderHasCurrent /\ NeverNil

`FreshIsCurrent` needs `OwnerIsCurrent` (whoever may store has a current
value), which needs that Expire takes the ownership away and that a load began
after its lock was taken (`LoadsConsistent`); `LeaderReadsCurrent` needs the
same of a value on its way back to the request (`LeaderHasCurrent`);
`SingleFlight` needs that the group's entry and the request inside agree
(`FlightsConsistent`).  Theorems: `TypeCorrect`, `StaleIsMarked`,
`OwnerCheckSuffices`, `NeverConvertsNil`, `OneFlight`, together
`CacheStaysConsistent`, and `LeaderIsConsistent`.

**RdbSchedulerProofs.**  First the lock.  `ClaimIsBacked` needs to know that the
key cannot expire under a session that counts on it, one that claims the lock and
is not late.  The invariant `LockInv` gives every such
session a `Margin`: what is left of the TTL is more than the rest of the
refresh interval and a call while the loop waits, more than the rest of the
call while it is out, and, where redis has just set it, the TTL less the age of
the call.  A unit of time takes one from both sides; a refresh restores the
left one, of a late session too, which is in time again from then on;
`RefreshInterval + 2 * Lag < TTL` closes the circle.  Sessions that do not count
on the key need nothing, which is why a failed refresh gives up the claim before
the key can go.  `LockIsLease` is the refinement of `Lease`, with
the key as the holder and the clients whose `IsReleased()` is false and whose
session is in time as those who count on it: a step that lets the key go is one of a client that gives up in the
same step or has given up (`LettingGo`), or is the expiry, and then the invariant
after the step says that nobody counted on it (`ElapseRevokes`).  Theorems:
`LockInvariant`, `ClaimBacked`, `LockIsLease`.

Then the scheduler.  `SchedulerUsesLock` shows that the scheduler implements
`LockSpec` (the initial states are the lock's, every step is a step of the lock
or leaves it alone), and with it `Lease`, so `LockInv` holds of it.  On top, `SchedInv` says that a
task runs within a held session and that an early run uses the stale reading
up.  Theorems: `SchedulerTypes`, `ExclusiveRuns`, `StaleRunsBounded`.

**TasksProofs.**

* `TickerKeepsBatches` (`BatchesKept`), from `TickerInv`.  That nothing is lost
  or reordered is nearly inductive (concatenation is associative).  That a full
  batch ticks without a time ticker is not: `FiringInv` says that nobody changes
  the count while Add is between reading and subtracting it, because Add has the
  lock and no time ticker exists, and `BacklogInv` that the count is the backlog
  until a tick is under way.  With a period neither holds: §7.2.
* `LoopCallsAsAsked` (`CallsAsAsked`), from `LoopInv`: only the last call can be
  given a context that is found done, and `retry` is what is left of the calls
  asked for.  `LoopIsBgTask`: every kind of loop implements the safety part of
  `BgTask`, the contract TaskRunner relies on.
* `PromiseOutcomeIsReal` (`OutcomeIsReal`), from `PromiseInv`: a result is what
  its function did unless the context was done, and a worker cancels only once
  the outcome is settled (`ParallelInv`); in the serial forms the functions
  before the current one are through (`SerialInv`).
* `RunnerHasOneRun` (`OneRunAtATime`), from `RunnerInv`: who may be at which
  step (`RolesInv`), the WaitGroup as the number of runs in flight (`CountInv`,
  by lemmas on the cardinality of those at a step), which context a run has
  (`ContextInv`), and that a run whose context is not cancelled is the one
  `isRunning` is about, or that a Stop which has swapped it is on its way to the
  cancel (`LiveInv`, `StopInv`).  Nothing is assumed of the sleep: a run that is
  not stopped when the runner is idle is one that a waitDone went ahead of.
* `GroupCoversTasks` (`TasksCovered`): the WaitGroup is the number of tasks
  counted, the channel holds a permit per running task.

**SyncProofs.**

* `SingleFlightKept`: CacheGroup implements `Flights`, step by step.  `CacheInv`
  says that a holder is at its zero value until the one goroutine that runs its
  task has written the result, and that whoever reads it reads after that.
* `LatchKeepsWakeups`: `WakeupsKept` is inductive, since a waiter tests
  `isClosed` again under the lock, whatever it read before.
* `HealthAnswerIsTrue`: from `ServingWasSent`, a SERVING anywhere between
  server and caller was reported.
* `RunnerGroupStops`: while a Stop ranges over the members, those it is through
  with do not run, as a Start would need the lock that it holds.
* `HoldersReleasedOnceIfApart`: where Put is not used together with removals
  (`PutApart`) each holder is released exactly once.  `BlockInv` says of every
  usage that a goroutine holds the lock its step needs and that a holder taken
  out of the map is out of reach once the write lock is free; under `PutApart`
  also that whoever is about to call Done() is the only one.  §7.3 shows that
  the condition is needed.

**PartsProofs.**  One section per part of MCParts, and at the end the parts
together: a step of `PartsSpec` is a step of one part and leaves the variables
of the others, so each invariant carries over, and the conjunctions that the run
`parts` checks follow: `PartsKeepLimits`, `PartsSeeOwnValues`,
`PartsKeepCollections`, `PartsReportTruly` and `PartsKeepPromises` (the last
three with their action properties).

* Blocker: `hasValue`, `val` and the WaitGroup stay in step, nil or not, and a
  reader that was let through has a value to read, or one that was woken finds the
  WaitGroup at zero, unless a Remove has overtaken it.
* PeriodBarrier: who is invoking has the flag, alone.
* RateLimiter: `FrequencyBounded` needs to count: a stretch as long as the window
  meets at most two windows, and the grants of a window are at most its counter.
* RetryCounter: executions plus goroutines that sleep before one are goroutines
  begun plus the shared count (`BudgetInv`).
* RpcMiddleware, States: the State in the context of a request that has started
  is the one it was given, and what lies in it was put by those who were given it;
  so a request that is alone with it finds its own values.
* HttpSession: while requests come one after the other and no cookie is lost, the
  open one holds the browser's cookie, and what is stored was saved.
* RpcMiddleware, tokens: the last token on the wire is the one this client made when it sent,
  whatever the context carried before (`CarriedInv`).
* CronScheduler: an entry's token is there, or with exactly one running run; a
  name has one entry.
* Collections, results: whoever writes is alone, so what it appends stays together and what
  a reader has copied is still what the map holds; an entry of a map is of an
  operation of its own whose result was not returned.
* Collections, sets: two structs never share a map.  The spare struct and map that an
  operation takes exist because two variables keep at most two (`SetAssumption`).
* ErrorPath (`ErrorsReach`): `ErrorInv` says that on the wire there is the status
  made of the cause, at the caller what was made of that, by the interceptor or,
  on a stream, by nobody, and that before Handle nobody but the handler has answered.
  That `errors.As` finds a first layer in an error of any length is the
  well-foundedness of < (`FirstLayer`).  The table of codes is one to one
  (`CodesMapped`), so a code in it comes back, and one that is not in it comes back
  if it fits and no code of the table is sent as it (`RpcCode`).
* Stores: the items of two keys of a MemoryStore come from two Puts; the ids in
  use of a bolt bucket were taken from the sequence.  CompareAndSet: a script is
  atomic, and what it reports is preserved operation by operation, for texts in
  every spelling; the two exceptions are in the statement.

**What the proofs changed.**  Proving found places where a model said something
it did not mean: guards of a CASE that overlapped (in `wrapped`, `Loaded`,
`Widened` and `OnNewToken`; TLC had taken the first) are now IFs in the order of
the code, `FrequencyBounded` was false of a negative limit, which the code
accepts and which refuses everybody, `FailureAnswered` was false of an HTTP error
with a status below 400, `ErrorPath` had left out the width of `codes.Code`, in
which a code that does not fit becomes another one, and several assumptions on constants had
been left unsaid.  An integer's width enters as `Half`, half its range, because
the provers know nothing of exponentiation.

**Only model-checked.**

* Liveness: `TimerProgress`, `TasksProgress`, `SyncProgress`, `AllReturn`,
  `DueIsRun`, `StopEnds`, and the fairness in `ImplementsBgTask`.  The prover has
  neither fairness nor ENABLED.

## 7. Where code and documentation disagree

1. **`async/timer.go:200`** — `delTask` deletes `e.tasks[key]` whichever task
   it is.  Put k (long), put k again (short or long), tick over the bucket of
   the first: the second one loses its entry and Del(k) no longer stops it; nor
   does a third Put replace it, nor is it handed over on close.  The test
   (`test/async/timer_test.go:59`) expects Del to be effective.  Run `timer_del`.
2. **`async/ticker.go:141`** — `fireTick` subtracts the count it read before
   sending; a consumer that handles the batch and resets the count in between
   leaves it negative, and `MaxCount` is reached without a tick, against
   `async/ticker.go:14`.  Needs the time ticker.  Run `ticker_missed`.
3. **`async/block_group.go:40`** — `Unblock` tests `hasResult` and calls
   `wg.Done()`; a Put on its fast path, outside the lock, swaps the flag in
   between and calls it too: panic.  Run `block_panic`.
4. **`rdb/cache.go:168`** — FetchNew promises strong consistency, but joins a
   flight that a Fetch started before the last Expire and returns its stale
   value.  A leading FetchNew is current (proved).  Run `cache_fetchnew`.

5. **`rdb/scheduler/scheduler.go:182`** — the next invocation time is checked
   before the lock is obtained and not again after.  An instance that has read
   it, while another runs the task, sets the next time and releases the lock,
   obtains the lock and runs the task early, against lines 57–59.  Every
   instance does so at most once per next time (proved).  Run `scheduler_due`.
6. **`async/runner.go:83`** — Start swaps `isRunning` before it has made its
   context (line 66).  A Stop in between swaps it back, cancels a nil context and
   waits for the task that Start then starts and nobody has cancelled, against
   line 77 ("cancels the task's ctx and waits for the task to end").  A runner
   built with a context is not exposed (`StopReturns`).  Run `runner_stop`.

7. **`async/timer.go:188`** — the number of steps to a task's bucket is its delay
   divided by the period, rounded down, so what the delay has beyond whole periods
   is lost: a delay of 7 with a period of 4 fires after as little as 4, against
   `test/async/timer_test.go:30` ("delay ~ delay + period" where the delay is at
   least the period).  What does hold, from the rounded delay to delay + period, is
   proved.  Shown by `timer_window.cfg`.
8. **`async/runner.go:88`** — `waitDone` sleeps a millisecond for an overtaken
   Start to get to its `taskDone.Add(1)`, which nothing ensures: Stop may return,
   with `isRunning` false, and the task then runs, against line 77.  If the runner
   was built with a context that task is at least cancelled (proved).  Shown
   by `runner_idle.cfg`.
9. **`async/barrier.go:58`** — `allowInvoke` compares the time of the last
   invocation before it swaps `isInvoking`; an invocation that begins and ends in
   between is not seen, and the function is invoked twice in a period, against
   line 36.  It takes that race (proved).  Shown by `barrier_period.cfg`.
10. **`async/blocker.go:37`** — Get waits for the WaitGroup without the lock.  A Put
    that wakes it and a Remove before it resumes reuse the WaitGroup, and the wait
    panics, against line 35 ("blocks until it gets a value").  A Remove a moment
    later makes Get return nil, though nothing was there.  Shown by `blocker_get.cfg`.
11. **`http/mw_err_handler.go:129`** — `c.Errors.Last()` is always a `*gin.Error`, so
    `ToHttpErrCode` never comes to its cases for validation errors and the response
    has the code -1, where `test/http/http_test.go:234` expects 400900.  Shown
    by `http_code.cfg`.
12. **`rdb/ca.go:56`** — IncrNEQ of a missing key increments and then fails to parse
    the empty text that it got back, against line 53 ("returns the current value").
    IncrEQ with "05" stored and 5 expected returns success and 5 + n, and stores
    nothing: the script compares texts (line 12), the client numbers (line 36).
    Shown by `cas_incr.cfg`.

Disagreements that no run states, because they show in a single call or concern
a comment only:

* `async/blocker.go:26-27` says that HasValue true means that Get blocks, and that
  it is false after Put(nil).  The code does the opposite in both (line 32 and
  `NewBlockerOf`), as `test/async/blocker_test.go:15-35` expects.  `BlocksIffEmpty`
  follows the code.
* `test/async/runner_test.go` expects IsRunning to be false once Wait has returned,
  but the goroutine of the run calls `taskDone.Done()` before Stop
  (`async/runner.go:72-73`), so Wait may return first.
* `rpc/mw_error.go:14-16` says that the client's interceptor turns the error of a
  call into a BizError; that of a stream it does not see, as lines 54-55 say: it
  comes as a status that the caller converts.
* `async/promise.go:43` has the serial DoCancelableAny run until its context is
  cancelled; it goes on to start the functions that are left, each without waiting
  for the one before (`SerialUnlessCanceled`), and one that is fast enough can still
  make the outcome nil.
* `bolt/repo.go:179` promises the zero value for a missing key; the key reads as
  the empty text, which GetInt, GetInt64 and GetBool fail to parse.
* `rdb/ca.go:8` says that a missing key has the zero value of its type and matches
  0 and false; it matches only the empty text.
* `rpc/mw_auth.go:167`: a method the server is told to ignore is refused all the
  same when the call carries no token at all (line 111).

Behaviour that is real but nowhere promised otherwise: a session lock whose
refresh is late may claim a key that has expired, since Refresh has no deadline of
its own (`rdb/locker.go:145`) and the client's default read time-out (3 s) is
longer than the margin (2 s); a task that is removed from the cron scheduler and
added again may overlap its old run; requests without a State, and requests made
from one context, share a map that has no lock; two overlapping requests of one
browser overwrite each other's session; a Stop of a RunnerGroup does not wait for a
member that someone else is stopping; a BizError code that does not fit a gRPC code
arrives as another one (`rpc/error.go:68`), and a multiple of 2^32 as success; a
limiter with an expiry below a second limits nothing (`rdb/limiter.go:54`); a task
that panics leaves its CacheGroup entry blocked for ever.

Smaller remarks: a Start after Stop finds the context of the options cancelled
and its loops end at once; `onClosed` also hands over tasks that were marked
removed but not yet cleared; a FetchBackend that joins a flight may return a cached
value.

## 8. What is not modelled, and why

* Values, handlers' contents, log output, option parsing, JSON conversion of
  cached values: passed through without influence on control.
* Panics of user callbacks, except where the code handles them (CacheGroup,
  cron, bolt transactions, the HTTP error handler).
* Of the redis scheduler: MustAddTask, tasks without a lock, `InvokeTimeRange`
  (a call outside it does nothing), a second Start.
* Drift between the clocks of redis and of its clients.
* Methods that only read: `Count`, `TaskSize`, `Has`, `Peek`, `Get` of the cache.
* The panic of `sync.WaitGroup` when it is reused while a waiter resumes, in
  `TaskRunner` (in `Blocker` it is modelled); an HTTP error that is a nil pointer.
* `Barrier` (a mutex around a call), `TaskRunner.WithContext` after the first
  Start, tasks that call the RunnerGroup they belong to.
* Callbacks of one's own in the auth middleware, hooks of the HTTP error handler, a session that fails to load.
* `rdb/z.go`, `rdb/util.go`: calls of redis commands without a decision.
* `grpc`: the pool delegates Get, Put and Close to processout/grpc-go-pool.
* `orm`, `conf`, `slog`, the HTTP client and server, interceptors that log,
  the codecs and file I/O of `util`: delegated to libraries.
* `_set/int32_set.go` and `int64_set.go`: the code of `string_set.go` for another
  type.  `_string`, `_int64`, `_interface`, `_reflect`, `_stream`: pure conversions.

## 9. Plan

1. done: the wheel, the ticker, the block group, the cache, the lock and the
   scheduler, with the proofs of §6; the rest of `async`, the redis limiter and
   scripts, the stores, cron, and the middlewares of `rpc` and `http`, with three
   abstract specifications and their refinements.
2. done: every safety property that a passing run checks as a theorem (§6), with
   the refinement of `Flights`, of `Lease` and of the safety of `BgTask`.
3. open: the liveness, which is TLC's; parts of §8 that may come to decide more
   than they do now.

## 10. Running it

    tlc -workers 2 -config timer_wheel.cfg TimerClock
    tlc -workers 2 -config parts.cfg MCParts
    tlapm TimerClockProofs.tla
    tlapm PartsProofs.tla

The longest runs (`sync`, `cache`, `tasks`, `parts`) take two to three minutes,
the proofs a few minutes each.
