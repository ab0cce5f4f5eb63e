---------------------------- MODULE CronScheduler -----------------------------
(***************************************************************************)
(* scheduler/scheduler.go: named tasks on a cron.  The scheduler keeps the *)
(* entry of each name under its lock and wraps a task as its options say:  *)
(* Recover inside, SkipIfStillRunning or DelayIfStillRunning outside.  The *)
(* cron is external: it starts a goroutine for an entry that is due, the   *)
(* wrappers hold a token while the task runs (and give it back when Run    *)
(* returns), and Stop gives a context that ends when the goroutines have.  *)
(***************************************************************************)
EXTENDS Naturals, FiniteSets

CONSTANTS
    TaskNames,
    TaskOptions,    \* of each name: recover, skip, delay
    MaxEntries,     \* bound: entries the cron has given ids
    MaxRuns,        \* bound: goroutines of the cron at once
    Stoppers        \* goroutines that call Stop

ASSUME CronAssumption ==
    /\ \A n \in TaskNames : {TaskOptions[n].recover, TaskOptions[n].skip, TaskOptions[n].delay} \subseteq BOOLEAN
    /\ MaxEntries \in Nat /\ MaxRuns \in Nat

NoEntry == 0

VARIABLES
    cronTasks,      \* s.tasks: the entry of each name, or NoEntry
    cronEntries,    \* the cron's entries: ids
    nameOf,         \* history: the name each id was added for
    cronOn,         \* the cron is started
    cronToken,          \* the ids whose wrapper has its token
    cronRuns,           \* the goroutines: run number -> entry and "waiting" or "running"
    cronCrashed,        \* a panic that nobody recovered has ended the process
    stopPc,         \* the callers of Stop: "idle", "waiting", "stopped", "timeout"
    startedSince    \* the callers of Stop since whose call the cron was started again

cronVars == <<cronTasks, cronEntries, nameOf, cronOn, cronToken, cronRuns, cronCrashed, stopPc, startedSince>>

CronIds == 1 .. MaxEntries
RunSlots == 1 .. MaxRuns
NoRun == [id |-> NoEntry, st |-> "none"]

optionOf(id) == TaskOptions[nameOf[id]]
Guarded(id) == optionOf(id).skip \/ optionOf(id).delay
ActiveRuns == {i \in RunSlots : cronRuns[i] # NoRun}
RunningOf(id) == {i \in RunSlots : cronRuns[i] = [id |-> id, st |-> "running"]}

CronTypeOK ==
    /\ \A n \in TaskNames : cronTasks[n] \in {NoEntry} \cup CronIds
    /\ cronEntries = {cronTasks[n] : n \in TaskNames} \ {NoEntry}
    /\ \A i \in ActiveRuns : cronRuns[i].id \in DOMAIN nameOf /\ (cronRuns[i].st = "waiting" => optionOf(cronRuns[i].id).delay)
    /\ cronToken \subseteq DOMAIN nameOf

-----------------------------------------------------------------------------
\* A name that exists makes MustAddTask panic.
MustAddTask(name) ==
    /\ cronTasks[name] = NoEntry /\ Cardinality(DOMAIN nameOf) < MaxEntries
    /\ LET id == Cardinality(DOMAIN nameOf) + 1
       IN  /\ nameOf' = [i \in 1 .. id |-> IF i = id THEN name ELSE nameOf[i]]
           /\ cronEntries' = cronEntries \cup {id} /\ cronToken' = cronToken \cup {id}
           /\ cronTasks' = [cronTasks EXCEPT ![name] = id]
    /\ UNCHANGED <<cronOn, cronRuns, cronCrashed, stopPc, startedSince>>

RemoveTasks(names) ==
    /\ cronEntries' = cronEntries \ {cronTasks[n] : n \in names}
    /\ cronTasks' = [n \in TaskNames |-> IF n \in names THEN NoEntry ELSE cronTasks[n]]
    /\ UNCHANGED <<nameOf, cronOn, cronToken, cronRuns, cronCrashed, stopPc, startedSince>>

CronStart ==
    /\ ~cronOn /\ cronOn' = TRUE
    /\ startedSince' = {p \in Stoppers : stopPc[p] # "idle"}
    /\ UNCHANGED <<cronTasks, cronEntries, nameOf, cronToken, cronRuns, cronCrashed, stopPc>>

\* Stop: the cron starts nothing any more; the caller waits for the goroutines, with or
\* without a timeout.
CronStop(p) ==
    /\ stopPc[p] = "idle" /\ stopPc' = [stopPc EXCEPT ![p] = "waiting"]
    /\ cronOn' = FALSE
    /\ UNCHANGED <<cronTasks, cronEntries, nameOf, cronToken, cronRuns, cronCrashed, startedSince>>

stopDone(p) ==
    /\ stopPc[p] = "waiting" /\ ActiveRuns = {}
    /\ stopPc' = [stopPc EXCEPT ![p] = "stopped"]
    /\ UNCHANGED <<cronTasks, cronEntries, nameOf, cronOn, cronToken, cronRuns, cronCrashed, startedSince>>
stopTimeout(p) ==
    /\ stopPc[p] = "waiting" /\ stopPc' = [stopPc EXCEPT ![p] = "timeout"]
    /\ UNCHANGED <<cronTasks, cronEntries, nameOf, cronOn, cronToken, cronRuns, cronCrashed, startedSince>>

-----------------------------------------------------------------------------
(* The goroutines of the cron *)

\* An entry is due: its wrapper takes the token, skips, or waits for it.
wrapped(id) ==
    IF ~Guarded(id) \/ id \in cronToken THEN "running"
    ELSE IF optionOf(id).skip THEN "skipped" ELSE "waiting"

runJob(id) ==
    /\ cronOn /\ id \in cronEntries
    /\ \E i \in RunSlots \ ActiveRuns :
          /\ \A j \in RunSlots \ ActiveRuns : i <= j
          /\ cronRuns' = IF wrapped(id) = "skipped" THEN cronRuns ELSE [cronRuns EXCEPT ![i] = [id |-> id, st |-> wrapped(id)]]
    /\ cronToken' = cronToken \ {id}
    /\ UNCHANGED <<cronTasks, cronEntries, nameOf, cronOn, cronCrashed, stopPc, startedSince>>

waitOver(i) ==
    /\ i \in ActiveRuns /\ cronRuns[i].st = "waiting" /\ cronRuns[i].id \in cronToken
    /\ cronToken' = cronToken \ {cronRuns[i].id}
    /\ cronRuns' = [cronRuns EXCEPT ![i].st = "running"]
    /\ UNCHANGED <<cronTasks, cronEntries, nameOf, cronOn, cronCrashed, stopPc, startedSince>>

jobReturns(i) ==
    /\ i \in ActiveRuns /\ cronRuns[i].st = "running"
    /\ cronToken' = cronToken \cup {cronRuns[i].id}
    /\ cronRuns' = [cronRuns EXCEPT ![i] = NoRun]
    /\ UNCHANGED <<cronTasks, cronEntries, nameOf, cronOn, cronCrashed, stopPc, startedSince>>

\* A panic: Recover, inside the other wrapper, turns it into a return.
jobPanics_RecoverOutside(i) ==
    /\ i \in ActiveRuns /\ cronRuns[i].st = "running" /\ optionOf(cronRuns[i].id).recover
    /\ cronRuns' = [cronRuns EXCEPT ![i] = NoRun]
    /\ UNCHANGED <<cronTasks, cronEntries, nameOf, cronOn, cronToken, cronCrashed, stopPc, startedSince>>
jobPanics(i) ==
    /\ i \in ActiveRuns /\ cronRuns[i].st = "running"
    /\ IF optionOf(cronRuns[i].id).recover
       THEN jobReturns(i)
       ELSE cronCrashed' = TRUE /\ UNCHANGED <<cronTasks, cronEntries, nameOf, cronOn, cronToken, cronRuns, stopPc, startedSince>>

-----------------------------------------------------------------------------
CronInit ==
    /\ cronTasks = [n \in TaskNames |-> NoEntry] /\ cronEntries = {} /\ nameOf = <<>>
    /\ cronOn = FALSE /\ cronToken = {} /\ cronCrashed = FALSE
    /\ cronRuns = [i \in RunSlots |-> NoRun]
    /\ stopPc = [p \in Stoppers |-> "idle"] /\ startedSince = {}

CronNext ==
    /\ ~cronCrashed
    /\ \/ \E n \in TaskNames : MustAddTask(n)
       \/ \E names \in SUBSET TaskNames \ {{}} : RemoveTasks(names)
       \/ CronStart
       \/ \E p \in Stoppers : CronStop(p) \/ stopDone(p) \/ stopTimeout(p)
       \/ \E id \in CronIds : runJob(id)
       \/ \E i \in RunSlots : waitOver(i) \/ jobReturns(i) \/ jobPanics(i)

CronSpec == CronInit /\ [][CronNext]_cronVars

-----------------------------------------------------------------------------
(* Properties *)

\* Two runs of a name whose task is skipped or delayed overlap only when the task was
\* removed and added again in between: a run of the old entry knows nothing of the new
\* one's token.
OverlapNeedsReAdd ==
    \A i, j \in ActiveRuns :
        (i # j /\ cronRuns[i].st = "running" /\ cronRuns[j].st = "running"
            /\ nameOf[cronRuns[i].id] = nameOf[cronRuns[j].id] /\ Guarded(cronRuns[i].id))
                => cronRuns[i].id # cronRuns[j].id /\ \E r \in {cronRuns[i].id, cronRuns[j].id} : r \notin cronEntries

\* A guarded task can run again whenever no run of it is under way: a panic that was
\* recovered has given the token back as well.
TokenComesBack ==
    \A id \in DOMAIN nameOf : (Guarded(id) /\ RunningOf(id) = {}) => id \in cronToken

\* When Stop has returned without a timeout and the cron was not started since, no task
\* runs and none waits to run.
StoppedIsIdle ==
    \A p \in Stoppers : (stopPc[p] = "stopped" /\ p \notin startedSince) => ActiveRuns = {} /\ ~cronOn

\* The wrappers guard the runs of a task: they do not overlap, the next one can always
\* come, and none is left when Stop has returned.
RunsGuarded == CronTypeOK /\ OverlapNeedsReAdd /\ TokenComesBack /\ StoppedIsIdle
=============================================================================
