------------------------------ MODULE BlockGroup ------------------------------
(***************************************************************************)
(* async/block_group.go: Get(key) blocks on the key's holder until Put     *)
(* gives it a result or Remove deletes it.  The map of holders is guarded  *)
(* by a RWMutex; a holder itself only by its WaitGroup and its atomic      *)
(* hasResult flag, and the fast path of Put works on a holder after the    *)
(* read lock was released.  Every access to a holder is a step of its own. *)
(*                                                                         *)
(* Results share one dynamic type, so that a result read while it is       *)
(* written is the old or the new one.  Has and Peek change nothing.        *)
(***************************************************************************)
EXTENDS Integers, FiniteSets

CONSTANTS
    Procs,      \* calling goroutines
    Keys, Values,
    Nil,        \* nil: no result, no key, no goroutine
    NoHolder,   \* the absent map entry
    Usages,     \* sets of methods: a group's callers use those of one of them
    MaxHolders  \* bound on the holders created

Methods == {"Get", "Put", "PutIfExist", "Remove", "RemoveAll"}

ASSUME GroupAssumption ==
    /\ Usages \subseteq SUBSET Methods
    /\ Nil \notin Values \cup Keys \cup Procs
    /\ MaxHolders \in Nat
    /\ NoHolder \notin 1 .. MaxHolders

VARIABLES
    holders,    \* g.holders: key -> holder
    created,    \* number of holders created so far; they are 1 .. created
    holder,     \* holder -> its WaitGroup counter, hasResult and result
    proc,       \* what every goroutine is doing
    writer,     \* the goroutine inside g.lock.Lock()
    readers,    \* the goroutines that keep g.lock.RLock() across steps
    panicked,   \* a WaitGroup counter became negative
    ops         \* the methods the callers of this group use

vars == <<holders, created, holder, proc, writer, readers, panicked, ops>>

Holders == 1 .. MaxHolders
HolderOrNone == Holders \cup {NoHolder}
HolderState == [wg : Int, hasResult : BOOLEAN, result : Values \cup {Nil}]
ProcSteps == {"idle", "getCreate", "getWait", "putSlow", "putResult", "putSwap",
              "putDone", "removeAll", "unblock", "unblockDone"}
ProcState == [pc : ProcSteps, key : Keys \cup {Nil}, val : Values \cup {Nil},
              h : HolderOrNone, todo : SUBSET Holders]
Idle == [pc |-> "idle", key |-> Nil, val |-> Nil, h |-> NoHolder, todo |-> {}]

TypeOK ==
    /\ holders \in [Keys -> HolderOrNone]
    /\ created \in 0 .. MaxHolders
    /\ holder \in [Holders -> HolderState]
    /\ proc \in [Procs -> ProcState]
    /\ writer \in Procs \cup {Nil}
    /\ readers \in SUBSET Procs
    /\ panicked \in BOOLEAN
    /\ ops \in Usages

NewHolder == [wg |-> 1, hasResult |-> FALSE, result |-> Nil]
HolderWith(v) == [wg |-> 0, hasResult |-> TRUE, result |-> v]

CanRead == writer = Nil
CanWrite == writer = Nil /\ readers = {}
Detached(h) == h \in 1 .. created /\ \A k \in Keys : holders[k] # h

Goto(p, pc) == proc' = [proc EXCEPT ![p].pc = pc]

\* A call returns; what it still holds of the lock is released.
Return(p) ==
    /\ proc' = [proc EXCEPT ![p] = Idle]
    /\ writer' = IF writer = p THEN Nil ELSE writer
    /\ readers' = readers \ {p}

-----------------------------------------------------------------------------
(* Get *)

getLook(p, k) ==
    /\ "Get" \in ops /\ proc[p].pc = "idle" /\ CanRead
    /\ proc' = [proc EXCEPT ![p] =
                  [Idle EXCEPT !.pc = IF holders[k] = NoHolder THEN "getCreate" ELSE "getWait",
                               !.key = k, !.h = holders[k]]]
    /\ UNCHANGED <<holders, created, holder, writer, readers, panicked>>

\* Under the write lock the map is looked up once more.
MapWithHolder(k) == IF holders[k] = NoHolder THEN [holders EXCEPT ![k] = created + 1]
                    ELSE holders

getCreate(p) ==
    LET k == proc[p].key
        h == MapWithHolder(k)[k]
    IN  /\ proc[p].pc = "getCreate" /\ CanWrite
        /\ h \in Holders
        /\ holders' = MapWithHolder(k)
        /\ IF h = holders[k] THEN UNCHANGED <<created, holder>>
           ELSE created' = h /\ holder' = [holder EXCEPT ![h] = NewHolder]
        /\ proc' = [proc EXCEPT ![p].pc = "getWait", ![p].h = h]
        /\ UNCHANGED <<writer, readers, panicked>>

\* holder.wg.Wait() returns and the result is read.
getReturn(p) ==
    /\ proc[p].pc = "getWait"
    /\ holder[proc[p].h].wg = 0
    /\ Return(p)
    /\ UNCHANGED <<holders, created, holder, panicked>>

-----------------------------------------------------------------------------
(* Put and PutIfExist *)

\* Put looks the holder up and gives up the read lock before it uses it.
putLook(p, k, v) ==
    /\ "Put" \in ops /\ proc[p].pc = "idle" /\ CanRead
    /\ proc' = [proc EXCEPT ![p] =
                  [Idle EXCEPT !.pc = IF holders[k] = NoHolder THEN "putSlow" ELSE "putResult",
                               !.key = k, !.val = v, !.h = holders[k]]]
    /\ UNCHANGED <<holders, created, holder, writer, readers, panicked>>

\* The slow path under the write lock: the holder that has appeared meanwhile is
\* used with the lock held, or a new one is created with its result.
putSlow(p) ==
    LET k == proc[p].key
    IN  /\ proc[p].pc = "putSlow" /\ CanWrite
        /\ \/ /\ holders[k] # NoHolder
              /\ proc' = [proc EXCEPT ![p].pc = "putResult", ![p].h = holders[k]]
              /\ writer' = p
              /\ UNCHANGED <<holders, created, holder, readers>>
           \/ /\ holders[k] = NoHolder
              /\ created < MaxHolders
              /\ created' = created + 1
              /\ holders' = [holders EXCEPT ![k] = created + 1]
              /\ holder' = [holder EXCEPT ![created + 1] = HolderWith(proc[p].val)]
              /\ Return(p)
        /\ UNCHANGED panicked

\* PutIfExist keeps the read lock while it uses the holder.
putIfExist_Unlocked(p, k, v) ==
    /\ "PutIfExist" \in ops /\ proc[p].pc = "idle" /\ CanRead
    /\ holders[k] # NoHolder
    /\ proc' = [proc EXCEPT ![p] =
                  [Idle EXCEPT !.pc = "putResult", !.key = k, !.val = v, !.h = holders[k]]]
    /\ UNCHANGED <<holders, created, holder, writer, readers, panicked>>
putIfExist(p, k, v) ==
    /\ "PutIfExist" \in ops /\ proc[p].pc = "idle" /\ CanRead
    /\ holders[k] # NoHolder
    /\ proc' = [proc EXCEPT ![p] =
                  [Idle EXCEPT !.pc = "putResult", !.key = k, !.val = v, !.h = holders[k]]]
    /\ readers' = readers \cup {p}
    /\ UNCHANGED <<holders, created, holder, writer, panicked>>

\* blockResultHolder.Put: the result is stored, the flag swapped, wg.Done().
putResult(p) ==
    /\ proc[p].pc = "putResult"
    /\ holder' = [holder EXCEPT ![proc[p].h].result = proc[p].val]
    /\ Goto(p, "putSwap")
    /\ UNCHANGED <<holders, created, writer, readers, panicked>>

putSwap(p) ==
    /\ proc[p].pc = "putSwap"
    /\ \/ /\ holder[proc[p].h].hasResult
          /\ Return(p)
          /\ UNCHANGED holder
       \/ /\ ~holder[proc[p].h].hasResult
          /\ holder' = [holder EXCEPT ![proc[p].h].hasResult = TRUE]
          /\ Goto(p, "putDone")
          /\ UNCHANGED <<writer, readers>>
    /\ UNCHANGED <<holders, created, panicked>>

\* wg.Done() of a counter that is zero panics.
putDone(p) ==
    /\ proc[p].pc = "putDone"
    /\ holder' = [holder EXCEPT ![proc[p].h].wg = @ - 1]
    /\ panicked' = (holder[proc[p].h].wg <= 0)
    /\ Return(p)
    /\ UNCHANGED <<holders, created>>

-----------------------------------------------------------------------------
(* Remove and RemoveAll, with the write lock held to the end *)

remove(p, k) ==
    /\ "Remove" \in ops /\ proc[p].pc = "idle" /\ CanWrite
    /\ holders[k] # NoHolder
    /\ holders' = [holders EXCEPT ![k] = NoHolder]
    /\ proc' = [proc EXCEPT ![p] =
                  [Idle EXCEPT !.pc = "unblock", !.key = k, !.h = holders[k]]]
    /\ writer' = p
    /\ UNCHANGED <<created, holder, readers, panicked>>

removeAll(p) ==
    /\ "RemoveAll" \in ops /\ proc[p].pc = "idle" /\ CanWrite
    /\ \E k \in Keys : holders[k] # NoHolder
    /\ proc' = [proc EXCEPT ![p] =
                  [Idle EXCEPT !.pc = "removeAll",
                               !.todo = {holders[k] : k \in Keys} \ {NoHolder}]]
    /\ writer' = p
    /\ UNCHANGED <<holders, created, holder, readers, panicked>>

\* The loop of RemoveAll: the next holder, in map order, or the new empty map.
removeAllNext(p) ==
    /\ proc[p].pc = "removeAll"
    /\ \/ \E h \in proc[p].todo :
             /\ proc' = [proc EXCEPT ![p].pc = "unblock", ![p].h = h, ![p].todo = @ \ {h}]
             /\ UNCHANGED <<holders, writer, readers>>
       \/ /\ proc[p].todo = {}
          /\ holders' = [k \in Keys |-> NoHolder]
          /\ Return(p)
    /\ UNCHANGED <<created, holder, panicked>>

\* Where Unblock returns to: the loop of RemoveAll, which has no key, or the end
\* of Remove.
AfterUnblock(p) ==
    IF proc[p].key = Nil THEN Goto(p, "removeAll") /\ UNCHANGED <<writer, readers>>
    ELSE Return(p)

\* Unblock tests hasResult and does not set it.
unblock(p) ==
    /\ proc[p].pc = "unblock"
    /\ \/ /\ holder[proc[p].h].hasResult
          /\ AfterUnblock(p)
       \/ /\ ~holder[proc[p].h].hasResult
          /\ Goto(p, "unblockDone")
          /\ UNCHANGED <<writer, readers>>
    /\ UNCHANGED <<holders, created, holder, panicked>>

unblockDone(p) ==
    /\ proc[p].pc = "unblockDone"
    /\ holder' = [holder EXCEPT ![proc[p].h].wg = @ - 1]
    /\ panicked' = (holder[proc[p].h].wg <= 0)
    /\ AfterUnblock(p)
    /\ UNCHANGED <<holders, created>>

-----------------------------------------------------------------------------
Init ==
    /\ holders = [k \in Keys |-> NoHolder]
    /\ created = 0
    /\ holder = [h \in Holders |-> NewHolder]
    /\ proc = [p \in Procs |-> Idle]
    /\ writer = Nil
    /\ readers = {}
    /\ panicked = FALSE
    /\ ops \in Usages

call(p) == \/ \E k \in Keys : getLook(p, k) \/ remove(p, k)
           \/ \E k \in Keys, v \in Values : putLook(p, k, v) \/ putIfExist(p, k, v)
           \/ removeAll(p)

step(p) == \/ getCreate(p) \/ getReturn(p)
           \/ putSlow(p) \/ putResult(p) \/ putSwap(p) \/ putDone(p)
           \/ removeAllNext(p) \/ unblock(p) \/ unblockDone(p)

\* A panic ends the program.
Next == ~panicked /\ UNCHANGED ops /\ \E p \in Procs : call(p) \/ step(p)

Spec == Init /\ [][Next]_vars

\* A call that was made goes on; nobody is obliged to make one.
Fairness == \A p \in Procs : SF_vars(~panicked /\ UNCHANGED ops /\ step(p))
FairSpec == Spec /\ Fairness

-----------------------------------------------------------------------------
(* Properties *)

\* The WaitGroup of a holder is released once: by the Put that swapped the flag or
\* by the removal, never by both.
NoPanic == ~panicked

\* The counter of a holder is 1 until it is released: by the Put that swapped the
\* flag and has called Done, or by a removal.
ReleasedOnce ==
    \A h \in 1 .. created :
        /\ holder[h].hasResult /\ (\A p \in Procs : proc[p].pc = "putDone" => proc[p].h # h)
              => holder[h].wg = 0
        /\ ~holder[h].hasResult /\ ~Detached(h) /\ writer = Nil => holder[h].wg = 1

\* As long as Put is not used together with removals, the WaitGroup of a holder is
\* released once, whoever gets there first.
HoldersReleasedOnce == TypeOK /\ NoPanic /\ ReleasedOnce

\* Get returns a value, unless the holder it waited on was removed, or is being
\* removed by a RemoveAll that holds the lock.
GetReturnsValue ==
    [][\A p \in Procs : (proc[p].pc = "getWait" /\ proc'[p].pc = "idle") =>
          \/ holder[proc[p].h].result # Nil
          \/ Detached(proc[p].h)
          \/ writer # Nil]_vars

\* Nobody stays blocked on a holder that has a result or was removed
\* (block_group.go:155): its waiters all return.
WaitersReleased ==
    \A p \in Procs :
        (proc[p].pc = "getWait" /\ (holder[proc[p].h].hasResult \/ Detached(proc[p].h)))
            ~> proc[p].pc # "getWait"
=============================================================================
