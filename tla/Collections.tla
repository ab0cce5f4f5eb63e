---------------------------- MODULE Collections -----------------------------
(***************************************************************************)
(* Collections that callers share: the results of tasks between            *)
(* goroutines, sets of strings between variables.                          *)
(***************************************************************************)
EXTENDS Integers, FiniteSets

-----------------------------------------------------------------------------
(***************************************************************************)
(* async/result.go and async/task.go: the results of tasks and the         *)
(* collections that gather them.  SyncResultList and SyncResultMap hold a  *)
(* RWMutex during an operation, so its steps are modelled one by one;      *)
(* ResultList and ResultMap have the same operations without the mutex and *)
(* are used by one goroutine.  A list is a map whose keys are 1, 2, ...    *)
(***************************************************************************)

CONSTANTS
    ResultProcs,
    ResultKeys,     \* the keys of a ResultMap
    Nobody,         \* no goroutine holds the lock for writing
    MaxOps          \* bound: operations that write

ASSUME ResultsAssumption == ResultKeys \subseteq Nat /\ Nobody \notin ResultProcs /\ MaxOps \in Nat

VARIABLES
    coll,       \* which collection: its kind and whether it is synchronized
    values,     \* its field values
    wLocked, rLocked,    \* the RWMutex
    user,       \* what each goroutine is doing with the collection
    written,    \* history: operations that write so far
    returned    \* history: the results Del has returned, with the number of times

resultVars == <<coll, values, wLocked, rLocked, user, written, returned>>

-----------------------------------------------------------------------------
(* Results *)

NewResult(v, err) == [value |-> v, err |-> err, canceled |-> FALSE, timeout |-> FALSE]
NewResultWithCtx(ctxErr) ==
    [value |-> "nil", err |-> ctxErr, canceled |-> ctxErr = "canceled", timeout |-> ctxErr = "deadline"]

\* What the tasks of task.go make of a function's return values (a ValTask passes a value
\* and an error on together), and the result of a task whose context is done.
RunFn(fn) ==
    CASE fn = "void" -> NewResult("nil", "")
      [] fn = "err" -> NewResult("nil", "failed")
      [] fn = "val" -> NewResult("int", "")
      [] fn = "valAndErr" -> NewResult("int", "failed")
      [] fn = "ctx" -> NewResultWithCtx("deadline")

TaskFns == {"void", "err", "val", "valAndErr", "ctx"}

\* Bool, Int, Int32, Int64 and String: the error of the typed getter ("" for none), with
\* which the Must getters panic.
Typed(r, type) == IF r.err # "" THEN r.err ELSE IF r.value = type THEN "" ELSE "type cast err"

-----------------------------------------------------------------------------
(* The collections *)

NotUsing == [pc |-> "idle", todo |-> {}, copy |-> <<>>]
Size == Cardinality(DOMAIN values)
StoredAt(vals, key, v) == [k \in DOMAIN vals \cup {key} |-> IF k = key THEN v ELSE vals[k]]

\* One goroutine uses a collection without a mutex.
MayUse(p) == user[p] = NotUsing /\ (coll.sync \/ \A q \in ResultProcs : user[q] = NotUsing)

lock(p) ==
    IF coll.sync THEN wLocked = Nobody /\ rLocked = {} /\ wLocked' = p /\ UNCHANGED rLocked
                 ELSE UNCHANGED <<wLocked, rLocked>>
rLock(p) ==
    IF coll.sync THEN wLocked = Nobody /\ rLocked' = rLocked \cup {p} /\ UNCHANGED wLocked
                 ELSE UNCHANGED <<wLocked, rLocked>>

\* Add(results...) of the n results of a function; an item carries the number of the
\* operation that added it.
Batch(n) == {[op |-> written', i |-> i] : i \in 1 .. n}

ListAdd(p, n, fn) ==
    /\ coll.kind = "list" /\ MayUse(p) /\ written < MaxOps
    /\ lock(p)
    /\ written' = written + 1
    /\ user' = [user EXCEPT ![p] = [pc |-> "add", todo |-> Batch(n), copy |-> RunFn(fn)]]
    /\ UNCHANGED <<coll, values, returned>>

appendOne(p) ==
    /\ user[p].pc = "add"
    /\ \E t \in user[p].todo :
          /\ \A u \in user[p].todo : t.i <= u.i
          /\ values' = StoredAt(values, Size + 1, [op |-> t.op, r |-> user[p].copy])
          /\ user' = [user EXCEPT ![p].todo = @ \ {t}]
    /\ UNCHANGED <<coll, wLocked, rLocked, written, returned>>

MapPut(p, key, fn) ==
    /\ coll.kind = "map" /\ MayUse(p) /\ written < MaxOps
    /\ lock(p)
    /\ written' = written + 1
    /\ values' = StoredAt(values, key, [op |-> written', r |-> RunFn(fn)])
    /\ user' = [user EXCEPT ![p] = [pc |-> "add", todo |-> {}, copy |-> <<>>]]
    /\ UNCHANGED <<coll, returned>>

\* Del looks the key up, then deletes it and returns what it found.
MapDel(p, key) ==
    /\ coll.kind = "map" /\ MayUse(p)
    /\ lock(p)
    /\ user' = [user EXCEPT ![p] = [pc |-> "del", todo |-> {key} \cap DOMAIN values, copy |-> values]]
    /\ UNCHANGED <<coll, values, written, returned>>

deleteOne(p) ==
    /\ user[p].pc = "del"
    /\ \E key \in user[p].todo :
          LET old == user[p].copy[key].op
          IN  /\ values' = [k \in DOMAIN values \ {key} |-> values[k]]
              /\ returned' = [returned EXCEPT ![old] = @ + 1]
    /\ user' = [user EXCEPT ![p].todo = {}]
    /\ UNCHANGED <<coll, wLocked, rLocked, written>>

\* ToSlice and ToMap copy one entry after the other.
ToSlice(p) ==
    /\ MayUse(p)
    /\ rLock(p)
    /\ user' = [user EXCEPT ![p] = [pc |-> "copy", todo |-> DOMAIN values, copy |-> <<>>]]
    /\ UNCHANGED <<coll, values, written, returned>>

copyOne(p) ==
    /\ user[p].pc = "copy"
    /\ \E k \in user[p].todo :
          user' = [user EXCEPT ![p].todo = @ \ {k},
                               ![p].copy = IF k \in DOMAIN values THEN StoredAt(@, k, values[k]) ELSE @]
    /\ UNCHANGED <<coll, values, wLocked, rLocked, written, returned>>

\* The deferred Unlock or RUnlock.
unlock(p) ==
    /\ user[p].pc # "idle" /\ user[p].todo = {}
    /\ user' = [user EXCEPT ![p] = NotUsing]
    /\ wLocked' = IF wLocked = p THEN Nobody ELSE wLocked
    /\ rLocked' = rLocked \ {p}
    /\ UNCHANGED <<coll, values, written, returned>>

-----------------------------------------------------------------------------
ResultInit ==
    /\ coll \in [kind : {"list", "map"}, sync : BOOLEAN]
    /\ values = <<>> /\ wLocked = Nobody /\ rLocked = {}
    /\ user = [p \in ResultProcs |-> NotUsing]
    /\ written = 0 /\ returned = [i \in 1 .. MaxOps |-> 0]

ResultNext ==
    \E p \in ResultProcs :
        \/ \E fn \in TaskFns : (\E n \in 0 .. 2 : ListAdd(p, n, fn)) \/ \E key \in ResultKeys : MapPut(p, key, fn)
        \/ \E key \in ResultKeys : MapDel(p, key)
        \/ ToSlice(p) \/ appendOne(p) \/ deleteOne(p) \/ copyOne(p) \/ unlock(p)

ResultSpec == ResultInit /\ [][ResultNext]_resultVars

-----------------------------------------------------------------------------
(* Properties *)

ResultTypeOK ==
    /\ wLocked \in ResultProcs \cup {Nobody} /\ rLocked \subseteq ResultProcs
    /\ DOMAIN values \subseteq (IF coll.kind = "list" THEN 1 .. 2 * MaxOps ELSE ResultKeys)
    /\ written \in 0 .. MaxOps
    /\ \A p \in ResultProcs : user[p].pc \in {"idle", "add", "del", "copy"}

\* What one Add was given stands together in the list, in order of the Adds: goroutines
\* that add at the same time do not mix.
BatchTogether ==
    coll.kind = "list" =>
        /\ DOMAIN values = 1 .. Size
        /\ \A i \in DOMAIN values, j \in DOMAIN values : i < j => values[i].op <= values[j].op

\* ToSlice and ToMap return the collection as it is at one moment.
CopyIsWhole ==
    \A p \in ResultProcs : (user[p].pc = "copy" /\ user[p].todo = {}) => user[p].copy = values

\* Two goroutines that delete a key never both get its result.
DeletedOnce == \A i \in 1 .. MaxOps : returned[i] <= 1

\* A task that failed, was canceled or timed out gives no typed value, even if its
\* function returned one, and a result gives at most one type.
FailedHasNoValue ==
    \A k \in DOMAIN values :
        LET types == {t \in {"bool", "int", "int32", "int64", "string"} : Typed(values[k].r, t) = ""}
        IN  /\ Cardinality(types) <= 1
            /\ (values[k].r.err # "" \/ values[k].r.canceled \/ values[k].r.timeout) => types = {}

-----------------------------------------------------------------------------
(***************************************************************************)
(* _set/string_set.go (int32_set.go and int64_set.go have the same code):  *)
(* a set is a pointer to a struct that holds a Go map, itself a reference. *)
(* The operations work on their receiver in place and some return it; Pop  *)
(* gives its map away, Intersect and Clear replace theirs, Clone copies.   *)
(* Two variables of the caller, x and y, hold sets, possibly the same one. *)
(***************************************************************************)

CONSTANTS
    Members,        \* the strings
    Maps,           \* the Go maps: enough for every set that is in use
    Sets            \* the structs

Vars == {"x", "y"}

ASSUME SetAssumption == Cardinality(Maps) > Cardinality(Vars) /\ Cardinality(Sets) > Cardinality(Vars)

VARIABLES
    ref,        \* the set each variable of the caller points to
    mapOf,      \* the field m of each struct
    content,    \* the keys of each map
    last        \* history: the receiver of the last operation; if it was a Pop, the
                \* variable its result went to and how many were asked for

setVars == <<ref, mapOf, content, last>>

SetTypeOK ==
    /\ ref \in [Vars -> Sets]
    /\ DOMAIN mapOf = {ref[v] : v \in Vars} /\ \A s \in DOMAIN mapOf : mapOf[s] \in DOMAIN content
    /\ DOMAIN content \subseteq Maps /\ \A g \in DOMAIN content : content[g] \subseteq Members

Of(v) == content[mapOf[ref[v]]]

\* A struct and a map that are not in use.
freeSet == CHOOSE s \in Sets : s \notin DOMAIN mapOf
freeMap == CHOOSE g \in Maps : g \notin DOMAIN content

\* The variables, the structs and the maps after a step: what nobody refers to is gone.
Becomes(r, f, c) ==
    /\ ref' = r
    /\ mapOf' = [s \in {r[v] : v \in Vars} |-> f[s]]
    /\ content' = [g \in {f[r[v]] : v \in Vars} |-> c[g]]

\* f with y for x.
Updated(f, x, y) == [z \in DOMAIN f \cup {x} |-> IF z = x THEN y ELSE f[z]]

\* The receiver gets the members H in its own map or in a new one; variable v gets a new
\* set with the members S.
InPlace(h, H) == Becomes(ref, mapOf, Updated(content, mapOf[ref[h]], H))
NewMap(h, H) == Becomes(ref, Updated(mapOf, ref[h], freeMap), Updated(content, freeMap, H))
NewSet(v, S) == Becomes(Updated(ref, v, freeSet), Updated(mapOf, freeSet, freeMap), Updated(content, freeMap, S))

On(h) == last' = [h |-> h, popped |-> h, n |-> 0]

-----------------------------------------------------------------------------
NewStringSet(v, S) == NewSet(v, S) /\ On(v)
Assign(v, h) == Becomes(Updated(ref, v, ref[h]), mapOf, content) /\ On(h)

Add(h, i) == InPlace(h, Of(h) \cup {i}) /\ On(h)
SetRemove(h, i) == InPlace(h, Of(h) \ {i}) /\ On(h)
SetClear(h) == NewMap(h, {}) /\ On(h)

Clone_Shares(v, h) ==
    Becomes(Updated(ref, v, freeSet), Updated(mapOf, freeSet, mapOf[ref[h]]), content) /\ On(h)
Clone(v, h) == NewSet(v, Of(h)) /\ On(h)

\* v = h.Pop(n).  When everything is popped the map itself is handed over.
PopAll(v, h) ==
    Becomes(Updated(ref, v, freeSet),
            Updated(Updated(mapOf, ref[h], freeMap), freeSet, mapOf[ref[h]]),
            Updated(content, freeMap, {}))

PopSome(v, h, n) == \E S \in SUBSET Of(h) :
    /\ Cardinality(S) = n
    /\ Becomes(Updated(ref, v, freeSet),
               Updated(mapOf, freeSet, freeMap),
               Updated(Updated(content, mapOf[ref[h]], Of(h) \ S), freeMap, S))

Pop(v, h, n) ==
    /\ \/ n < 1 /\ NewSet(v, {})
       \/ n >= 1 /\ Cardinality(Of(h)) <= n /\ PopAll(v, h)
       \/ n >= 1 /\ Cardinality(Of(h)) > n /\ PopSome(v, h, n)
    /\ last' = [h |-> h, popped |-> v, n |-> n]

\* These three return their receiver; h and o may be the same set.
Union(h, o) == InPlace(h, Of(h) \cup Of(o)) /\ On(h)
Diff(h, o) == InPlace(h, Of(h) \ Of(o)) /\ On(h)
Intersect(h, o) == NewMap(h, Of(h) \cap Of(o)) /\ On(h)
NewDiff(v, h, o) == NewSet(v, Of(h) \ Of(o)) /\ On(h)

\* Equal compares the sizes, then looks the members of one up in the other.
Equal(h, o) == Cardinality(Of(h)) = Cardinality(Of(o)) /\ \A i \in Of(h) : i \in Of(o)
ContainsSet(h, o) == Of(o) = {} \/ \A i \in Of(o) : i \in Of(h)

-----------------------------------------------------------------------------
SetInit ==
    \E s \in Sets, g \in Maps :
        /\ ref = [v \in Vars |-> s] /\ mapOf = [t \in {s} |-> g] /\ content = [x \in {g} |-> {}]
        /\ last = [h |-> "x", popped |-> "x", n |-> 0]

SetNext ==
    \E h \in Vars, o \in Vars :
        \/ \E i \in Members : Add(h, i) \/ SetRemove(h, i) \/ NewStringSet(h, {i})
        \/ \E n \in 0 .. Cardinality(Members) : Pop(o, h, n)
        \/ SetClear(h) \/ Assign(o, h) \/ Clone(o, h)
        \/ Union(h, o) \/ Diff(h, o) \/ Intersect(h, o)
        \/ \E v \in Vars : NewDiff(v, h, o)

SetSpec == SetInit /\ [][SetNext]_setVars

-----------------------------------------------------------------------------
(* Properties *)

\* An operation changes the members of its receiver only: no other set the caller holds,
\* however it was made from the receiver, shares a map with it.
OnlyReceiverChanges ==
    [][\A v \in Vars :
          (ref'[v] = ref[v] /\ ref[v] # ref[last'.h]) => content'[mapOf'[ref[v]]] = Of(v)]_setVars

\* Pop splits its receiver: what it returns and what is left are disjoint and make up
\* what was there, and it returns n members or as many as there were.
PopSplits ==
    [][last'.popped # last'.h =>
          LET popped == content'[mapOf'[ref'[last'.popped]]]
              left == content'[mapOf'[ref'[last'.h]]]
              was == Of(last'.h)
          IN  /\ popped \cup left = was /\ popped \cap left = {}
              /\ Cardinality(popped) = IF Cardinality(was) < last'.n THEN Cardinality(was) ELSE last'.n]_setVars

\* Equal and ContainsSet agree with the members, whichever way the question is put.
EqualIsEqual ==
    /\ Equal("x", "y") = (Of("x") = Of("y")) /\ Equal("x", "y") = Equal("y", "x")
    /\ (ContainsSet("x", "y") /\ ContainsSet("y", "x")) = Equal("x", "y")
=============================================================================
