------------------------------- MODULE Stores -------------------------------
(***************************************************************************)
(* The stores of values by key, with getters that convert: a bucket of a   *)
(* database and a map in memory.                                           *)
(***************************************************************************)
EXTENDS Strconv, FiniteSets

-----------------------------------------------------------------------------
(***************************************************************************)
(* bolt/repo.go and bolt/util.go: a bucket of a bbolt database.  Every     *)
(* operation is one transaction: bbolt runs the read-write ones one at a   *)
(* time, rolls back when the function returns an error or panics, and may  *)
(* fail to commit.  Keys are numbered in byte order; a prefix is the set   *)
(* of keys that start with it.                                             *)
(***************************************************************************)

CONSTANTS
    NumBoltKeys, BoltPrefixes,
    BoltInts,       \* the integers written and added
    MaxId           \* bound: ids taken from a bucket

BoltKeys == 1 .. NumBoltKeys

ASSUME BoltAssumption ==
    /\ NumBoltKeys \in Nat /\ BoltInts \subseteq Ints /\ MaxId \in Nat
    /\ \A P \in BoltPrefixes : P \subseteq BoltKeys
          /\ \A k \in P, l \in P, j \in BoltKeys : (k < j /\ j < l) => j \in P

VARIABLES
    exists,     \* whether the bucket is in the database
    bucket,     \* its records: a function of some of the keys
    sequence,   \* its sequence
    reply,      \* what the last operation returned
    issued      \* history: the ids NextId has returned since the bucket was created

boltVars == <<exists, bucket, sequence, reply, issued>>

BoltTexts == {FormatInt(n) : n \in Ints} \cup {FormatBool(b) : b \in BOOLEAN} \cup {Word, Empty}

BoltTypeOK ==
    /\ exists \in BOOLEAN
    /\ DOMAIN bucket \subseteq BoltKeys
    /\ \A k \in DOMAIN bucket : bucket[k] \in BoltTexts
    /\ ~exists => DOMAIN bucket = {} /\ sequence = 0
    /\ sequence \in 0 .. MaxId /\ issued \subseteq 1 .. MaxId

Without(b, K) == [k \in DOMAIN b \ K |-> b[k]]
With(b, key, v) == [k \in DOMAIN b \cup {key} |-> IF k = key THEN v ELSE b[k]]

Over(put, b) == [k \in DOMAIN put \cup DOMAIN b |-> IF k \in DOMAIN put THEN put[k] ELSE b[k]]

Answer(op, key, ret) == reply' = [op |-> op, key |-> key, ret |-> ret]

\* A transaction that ends with an error, of its own or of the commit, or with the panic
\* of a method of a nil *bolt.Bucket, is rolled back.
RolledBack(op, key) == Answer(op, key, Fail(0)) /\ UNCHANGED <<exists, bucket, sequence, issued>>

Update(op, key, b, ret) ==
    \/ exists /\ bucket' = b /\ Answer(op, key, ret) /\ UNCHANGED <<exists, sequence, issued>>
    \/ RolledBack(op, key)

-----------------------------------------------------------------------------
(* Reads *)

Has(key) == key \in DOMAIN bucket
GetString(key) == IF Has(key) THEN bucket[key] ELSE Empty
GetInt(key) == ParseInt(GetString(key))
GetBool(key) == ParseBool(GetString(key))
GetIntOrDefault(key, df) == OrDefault(GetInt(key), df)
GetBoolOrDefault(key, df) == OrDefault(GetBool(key), df)
KeySize == Cardinality(DOMAIN bucket)

\* A read transaction: it panics without a bucket.
View(key) ==
    /\ Answer("View", key, IF exists THEN GetInt(key) ELSE Fail(0))
    /\ UNCHANGED <<exists, bucket, sequence, issued>>

\* The keys a cursor that iterates over the keys with prefix P has passed when it stops at key c.
iterateCursor(P, c) == {k \in DOMAIN bucket \cap P : k < c}

-----------------------------------------------------------------------------
(* Writes *)

BoltDel(key) == Update("Del", key, Without(bucket, {key}), Ok(0))

BoltPut(key) == \E t \in {Word, Empty} : Update("Put", key, With(bucket, key, t), Ok(0))
PutBool(key, v) == Update("PutBool", key, With(bucket, key, FormatBool(v)), Ok(IF v THEN 1 ELSE 0))
PutInt(key, v) == Update("PutInt", key, With(bucket, key, FormatInt(v)), Ok(v))

\* Concurrent BatchPuts: bbolt gathers them into one transaction, which is committed or,
\* when a call of it fails, rolled back and tried again without that call.
BatchPut(K) == \E put \in [K -> {Word, Empty}] : Update("BatchPut", 0, Over(put, bucket), Ok(0))

\* A value that is not an integer makes Incr fail; the sum wraps around.
Incr(key, n) ==
    LET sum == Wrap(n + GetInt(key).val)
    IN  IF Has(key) /\ GetInt(key).err
        THEN RolledBack("Incr", key)
        ELSE Update("Incr", key, With(bucket, key, FormatInt(sum)), Ok(sum))

\* DelEach deletes the records its function accepts and stops at the first it does not:
\* at key c, with an error or without one.
DelEach_KeptOnError(P, c, err) ==
    /\ bucket' = Without(bucket, iterateCursor(P, c))
    /\ Answer("DelEach", c, IF err THEN Fail(0) ELSE Ok(0))
    /\ UNCHANGED <<exists, sequence, issued>>
DelEach(P, c, err) ==
    IF err
    THEN c \in DOMAIN bucket \cap P /\ RolledBack("DelEach", c)
    ELSE Update("DelEach", c, Without(bucket, iterateCursor(P, c)), Ok(0))

NextId ==
    \/ /\ exists /\ sequence < MaxId
       /\ sequence' = sequence + 1
       /\ issued' = issued \cup {sequence'} /\ Answer("NextId", 0, Ok(sequence'))
       /\ UNCHANGED <<exists, bucket>>
    \/ RolledBack("NextId", 0)

DelBucket ==
    \/ /\ exists
       /\ exists' = FALSE /\ bucket' = <<>> /\ sequence' = 0 /\ issued' = {}
       /\ Answer("DelBucket", 0, Ok(0))
    \/ RolledBack("DelBucket", 0)

CreateBucketIfNotExists ==
    \/ exists' = TRUE /\ Answer("Create", 0, Ok(0)) /\ UNCHANGED <<bucket, sequence, issued>>
    \/ RolledBack("Create", 0)

\* A missing bucket is an error of DeleteBucket, and nothing is created.
RecreateBucket ==
    \/ /\ exists
       /\ bucket' = <<>> /\ sequence' = 0 /\ issued' = {}
       /\ Answer("Recreate", 0, Ok(0))
       /\ UNCHANGED exists
    \/ RolledBack("Recreate", 0)

-----------------------------------------------------------------------------
\* NewRepository has created the bucket.
BoltInit ==
    /\ exists = TRUE /\ bucket = <<>> /\ sequence = 0 /\ issued = {}
    /\ reply = [op |-> "Create", key |-> 0, ret |-> Ok(0)]

BoltNext ==
    \/ \E key \in BoltKeys :
          \/ View(key) \/ BoltDel(key) \/ BoltPut(key)
          \/ \E v \in BOOLEAN : PutBool(key, v)
          \/ \E n \in BoltInts : PutInt(key, n) \/ Incr(key, n)
    \/ \E K \in SUBSET BoltKeys \ {{}} : BatchPut(K)
    \/ \E P \in BoltPrefixes, c \in 1 .. NumBoltKeys + 1, err \in BOOLEAN : DelEach(P, c, err)
    \/ NextId \/ DelBucket \/ CreateBucketIfNotExists \/ RecreateBucket

BoltSpec == BoltInit /\ [][BoltNext]_boltVars

-----------------------------------------------------------------------------
(* Properties *)

\* An operation that reports an error (or panics) has changed nothing, whatever it had
\* already done in its transaction: the deletions of DelEach included.
FailureChangesNothing == [][reply'.ret.err => UNCHANGED <<exists, bucket, sequence>>]_boltVars

\* What PutInt, PutBool and Incr report as written is what the typed getters parse from
\* the bucket afterwards, whichever default they were given, also where Incr wraps around.
WrittenIsRead ==
    ~reply.ret.err =>
        /\ reply.op \in {"PutInt", "Incr"} =>
              \A df \in BoltInts : GetIntOrDefault(reply.key, df) = reply.ret.val
        /\ reply.op = "PutBool" => GetBoolOrDefault(reply.key, reply.ret.val = 0) = (reply.ret.val = 1)

\* NextId does not return an id twice in the life of a bucket, although a transaction
\* that was rolled back has taken one and records come and go.
IdsFresh == [][(reply'.op = "NextId" /\ ~reply'.ret.err) => reply'.ret.val \notin issued]_boltVars

-----------------------------------------------------------------------------
(***************************************************************************)
(* store/store.go: a map guarded by a RWMutex whose values have any type.  *)
(* Every operation holds the lock from its first to its last access of the *)
(* map (HasKey and GetVal through Get), so each is one step.  The typed    *)
(* getters convert what they find.  A value carries the number of the Put  *)
(* that stored it, so that what Put and Remove hand back can be told apart. *)
(***************************************************************************)

CONSTANTS
    StoreKeys,
    StoreValues,    \* what is put: records of a type, a number and (strings) a text
    MaxPuts         \* bound: calls of Put

StoreTypes == {"string", "bool", "int", "int8", "int64", "float"}

ASSUME StoreAssumption ==
    /\ \A v \in StoreValues : v.type \in StoreTypes /\ (v.type = "bool" => v.n \in {0, 1})
    /\ MaxPuts \in Nat

VARIABLES
    m,          \* s.m: an item for some of the keys
    puts,       \* history: the number of Puts so far
    handed,     \* history: how often each item was handed back by Put or Remove
    cleared     \* history: the items a Clear has dropped

storeVars == <<m, puts, handed, cleared>>

Items == {[id |-> i, v |-> v] : i \in 1 .. MaxPuts, v \in StoreValues}

StoreTypeOK ==
    /\ DOMAIN m \subseteq StoreKeys /\ \A k \in DOMAIN m : m[k] \in Items /\ m[k].id <= puts
    /\ puts \in 0 .. MaxPuts
    /\ DOMAIN handed = 1 .. MaxPuts /\ \A i \in 1 .. MaxPuts : handed[i] \in Nat
    /\ cleared \subseteq 1 .. MaxPuts

HandBack(key) ==
    handed' = IF key \in DOMAIN m THEN [handed EXCEPT ![m[key].id] = @ + 1] ELSE handed

StorePut(key, v) ==
    /\ puts < MaxPuts /\ puts' = puts + 1
    /\ m' = [k \in DOMAIN m \cup {key} |-> IF k = key THEN [id |-> puts', v |-> v] ELSE m[k]]
    /\ HandBack(key)
    /\ UNCHANGED cleared

StoreRemove(key) ==
    /\ m' = [k \in DOMAIN m \ {key} |-> m[k]]
    /\ HandBack(key)
    /\ UNCHANGED <<puts, cleared>>

Clear ==
    /\ m' = <<>>
    /\ cleared' = cleared \cup {m[k].id : k \in DOMAIN m}
    /\ UNCHANGED <<puts, handed>>

-----------------------------------------------------------------------------
(* The typed getters: what they return for the value v of a key (without one:    *)
(* ErrKeyNotExist and the zero value).                                             *)

\* fmt's %v of the value.
AsText(v) ==
    CASE v.type = "string" -> v.text
      [] v.type = "bool" -> FormatBool(v.n = 1)
      [] v.type = "float" -> Word
      [] OTHER -> FormatInt(v.n)

StoreGetBool(v) ==
    CASE v.type = "bool" -> Ok(v.n = 1)
      [] v.type = "string" -> ParseBool(v.text)
      [] OTHER -> Fail(FALSE)

StoreGetInt(v) ==
    CASE v.type = "string" -> ParseInt(v.text)
      [] v.type \in {"int", "int8", "int64"} -> Ok(v.n)
      [] OTHER -> Fail(0)

\* A default stands in for a missing key and for a value of another type.
StoreGetIntOrDefault(key, df) == IF key \in DOMAIN m THEN OrDefault(StoreGetInt(m[key].v), df) ELSE df
StoreGetBoolOrDefault(key, df) == IF key \in DOMAIN m THEN OrDefault(StoreGetBool(m[key].v), df) ELSE df

-----------------------------------------------------------------------------
StoreInit == m = <<>> /\ puts = 0 /\ handed = [i \in 1 .. MaxPuts |-> 0] /\ cleared = {}

StoreNext ==
    \/ \E key \in StoreKeys : StoreRemove(key) \/ \E v \in StoreValues : StorePut(key, v)
    \/ Clear

StoreSpec == StoreInit /\ [][StoreNext]_storeVars

-----------------------------------------------------------------------------
(* Properties *)

\* What was put is never lost and never handed out twice: it is in the store, or exactly
\* one Put or Remove has returned it, or a Clear has dropped it.
HandedBackOnce ==
    \A i \in 1 .. puts :
        (IF \E k \in DOMAIN m : m[k].id = i THEN 1 ELSE 0) + handed[i] + (IF i \in cleared THEN 1 ELSE 0) = 1

\* A store refilled with the texts GetString returns answers every typed getter that
\* succeeded before with the same value (it may answer more), and a getter with a
\* default gave the text's value or the default.
TextKeepsAnswers ==
    \A k \in DOMAIN m :
        LET v == m[k].v
            t == [type |-> "string", n |-> 0, text |-> AsText(v)]
        IN  /\ \A df \in {0, 1} : StoreGetIntOrDefault(k, df) \in {StoreGetInt(t).val, df}
            /\ ~StoreGetInt(v).err => StoreGetInt(t) = StoreGetInt(v)
            /\ \A df \in BOOLEAN : StoreGetBoolOrDefault(k, df) \in {StoreGetBool(t).val, df}
            /\ ~StoreGetBool(v).err => StoreGetBool(t) = StoreGetBool(v)
=============================================================================
