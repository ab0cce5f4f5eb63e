---------------------------- MODULE CompareAndSet -----------------------------
(***************************************************************************)
(* rdb/ca.go for one key (or one field of a hash): scripts that compare    *)
(* the value with an expected one and, if they agree (EQ) or differ (NEQ), *)
(* set, delete or increment it.  A script is atomic on the server; its     *)
(* answer is parsed by the client.  A missing key reads as the empty text. *)
(***************************************************************************)
EXTENDS Strconv

CONSTANTS
    CasTexts,   \* values that are expected and set
    CasInts     \* integers that are expected and added

ASSUME CasAssumption ==
    CasInts \subseteq Ints /\ CasTexts \subseteq [form : {"int", "padded", "bool", "word", "empty"}, n : Ints]

VARIABLES
    present, stored,    \* the key: whether it exists and its value
    cas                 \* what the last call returned: op, ok, val, err

casVars == <<present, stored, cas>>

CasTypeOK ==
    /\ present \in BOOLEAN
    /\ stored \in CasTexts \cup {FormatInt(n) : n \in Ints} \cup {Empty}
    /\ ~present => stored = Empty

current == IF present THEN stored ELSE Empty
Matches(op, expect) == IF op \in {"SetNEQ", "DelNEQ", "IncrNEQ"} THEN current # expect ELSE current = expect

CasAnswer(op, ok, val, err) == cas' = [op |-> op, ok |-> ok, val |-> val, err |-> err]
CasUnchanged == UNCHANGED <<present, stored>>

CasSet(op, expect, v) ==
    /\ CasAnswer(op, Matches(op, expect), 0, FALSE)
    /\ IF Matches(op, expect) THEN present' = TRUE /\ stored' = v ELSE CasUnchanged

CasDel(op, expect) ==
    /\ CasAnswer(op, Matches(op, expect), 0, FALSE)
    /\ IF Matches(op, expect) THEN present' = FALSE /\ stored' = Empty ELSE CasUnchanged

\* INCRBY: a missing key counts from 0; a text that is no integer as redis writes it (it
\* does not take "05" for one) and a sum out of range are errors, and the script fails
\* without an effect.
incrFails(n) == (present /\ stored.form # "int") \/ ParseInt(current).val + n \notin Ints
incrBy(n) == present' = TRUE /\ stored' = FormatInt(ParseInt(current).val + n)

\* IncrEQ and IncrNEQ return the old value, which the client parses, compares once more
\* (as a number, where the script has compared the texts) and adds n to: a missing key's
\* empty text does not parse, and the call fails after its effect; "05" is not the text
\* "5", so IncrEQ does nothing, but it is the number 5, so it reports success.
Agrees(op, old, expect) == IF op = "IncrNEQ" THEN old # expect ELSE old = expect
IncrCompared(op, expect, n) ==
    LET old == ParseInt(current)
        does == Matches(op, FormatInt(expect))
    IN  IF does /\ incrFails(n)
        THEN CasAnswer(op, FALSE, 0, TRUE) /\ CasUnchanged
        ELSE /\ IF does THEN incrBy(n) ELSE CasUnchanged
             /\ CasAnswer(op, ~old.err /\ Agrees(op, old.val, expect),
                          IF ~old.err /\ Agrees(op, old.val, expect) THEN Wrap(old.val + n) ELSE old.val, old.err)

SetEQ(e, v) == CasSet("SetEQ", e, v)
SetNEQ(e, v) == CasSet("SetNEQ", e, v)
DelEQ(e) == CasDel("DelEQ", e)
DelNEQ(e) == CasDel("DelNEQ", e)
HSetEQ(e, v) == CasSet("HSetEQ", e, v)
HDelEQ(e) == CasDel("HDelEQ", e)

IncrEQ(e, n) == IncrCompared("IncrEQ", e, n)
IncrNEQ(e, n) == IncrCompared("IncrNEQ", e, n)

\* HIncrEQ only learns whether the script has incremented.
HIncrEQ(expect, n) ==
    LET does == Matches("HIncrEQ", FormatInt(expect))
    IN  IF does /\ incrFails(n)
        THEN CasAnswer("HIncrEQ", FALSE, 0, TRUE) /\ CasUnchanged
        ELSE /\ IF does THEN incrBy(n) ELSE CasUnchanged
             /\ CasAnswer("HIncrEQ", does, IF does THEN expect + n ELSE 0, FALSE)

-----------------------------------------------------------------------------
CasInit == present = FALSE /\ stored = Empty /\ cas = [op |-> "new", ok |-> FALSE, val |-> 0, err |-> FALSE]

CasNext ==
    \/ \E e \in CasTexts \cup {Empty} :
          \/ DelEQ(e) \/ DelNEQ(e) \/ HDelEQ(e)
          \/ \E v \in CasTexts : SetEQ(e, v) \/ SetNEQ(e, v) \/ HSetEQ(e, v)
    \/ \E e \in CasInts, n \in CasInts : IncrEQ(e, n) \/ IncrNEQ(e, n) \/ HIncrEQ(e, n)

CasSpec == CasInit /\ [][CasNext]_casVars

-----------------------------------------------------------------------------
(* Properties *)

increments == {"IncrEQ", "IncrNEQ", "HIncrEQ"}

\* The value an increment reports is the one the key has: parsed from the old value and
\* added to by the client, it agrees with what Redis computed.  The exception is IncrEQ
\* of a numeral in another spelling, where the client takes the key for incremented and
\* the script has not touched it.
ReportedIsStored ==
    (cas.op \in increments /\ cas.ok) =>
        /\ present
        /\ stored = FormatInt(cas.val) \/ (cas.op = "IncrEQ" /\ stored.form = "padded")

\* IncrEQ and IncrNEQ "increment if the value is equal (is not), and return the current
\* value" (ca.go:33, :53): one that increments, and one that says so, returns what the key
\* then holds.  It does not hold: IncrNEQ of a missing key increments and returns an error
\* (ca.go:56), IncrEQ of "05" returns a value that is not stored (ca.go:36).
IncrReturnsCurrent ==
    [][(cas'.op \in {"IncrEQ", "IncrNEQ"} /\ (cas'.ok \/ ~CasUnchanged)) =>
            (cas'.ok /\ present' /\ stored' = FormatInt(cas'.val))]_casVars

\* A call that reports no success has changed nothing, with one exception: IncrNEQ of a
\* missing key increments and then fails to parse the empty text (ca.go:56).
FailureUntouched ==
    [][~cas'.ok => (CasUnchanged \/ (cas'.op = "IncrNEQ" /\ ~present /\ cas'.err))]_casVars

=============================================================================
