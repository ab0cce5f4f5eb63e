------------------------------- MODULE Strconv --------------------------------
(***************************************************************************)
(* The standard library's strconv (and fmt's %v) as store, bolt and rdb    *)
(* use it.  A text is a record: its form and the number it spells.  An     *)
(* "int" is a numeral as it is written, a "padded" one is another spelling *)
(* that parses too ("05", "+5").  The texts "0" and "1" spell a bool as    *)
(* well.  A numeral out of the range of an integer is a "word": it does    *)
(* not parse.                                                              *)
(***************************************************************************)
EXTENDS Integers

CONSTANT Half       \* half the range of an integer, 2 ^ (w - 1) for a width of w bits: the
                    \* code's int and int64 have 64

ASSUME StrconvAssumption == Half \in Nat \ {0, 1}

Text(form, n) == [form |-> form, n |-> n]
Empty == Text("empty", 0)
Word == Text("word", 0)

\* Go's integers wrap around.
Wrap(n) == ((n + Half) % (2 * Half)) - Half
Ints == -Half .. Half - 1

Ok(v) == [err |-> FALSE, val |-> v]
Fail(v) == [err |-> TRUE, val |-> v]    \* an error comes with the zero value

FormatInt(n) == Text("int", n)
FormatBool(b) == Text("bool", IF b THEN 1 ELSE 0)
ParseInt(t) == IF t.form \in {"int", "padded"} THEN Ok(t.n) ELSE Fail(0)
ParseBool(t) == IF t.form = "bool" \/ (t.form = "int" /\ t.n \in {0, 1}) THEN Ok(t.n = 1) ELSE Fail(FALSE)

\* The value, or the default where there was an error.
OrDefault(r, df) == IF r.err THEN df ELSE r.val
=============================================================================
