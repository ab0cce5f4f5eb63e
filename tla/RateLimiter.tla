----------------------------- MODULE RateLimiter ------------------------------
(***************************************************************************)
(* rdb/limiter.go for one key: IsTooOften and IsTooFrequent with their     *)
(* Redis keys.  The script of IsTooFrequent and each command are atomic on *)
(* the server; a client that gets no answer takes the call as limited,     *)
(* whether the server has seen it or not.  Time passes in half seconds.    *)
(***************************************************************************)
EXTENDS Integers, FiniteSets

CONSTANTS
    Limits,     \* the values of limit
    Expires,    \* the values of expire, in half seconds
    MaxNow,     \* bound: half seconds
    MaxCount,   \* bound: calls counted by a counter
    MaxGrants   \* bound: calls that were let through

ASSUME LimiterAssumption == Limits \subseteq Int /\ Expires \subseteq Nat /\ MaxNow \in Nat /\ MaxCount \in Nat \ {0} /\ MaxGrants \in Nat

Never == MaxNow + 1     \* a key without a TTL

VARIABLES
    clock,
    limiter,    \* which limiter is used, and the arguments of its callers
    often,      \* when the key of IsTooOften expires; 0: there is none
    freq,       \* the counter of IsTooFrequent and when it expires
    grants      \* history: when calls were let through, since the last Del

limiterVars == <<clock, limiter, often, freq, grants>>

Limiters == [kind : {"often", "frequent"}, limit : Limits, expire : Expires]

LimiterTypeOK ==
    /\ clock \in 0 .. MaxNow /\ limiter \in Limiters
    /\ often \in Nat /\ freq.n \in 0 .. MaxCount /\ freq.at \in Nat

Live(at) == at > clock

\* lost: the server has done its part, the answer does not arrive.  (A call that does not
\* reach the server changes nothing and is not let through.)
\* SET NX with the TTL in milliseconds; an expire of 0 sets none.
Grant(ok) == grants' = IF ok THEN grants \cup {<<clock, Cardinality(grants)>>} ELSE grants

setTTL == IF limiter.expire = 0 THEN Never ELSE clock + limiter.expire

IsTooOften(lost) ==
    /\ limiter.kind = "often" /\ Cardinality(grants) < MaxGrants
    /\ often' = IF Live(often) THEN often ELSE setTTL
    /\ Grant(~lost /\ ~Live(often))
    /\ UNCHANGED <<clock, limiter, freq>>

\* EXPIRE takes whole seconds; with 0 it deletes the key.
seconds == (limiter.expire \div 2) * 2

tfIncrScript_NoExpire ==
    IF Live(freq.at) THEN [freq EXCEPT !.n = @ + 1] ELSE [n |-> 1, at |-> Never]
tfIncrScript ==
    IF Live(freq.at) THEN [freq EXCEPT !.n = @ + 1] ELSE [n |-> 1, at |-> clock + seconds]

TooFrequent(v) == v > limiter.limit

IsTooFrequent(lost) ==
    /\ limiter.kind = "frequent" /\ Cardinality(grants) < MaxGrants /\ (Live(freq.at) => freq.n < MaxCount)
    /\ IF limiter.limit <= 0
       THEN UNCHANGED <<freq, grants>>
       ELSE freq' = tfIncrScript /\ Grant(~lost /\ ~TooFrequent(freq'.n))
    /\ UNCHANGED <<clock, limiter, often>>

DelTooOften == often' = 0 /\ grants' = {} /\ UNCHANGED <<clock, limiter, freq>>
DelTooFrequent == freq' = [n |-> 0, at |-> 0] /\ grants' = {} /\ UNCHANGED <<clock, limiter, often>>

Pass == clock < MaxNow /\ clock' = clock + 1 /\ UNCHANGED <<limiter, often, freq, grants>>

-----------------------------------------------------------------------------
LimiterInit ==
    /\ clock = 0 /\ limiter \in Limiters
    /\ often = 0 /\ freq = [n |-> 0, at |-> 0] /\ grants = {}

LimiterNext ==
    \/ \E lost \in BOOLEAN : IsTooOften(lost) \/ IsTooFrequent(lost)
    \/ limiter.kind = "often" /\ DelTooOften
    \/ limiter.kind = "frequent" /\ DelTooFrequent
    \/ Pass

LimiterSpec == LimiterInit /\ [][LimiterNext]_limiterVars

-----------------------------------------------------------------------------
(* Properties *)

\* IsTooOften lets at most one call through in any stretch of time of length expire, and
\* only one at all when expire is 0, also when answers are lost.
OftenSpaced ==
    limiter.kind = "often" =>
        \A g \in grants, h \in grants :
            g[2] < h[2] => (limiter.expire > 0 /\ h[1] - g[1] >= limiter.expire)

\* The calls let through in a stretch of time.
GrantsIn(from, to) == {g \in grants : g[1] >= from /\ g[1] < to}

\* IsTooFrequent lets at most twice the limit through in any stretch of the (whole)
\* seconds of expire, and nothing if the limit is not positive; below a second there is no
\* stretch and no limit.
FrequencyBounded ==
    limiter.kind = "frequent" =>
        IF limiter.limit <= 0 THEN grants = {}
        ELSE \A t \in 0 .. MaxNow : Cardinality(GrantsIn(t, t + seconds)) <= 2 * limiter.limit

\* A counter never outlives its window, so nobody is limited for ever: the reason for the
\* script (limiter.go:52).
CounterExpires == freq.at <= clock + seconds
=============================================================================
