----------------------------- MODULE PartsProofs ------------------------------
(***************************************************************************)
(* The parts that MCParts checks side by side, each for any number of      *)
(* callers, keys and requests: Blocker, PeriodBarrier, RateLimiter and     *)
(* RetryCounter, the State and the tokens of rpc, the session of http, the *)
(* cron scheduler, the collections, the stores and the path of errors.     *)
(* The last section takes their invariants over to PartsSpec, whose        *)
(* properties join several parts.                                          *)
(***************************************************************************)
EXTENDS MCParts, FiniteSetTheorems, SequenceTheorems, WellFoundedInduction, TLAPS

-----------------------------------------------------------------------------
(* Blocker: hasValue and the WaitGroup stay in step, nobody waits while     *)
(* there is a value, and whoever was let through finds one unless a Remove  *)
(* has overtaken it.                                                        *)

BlockerInv ==
    /\ BlockerTypeOK /\ BlocksIffEmpty /\ NobodyLeftWaiting
    /\ \A p \in BlockerProcs : (getter[p] \in {"woken", "read"} /\ ~hasValue) => p \in undone

LEMMA BlockerStarts == BlockerInit => BlockerInv
<1> SUFFICES ASSUME BlockerInit PROVE BlockerInv
    OBVIOUS
<1>1. hasValue \in BOOLEAN /\ \A p \in BlockerProcs : getter[p] = "idle"
  BY DEF BlockerInit
<1>2. BlocksIffEmpty /\ blockerWg \in Nat /\ val \in BlockerValues \cup {NilValue}
  BY DEF BlockerInit, BlocksIffEmpty
<1>. QED  BY <1>1, <1>2 DEF BlockerInit, BlockerInv, BlockerTypeOK, NobodyLeftWaiting

LEMMA BlockerPreserves == BlockerInv /\ [BlockerNext]_blockerVars => BlockerInv'
<1> SUFFICES ASSUME BlockerInv, [BlockerNext]_blockerVars PROVE BlockerInv'
    OBVIOUS
<1> USE DEF BlockerInv, BlockerTypeOK, BlocksIffEmpty, NobodyLeftWaiting
<1>1. ASSUME NEW v \in BlockerValues, BlockerPut(v) PROVE BlockerInv'
  <2>1. val' \in BlockerValues /\ hasValue' /\ hasValue' \in BOOLEAN /\ got' = got /\ undone' = undone
    BY <1>1, Zenon DEF BlockerPut
  <2>2. blockerWg' = 0
    BY <1>1 DEF BlockerPut
  <2>3. getter' = [p \in BlockerProcs |-> IF getter[p] = "wait" THEN "woken" ELSE getter[p]]
    BY <1>1, <2>2 DEF BlockerPut
  <2>. QED  BY <2>1, <2>2, <2>3
<1>2. CASE BlockerRemove
  <2>1. val' = NilValue /\ hasValue' = FALSE /\ blockerWg' = 1 /\ getter' = getter /\ got' = got
    BY <1>2 DEF BlockerRemove
  <2>2. hasValue' \in BOOLEAN /\ ~hasValue'
    BY <2>1, Zenon
  <2>3. undone' = {p \in BlockerProcs : getter[p] \in {"woken", "read"}}
    BY <1>2 DEF BlockerRemove
  <2>. QED  BY <2>1, <2>2, <2>3
<1>3. ASSUME NEW p \in BlockerProcs, BlockerGet(p) PROVE BlockerInv'
  BY <1>3 DEF BlockerGet
<1>4. ASSUME NEW p \in BlockerProcs, getWaited(p) PROVE BlockerInv'
  BY <1>4 DEF getWaited
<1>5. ASSUME NEW p \in BlockerProcs, getRead(p) PROVE BlockerInv'
  BY <1>5 DEF getRead
<1>6. CASE UNCHANGED blockerVars
  BY <1>6 DEF blockerVars
<1>. QED  BY <1>1, <1>2, <1>3, <1>4, <1>5, <1>6 DEF BlockerNext

LEMMA BlockerSees ==
    BlockerInv /\ [BlockerNext]_blockerVars =>
        \A p \in BlockerProcs :
            /\ getter[p] = "read" /\ getter'[p] = "idle" => got'[p] = val /\ (hasValue \/ p \in undone)
            /\ getter[p] = "woken" /\ getter'[p] = "panicked" => p \in undone
<1> SUFFICES ASSUME BlockerInv, [BlockerNext]_blockerVars, NEW p \in BlockerProcs
             PROVE  /\ getter[p] = "read" /\ getter'[p] = "idle" => got'[p] = val /\ (hasValue \/ p \in undone)
                    /\ getter[p] = "woken" /\ getter'[p] = "panicked" => p \in undone
    OBVIOUS
<1> USE DEF BlockerInv, BlockerTypeOK
<1>1. ASSUME getter[p] = "read", getter'[p] = "idle" PROVE got'[p] = val /\ (hasValue \/ p \in undone)
  <2>1. PICK q \in BlockerProcs : BlockerGet(q) \/ getWaited(q) \/ getRead(q)
    BY <1>1 DEF BlockerNext, blockerVars, BlockerPut, BlockerRemove
  <2>2. getRead(p)
    BY <1>1, <2>1 DEF BlockerGet, getWaited, getRead
  <2>. QED  BY <1>1, <2>2 DEF getRead
<1>2. ASSUME getter[p] = "woken", getter'[p] = "panicked" PROVE p \in undone
  <2>1. PICK q \in BlockerProcs : BlockerGet(q) \/ getWaited(q) \/ getRead(q)
    BY <1>2 DEF BlockerNext, blockerVars, BlockerPut, BlockerRemove
  <2>2. getWaited(p) /\ blockerWg # 0
    BY <1>2, <2>1 DEF BlockerGet, getWaited, getRead
  <2>. QED  BY <1>2, <2>2 DEF BlocksIffEmpty
<1>. QED  BY <1>1, <1>2

\* Blocker.Get (blocker.go) waits exactly until something is put and returns it, unless a
\* Remove comes between, for any goroutines and any values, nil too.
THEOREM GetBlocksUntilValue == BlockerSpec => BlocksUntilValue
<1>1. BlockerInv => BlockerTypeOK /\ BlocksIffEmpty /\ NobodyLeftWaiting
  BY DEF BlockerInv
<1>. QED  BY <1>1, BlockerStarts, BlockerPreserves, BlockerSees, PTL DEF BlockerSpec, BlocksUntilValue, GetSeesValue

-----------------------------------------------------------------------------
(* PeriodBarrier: a caller that passed the age test read a time that was    *)
(* old then and can only have been replaced by a newer one since.           *)

BarrierInv ==
    /\ BarrierTypeOK
    /\ isInvoking <=> \E p \in BarrierProcs : Invoking(p)
    /\ \A p, q \in BarrierProcs : Invoking(p) /\ Invoking(q) => p = q
    /\ lastInvokeTime <= now
    /\ \A p \in BarrierProcs : bpc[p] = "swap" => readLast[p] <= lastInvokeTime /\ now - readLast[p] >= BarrierPeriod
    /\ EarlyOnlyIfStale
LEMMA BarrierStarts == BarrierInit => BarrierInv
<1> SUFFICES ASSUME BarrierInit PROVE BarrierInv
    OBVIOUS
<1>1. -BarrierPeriod \in Times /\ 0 \in Times
  BY BarrierAssumption DEF Times
<1>2. BarrierTypeOK
  <2>1. begun \in [BarrierProcs -> [at : Times, last : Times]]
    BY <1>1 DEF BarrierInit
  <2>2. now \in 0 .. MaxTime
    BY BarrierAssumption DEF BarrierInit
  <2>5. isInvoking \in BOOLEAN
    BY Zenon DEF BarrierInit
  <2>3. readLast \in [BarrierProcs -> Times] /\ lastInvokeTime \in Times
    BY <1>1 DEF BarrierInit
  <2>4. bpc \in [BarrierProcs -> {"idle", "swap", "fn", "set", "clear"}]
    BY DEF BarrierInit
  <2>. QED  BY <2>1, <2>2, <2>3, <2>4, <2>5 DEF BarrierTypeOK
<1>3. \A p \in BarrierProcs : ~Invoking(p) /\ bpc[p] # "swap"
  BY DEF BarrierInit, Invoking
<1>. QED  BY <1>2, <1>3, BarrierAssumption DEF BarrierInit, BarrierInv, EarlyOnlyIfStale, Early

LEMMA BarrierPreserves == BarrierInv /\ [BarrierNext]_barrierVars => BarrierInv'
<1> SUFFICES ASSUME BarrierInv, [BarrierNext]_barrierVars PROVE BarrierInv'
    OBVIOUS
<1> USE BarrierAssumption DEF BarrierInv, BarrierTypeOK, Invoking, EarlyOnlyIfStale, Early, Times, BarrierGoes
<1>0. CASE Tick
  BY <1>0 DEF Tick
<1>1. ASSUME NEW p \in BarrierProcs, allowInvoke(p) PROVE BarrierInv'
  BY <1>1 DEF allowInvoke
<1>2. ASSUME NEW p \in BarrierProcs, swapInvoking(p) PROVE BarrierInv'
  <2>1. CASE isInvoking
    BY <1>2, <2>1 DEF swapInvoking
  <2>2. CASE ~isInvoking
    BY <1>2, <2>2 DEF swapInvoking
  <2>. QED  BY <2>1, <2>2
<1>3. ASSUME NEW p \in BarrierProcs, fnReturns(p) PROVE BarrierInv'
  BY <1>3 DEF fnReturns
<1>4. ASSUME NEW p \in BarrierProcs, setTime(p) PROVE BarrierInv'
  BY <1>4 DEF setTime
<1>5. ASSUME NEW p \in BarrierProcs, clearInvoking(p) PROVE BarrierInv'
  BY <1>5 DEF clearInvoking
<1>6. CASE UNCHANGED barrierVars
  BY <1>6 DEF barrierVars
<1>. QED  BY <1>0, <1>1, <1>2, <1>3, <1>4, <1>5, <1>6 DEF BarrierNext

LEMMA AtMostOne == ASSUME NEW S, \A p, q \in S : p = q PROVE IsFiniteSet(S) /\ Cardinality(S) <= 1
<1>1. CASE S = {}
  <2>1. IsFiniteSet(S) /\ Cardinality(S) = 0
    BY <1>1, FS_EmptySet
  <2>. QED  BY <2>1
<1>2. CASE S # {}
  <2>1. PICK p \in S : TRUE
    BY <1>2
  <2>2. S = {p}
    BY <2>1
  <2>3. IsFiniteSet(S) /\ Cardinality(S) = 1
    BY <2>2, FS_Singleton
  <2>. QED  BY <2>3
<1>. QED  BY <1>1, <1>2

LEMMA BarrierMeans == BarrierInv => BarrierTypeOK /\ InvokesOneAtATime /\ EarlyOnlyIfStale
<1> SUFFICES ASSUME BarrierInv PROVE InvokesOneAtATime
  BY DEF BarrierInv
<1>1. \A p, q \in {r \in BarrierProcs : Invoking(r)} : p = q
  BY DEF BarrierInv
<1>2. Cardinality({r \in BarrierProcs : Invoking(r)}) <= 1
  BY <1>1, AtMostOne
<1>. QED  BY <1>2 DEF BarrierInv, InvokesOneAtATime

\* PeriodBarrier (barrier.go): invocations exclude one another, and one comes early only
\* after a stale read of the time, for any number of callers and any period.
THEOREM BarrierKeepsPeriod == BarrierSpec => [](BarrierTypeOK /\ InvokesOneAtATime /\ EarlyOnlyIfStale)
BY BarrierStarts, BarrierPreserves, BarrierMeans, PTL DEF BarrierSpec

-----------------------------------------------------------------------------
(* RateLimiter: a stretch of the seconds of expire meets at most two        *)
(* windows of the counter, and each lets at most the limit through.         *)

\* Grants are numbered in their order and none is of the future.
GrantsInv ==
    /\ IsFiniteSet(grants)
    /\ \A g \in grants : g = <<g[1], g[2]>> /\ g[1] \in 0 .. clock /\ g[2] \in 0 .. Cardinality(grants) - 1

\* The key outlives the spacing of every call that was let through.
OftenInv ==
    limiter.kind = "often" =>
        /\ OftenSpaced
        /\ \A g \in grants : often >= IF limiter.expire = 0 THEN Never ELSE g[1] + limiter.expire

\* What was let through in the window of the counter, and in the seconds before it.
Recent == {g \in grants : g[1] >= freq.at - seconds}
Previous == {g \in grants : g[1] > freq.at - 2 * seconds /\ g[1] < freq.at - seconds}

WindowInv ==
    limiter.kind = "frequent" /\ seconds > 0 /\ limiter.limit > 0 =>
        /\ \A g \in grants : g[1] < freq.at
        /\ Cardinality(Recent) <= freq.n /\ Cardinality(Recent) <= limiter.limit
        /\ Cardinality(Previous) <= limiter.limit

LimiterInv ==
    /\ LimiterTypeOK /\ freq = [n |-> freq.n, at |-> freq.at]
    /\ GrantsInv /\ OftenInv /\ WindowInv /\ FrequencyBounded /\ CounterExpires

LEMMA LimiterFacts ==
    ASSUME LimiterTypeOK
    PROVE  /\ clock \in Nat /\ clock <= MaxNow /\ MaxNow \in Nat /\ often \in Nat /\ freq.n \in Nat /\ freq.at \in Nat
           /\ limiter.limit \in Int /\ limiter.expire \in Nat /\ seconds \in Nat /\ limiter.kind \in {"often", "frequent"}
<1>1. /\ clock \in Nat /\ clock <= MaxNow /\ MaxNow \in Nat /\ often \in Nat /\ freq.n \in Nat /\ freq.at \in Nat
      /\ limiter.limit \in Int /\ limiter.expire \in Nat /\ limiter.kind \in {"often", "frequent"}
  <2>1. clock \in Nat /\ clock <= MaxNow /\ MaxNow \in Nat /\ often \in Nat /\ freq.n \in Nat /\ freq.at \in Nat
    BY LimiterAssumption DEF LimiterTypeOK
  <2>2. limiter.limit \in Limits /\ limiter.expire \in Expires /\ limiter.kind \in {"often", "frequent"}
    BY DEF LimiterTypeOK, Limiters
  <2>. QED  BY <2>1, <2>2, LimiterAssumption
<1>. QED  BY <1>1 DEF seconds

LEMMA LimiterStarts == LimiterInit => LimiterInv
<1> SUFFICES ASSUME LimiterInit PROVE LimiterInv
    OBVIOUS
<1>1. LimiterTypeOK /\ freq = [n |-> freq.n, at |-> freq.at]
  BY LimiterAssumption DEF LimiterInit, LimiterTypeOK
<1>2. grants = {} /\ Recent = {} /\ Previous = {} /\ \A s, t : GrantsIn(s, t) = {}
  BY DEF LimiterInit, Recent, Previous, GrantsIn
<1>3. Cardinality({}) = 0 /\ IsFiniteSet({})
  BY FS_EmptySet
<1>4. GrantsInv /\ OftenInv
  BY <1>2, <1>3 DEF GrantsInv, OftenInv, OftenSpaced
<1>5. WindowInv
  BY <1>1, <1>2, <1>3, LimiterFacts DEF WindowInv
<1>6. FrequencyBounded
  <2>1. \A t \in 0 .. MaxNow : Cardinality(GrantsIn(t, t + seconds)) = 0
    BY <1>2, <1>3
  <2>2. limiter.limit \in Int
    BY <1>1, LimiterFacts
  <2>. QED  BY <1>2, <2>1, <2>2 DEF FrequencyBounded
<1>7. CounterExpires
  BY <1>1, LimiterFacts DEF CounterExpires, LimiterInit
<1>. QED  BY <1>1, <1>4, <1>5, <1>6, <1>7 DEF LimiterInv

\* A call that is let through is a new element of grants.
LEMMA GrantFacts ==
    ASSUME LimiterTypeOK, GrantsInv, NEW ok \in BOOLEAN, Grant(ok), clock' = clock
    PROVE  /\ GrantsInv'
           /\ ~ok => grants' = grants
           /\ ok => grants' = grants \cup {<<clock, Cardinality(grants)>>}
           /\ \A g \in grants : g[2] < Cardinality(grants)
           /\ Cardinality(grants) \in Nat
<1>1. Cardinality(grants) \in Nat /\ clock \in Nat
  BY FS_CardinalityType, LimiterFacts DEF GrantsInv
<1>2. ~ok => grants' = grants
  BY DEF Grant
<1>3. ok => grants' = grants \cup {<<clock, Cardinality(grants)>>}
  BY DEF Grant
<1>4. \A g \in grants : g[2] < Cardinality(grants)
  BY <1>1 DEF GrantsInv
<1>5. CASE ok
  <2> DEFINE new == <<clock, Cardinality(grants)>>
  <2>1. new \notin grants /\ new[1] = clock /\ new[2] = Cardinality(grants) /\ new = <<new[1], new[2]>>
    BY <1>1, <1>4
  <2>2. grants' = grants \cup {new}
    BY <1>3, <1>5
  <2> HIDE DEF new
  <2>3. IsFiniteSet(grants') /\ Cardinality(grants') = Cardinality(grants) + 1
    BY <2>1, <2>2, FS_AddElement DEF GrantsInv
  <2>4. GrantsInv'
    <3>1. ASSUME NEW g \in grants'
          PROVE  g = <<g[1], g[2]>> /\ g[1] \in 0 .. clock' /\ g[2] \in 0 .. Cardinality(grants') - 1
      <4>1. CASE g \in grants
        BY <4>1, <1>1, <2>3 DEF GrantsInv
      <4>2. CASE g = new
        BY <4>2, <1>1, <2>1, <2>3
      <4>. QED  BY <4>1, <4>2, <2>2
    <3>. QED  BY <3>1, <2>3 DEF GrantsInv
  <2>. QED  BY <1>1, <1>2, <1>3, <1>4, <2>4
<1>6. CASE ~ok
  BY <1>1, <1>2, <1>3, <1>4, <1>6 DEF GrantsInv
<1>. QED  BY <1>5, <1>6

LEMMA OftenPreserves ==
    ASSUME LimiterInv, NEW lost \in BOOLEAN, IsTooOften(lost) PROVE LimiterInv'
<1> USE DEF LimiterInv
<1>1. /\ limiter.kind = "often" /\ Grant(~lost /\ ~Live(often))
      /\ often' = IF Live(often) THEN often ELSE setTTL
      /\ clock' = clock /\ limiter' = limiter /\ freq' = freq
  BY DEF IsTooOften
<1> DEFINE ok == ~lost /\ ~Live(often)
<1>2. /\ GrantsInv' /\ (~ok => grants' = grants) /\ (ok => grants' = grants \cup {<<clock, Cardinality(grants)>>})
      /\ (\A g \in grants : g[2] < Cardinality(grants)) /\ Cardinality(grants) \in Nat
  <2>1. ok \in BOOLEAN /\ Grant(ok)
    BY <1>1
  <2> HIDE DEF ok
  <2>. QED  BY <1>1, <2>1, GrantFacts
<1>3. /\ clock \in Nat /\ clock <= MaxNow /\ MaxNow \in Nat /\ often \in Nat /\ limiter.expire \in Nat
  BY LimiterFacts
<1>4. often' \in Nat /\ (Live(often) => often' = often) /\ (~Live(often) => often <= clock /\ often' = setTTL)
  BY <1>1, <1>3 DEF Live, setTTL, Never
<1>5. LimiterTypeOK'
  BY <1>1, <1>4 DEF LimiterTypeOK
<1>6. \A g \in grants : g[1] \in Nat /\ g[1] <= clock
  BY <1>3 DEF GrantsInv
<1>7. OftenInv'
  <2>1. OftenSpaced /\ \A g \in grants : often >= IF limiter.expire = 0 THEN Never ELSE g[1] + limiter.expire
    BY <1>1 DEF OftenInv
  <2>2. CASE Live(often)
    BY <2>1, <2>2, <1>1, <1>2, <1>4 DEF OftenInv, OftenSpaced, Never
  <2>3. CASE ~Live(often)
    <3>1. \A g \in grants : limiter.expire > 0 /\ clock - g[1] >= limiter.expire
      BY <2>1, <2>3, <1>3, <1>4, <1>6 DEF Never
    <3>2. \A g \in grants' : g \in grants \/ (g[1] = clock /\ g[2] = Cardinality(grants))
      BY <1>2
    <3>3. OftenSpaced'
      <4> SUFFICES ASSUME NEW g \in grants', NEW h \in grants', g[2] < h[2]
                   PROVE  limiter.expire > 0 /\ h[1] - g[1] >= limiter.expire
        BY <1>1 DEF OftenSpaced
      <4>1. CASE h \in grants
        <5>1. g \in grants
          BY <4>1, <3>2, <1>2, GrantsInv DEF GrantsInv
        <5>. QED  BY <4>1, <5>1, <2>1, <1>1 DEF OftenSpaced
      <4>2. CASE h \notin grants
        <5>1. h[1] = clock /\ h[2] = Cardinality(grants)
          BY <4>2, <3>2
        <5>2. g \in grants
          BY <5>1, <3>2, <1>2
        <5>. QED  BY <5>1, <5>2, <3>1
      <4>. QED  BY <4>1, <4>2
    <3>4. \A g \in grants' : often' >= IF limiter.expire = 0 THEN Never ELSE g[1] + limiter.expire
      <4>1. often' = IF limiter.expire = 0 THEN Never ELSE clock + limiter.expire
        BY <2>3, <1>4 DEF setTTL
      <4>. QED  BY <4>1, <3>2, <1>3, <1>6 DEF Never
    <3>. QED  BY <3>3, <3>4, <1>1 DEF OftenInv, Never
  <2>. QED  BY <2>2, <2>3
<1>8. WindowInv' /\ FrequencyBounded' /\ CounterExpires'
  BY <1>1 DEF WindowInv, FrequencyBounded, CounterExpires, seconds
<1>. QED  BY <1>1, <1>2, <1>5, <1>7, <1>8

LEMMA PartOfGrants == ASSUME GrantsInv, NEW S \in SUBSET grants PROVE IsFiniteSet(S) /\ Cardinality(S) \in Nat
BY FS_Subset, FS_CardinalityType DEF GrantsInv

LEMMA FrequentPreserves ==
    ASSUME LimiterInv, NEW lost \in BOOLEAN, IsTooFrequent(lost) PROVE LimiterInv'
<1> USE DEF LimiterInv
<1>1. /\ limiter.kind = "frequent" /\ clock' = clock /\ limiter' = limiter /\ often' = often
      /\ seconds' = seconds /\ (Live(freq.at) => freq.n < MaxCount)
  BY DEF IsTooFrequent, seconds
<1>2. CASE limiter.limit <= 0
  <2>1. freq' = freq /\ grants' = grants
    BY <1>2 DEF IsTooFrequent
  <2>. QED  BY <1>1, <2>1 DEF LimiterTypeOK, GrantsInv, OftenInv, OftenSpaced, WindowInv, Recent, Previous,
                            FrequencyBounded, GrantsIn, CounterExpires, Never
<1>3. CASE ~(limiter.limit <= 0)
  <2>0. freq' = tfIncrScript /\ Grant(~lost /\ ~TooFrequent(freq'.n))
    BY <1>3 DEF IsTooFrequent
  <2>1. /\ clock \in Nat /\ clock <= MaxNow /\ freq.n \in Nat /\ freq.at \in Nat /\ seconds \in Nat
        /\ limiter.limit \in Int /\ limiter.limit > 0
    BY <1>3, LimiterFacts
  <2> DEFINE ok == ~lost /\ ~TooFrequent(freq'.n)
  <2> DEFINE new == <<clock, Cardinality(grants)>>
  <2>2. /\ GrantsInv' /\ (~ok => grants' = grants) /\ (ok => grants' = grants \cup {new})
        /\ (\A g \in grants : g[2] < Cardinality(grants)) /\ Cardinality(grants) \in Nat
    <3>1. ok \in BOOLEAN /\ Grant(ok)
      BY <2>0
    <3> HIDE DEF ok
    <3>. QED  BY <1>1, <3>1, GrantFacts
  <2>3. ok => freq'.n <= limiter.limit
    <3>1. freq'.n \in Int
      BY <2>0, <2>1 DEF tfIncrScript
    <3>. QED  BY <2>1, <3>1 DEF TooFrequent
  <2>4. Live(freq.at) => freq' = [n |-> freq.n + 1, at |-> freq.at]
    <3>1. [freq EXCEPT !.n = @ + 1] = [n |-> freq.n + 1, at |-> freq.at]
      OBVIOUS
    <3>. QED  BY <2>0, <3>1 DEF tfIncrScript
  <2>5. ~Live(freq.at) => freq' = [n |-> 1, at |-> clock + seconds]
    BY <2>0 DEF tfIncrScript
  <2>6. /\ new \notin grants /\ new[1] = clock
        /\ \A g \in grants' : g \in grants \/ (ok /\ g = new)
        /\ grants \subseteq grants'
    BY <2>2
  <2>7. \A g \in grants : g[1] \in Nat /\ g[1] <= clock
    BY <2>1 DEF GrantsInv
  <2> HIDE DEF ok, new
  <2>8. LimiterTypeOK' /\ freq' = [n |-> freq'.n, at |-> freq'.at]
    <3>1. MaxCount \in Nat /\ MaxCount > 0
      BY LimiterAssumption
    <3>. QED  BY <1>1, <2>1, <2>4, <2>5, <3>1 DEF LimiterTypeOK
  <2>9. CounterExpires'
    BY <1>1, <2>1, <2>4, <2>5 DEF CounterExpires
  <2>10. OftenInv'
    BY <1>1 DEF OftenInv
  <2>11. WindowInv'
    <3> SUFFICES ASSUME seconds > 0
                 PROVE  /\ \A g \in grants' : g[1] < freq'.at
                        /\ Cardinality(Recent') <= freq'.n /\ Cardinality(Recent') <= limiter.limit
                        /\ Cardinality(Previous') <= limiter.limit
      BY <1>1, <2>1 DEF WindowInv
    <3>1. /\ \A g \in grants : g[1] < freq.at
          /\ Cardinality(Recent) <= freq.n /\ Cardinality(Recent) <= limiter.limit
          /\ Cardinality(Previous) <= limiter.limit
      BY <1>1, <2>1 DEF WindowInv
    <3>2. /\ IsFiniteSet(Recent) /\ Cardinality(Recent) \in Nat
          /\ IsFiniteSet(Previous) /\ Cardinality(Previous) \in Nat
      BY PartOfGrants DEF Recent, Previous
    <3>3. CASE Live(freq.at)
      <4>1. freq'.n = freq.n + 1 /\ freq'.at = freq.at /\ freq.at > clock
        BY <2>4, <3>3 DEF Live
      <4>2. \A g \in grants' : g[1] < freq'.at
        BY <4>1, <3>1, <2>6
      <4>3. freq.at - seconds <= clock
        BY <2>1 DEF CounterExpires
      <4>4. Previous' = Previous
        BY <4>1, <4>3, <1>1, <2>1, <2>6 DEF Previous
      <4>5. CASE ok
        <5>1. Recent' = Recent \cup {new} /\ new \notin Recent
          BY <4>1, <4>3, <4>5, <1>1, <2>2, <2>6 DEF Recent
        <5>2. Cardinality(Recent') = Cardinality(Recent) + 1
          BY <5>1, <3>2, FS_AddElement
        <5>. QED  BY <5>2, <4>1, <4>2, <4>4, <4>5, <3>1, <3>2, <2>1, <2>3
      <4>6. CASE ~ok
        <5>1. Recent' = Recent
          BY <4>1, <4>6, <1>1, <2>2 DEF Recent
        <5>. QED  BY <5>1, <4>1, <4>2, <4>4, <3>1, <3>2, <2>1
      <4>. QED  BY <4>5, <4>6
    <3>4. CASE ~Live(freq.at)
      <4>1. freq'.n = 1 /\ freq'.at = clock + seconds /\ freq.at <= clock
        BY <2>1, <2>5, <3>4 DEF Live
      <4>2. \A g \in grants' : g[1] < freq'.at
        BY <4>1, <2>1, <2>6, <2>7
      <4>3. \A g \in grants : g[1] < clock
        BY <4>1, <3>1, <2>1, <2>7
      <4>4. Recent' \subseteq {new}
        BY <4>1, <4>3, <1>1, <2>1, <2>6, <2>7 DEF Recent
      <4>5. Cardinality(Recent') <= 1 /\ Cardinality(Recent') \in Nat
        <5>1. IsFiniteSet({new}) /\ Cardinality({new}) = 1
          BY FS_Singleton
        <5>2. Cardinality(Recent') <= Cardinality({new}) /\ IsFiniteSet(Recent')
          BY <4>4, <5>1, FS_Subset
        <5>. QED  BY <5>1, <5>2, FS_CardinalityType
      <4>6. Previous' \subseteq Recent
        BY <4>1, <1>1, <2>1, <2>6, <2>7 DEF Previous, Recent
      <4>7. Cardinality(Previous') <= Cardinality(Recent) /\ Cardinality(Previous') \in Nat
        BY <4>6, <3>2, FS_Subset, FS_CardinalityType
      <4>. QED  BY <4>1, <4>2, <4>5, <4>7, <3>1, <3>2, <2>1
    <3>. QED  BY <3>3, <3>4
  <2>12. FrequencyBounded'
    <3> SUFFICES ASSUME NEW t \in 0 .. MaxNow
                 PROVE  Cardinality(GrantsIn(t, t + seconds)') <= 2 * limiter.limit
      BY <1>1, <2>1 DEF FrequencyBounded
    <3>0. t \in Nat
      BY LimiterAssumption
    <3>1. CASE new \in GrantsIn(t, t + seconds)' /\ ok
      <4>1. t <= clock /\ clock < t + seconds /\ seconds > 0
        BY <3>0, <3>1, <2>1, <2>6, <1>1 DEF GrantsIn
      <4>2. freq'.at - seconds <= clock /\ freq'.at \in Nat
        BY <2>8, <2>9, <2>1, <1>1, LimiterFacts DEF CounterExpires, LimiterTypeOK
      <4>3. GrantsIn(t, t + seconds)' \subseteq Recent' \cup Previous'
        <5> SUFFICES ASSUME NEW g \in grants', g[1] >= t, g[1] < t + seconds
                     PROVE  g \in Recent' \cup Previous'
          BY <1>1 DEF GrantsIn
        <5>1. g[1] \in Nat
          BY <2>1, <2>6, <2>7
        <5>2. g[1] >= freq'.at - seconds' \/ (g[1] > freq'.at - 2 * seconds' /\ g[1] < freq'.at - seconds')
          BY <5>1, <4>1, <4>2, <3>0, <2>1, <1>1
        <5>. QED  BY <5>2 DEF Recent, Previous
      <4>4. /\ IsFiniteSet(Recent') /\ Cardinality(Recent') \in Nat
            /\ IsFiniteSet(Previous') /\ Cardinality(Previous') \in Nat
        <5>1. Recent' \subseteq grants' /\ Previous' \subseteq grants' /\ IsFiniteSet(grants')
          BY <2>2 DEF Recent, Previous, GrantsInv
        <5>. QED  BY <5>1, FS_Subset, FS_CardinalityType
      <4>5. Cardinality(Recent') <= limiter.limit /\ Cardinality(Previous') <= limiter.limit
        BY <2>11, <4>1, <1>1, <2>1 DEF WindowInv
      <4>6. IsFiniteSet(Recent' \cup Previous') /\ Cardinality(Recent' \cup Previous') <= Cardinality(Recent') + Cardinality(Previous')
        <5>1. IsFiniteSet(Recent' \cup Previous') /\ Cardinality(Recent' \cup Previous') = Cardinality(Recent') + Cardinality(Previous') - Cardinality(Recent' \cap Previous')
          BY <4>4, FS_Union
        <5>2. Cardinality(Recent' \cap Previous') \in Nat
          BY <4>4, FS_Intersection, FS_CardinalityType
        <5>. QED  BY <5>1, <5>2, <4>4
      <4>7. /\ Cardinality(GrantsIn(t, t + seconds)') <= Cardinality(Recent' \cup Previous')
            /\ Cardinality(GrantsIn(t, t + seconds)') \in Nat /\ Cardinality(Recent' \cup Previous') \in Nat
        BY <4>3, <4>6, FS_Subset, FS_CardinalityType
      <4>. QED  BY <4>4, <4>5, <4>6, <4>7, <2>1
    <3>2. CASE ~(new \in GrantsIn(t, t + seconds)' /\ ok)
      <4>1. GrantsIn(t, t + seconds)' = GrantsIn(t, t + seconds)
        BY <3>2, <2>6, <1>1 DEF GrantsIn
      <4>. QED  BY <4>1, <1>1, <2>1 DEF FrequencyBounded
    <3>. QED  BY <3>1, <3>2
  <2>. QED  BY <1>1, <2>2, <2>8, <2>9, <2>10, <2>11, <2>12
<1>. QED  BY <1>2, <1>3

LEMMA LimiterPreserves == LimiterInv /\ [LimiterNext]_limiterVars => LimiterInv'
<1> SUFFICES ASSUME LimiterInv, [LimiterNext]_limiterVars PROVE LimiterInv'
    OBVIOUS
<1> USE DEF LimiterInv
<1>1. ASSUME limiter' = limiter, clock' = clock, grants' = {}, often' \in Nat, freq' = [n |-> freq'.n, at |-> freq'.at],
             freq'.n \in 0 .. MaxCount, freq'.at \in Nat, freq'.at <= clock + seconds
      PROVE  LimiterInv'
  <2>1. LimiterTypeOK'
    BY <1>1 DEF LimiterTypeOK
  <2>2. Recent' = {} /\ Previous' = {} 
    BY <1>1 DEF Recent, Previous
  <2>3. Cardinality({}) = 0 /\ IsFiniteSet({})
    BY FS_EmptySet
  <2>4. GrantsInv' /\ OftenInv'
    BY <1>1, <2>3 DEF GrantsInv, OftenInv, OftenSpaced
  <2>5. WindowInv'
    <3>1. limiter.limit \in Int /\ freq'.n \in Nat
      BY <1>1, LimiterFacts, LimiterAssumption
    <3>. QED  BY <1>1, <2>2, <2>3, <3>1 DEF WindowInv
  <2>6. FrequencyBounded'
    <3>1. limiter.limit \in Int
      BY LimiterFacts
    <3>2. ASSUME NEW t \in 0 .. MaxNow PROVE Cardinality(GrantsIn(t, t + seconds)') = 0
      <4>1. GrantsIn(t, t + seconds)' = {}
        BY <1>1 DEF GrantsIn
      <4>. QED  BY <4>1, <2>3
    <3>3. seconds' = seconds
      BY <1>1 DEF seconds
    <3>. QED  BY <1>1, <3>1, <3>2, <3>3 DEF FrequencyBounded
  <2>7. CounterExpires'
    BY <1>1 DEF CounterExpires, seconds
  <2>. QED  BY <1>1, <2>1, <2>4, <2>5, <2>6, <2>7
<1>2. CASE DelTooOften
  BY <1>1, <1>2 DEF DelTooOften, LimiterTypeOK, CounterExpires
<1>3. CASE DelTooFrequent
  <2>1. freq' = [n |-> 0, at |-> 0] /\ freq'.n = 0 /\ freq'.at = 0 /\ 0 \in 0 .. MaxCount /\ 0 <= clock + seconds
    BY <1>3, LimiterFacts, LimiterAssumption DEF DelTooFrequent
  <2>. QED  BY <1>1, <1>3, <2>1 DEF DelTooFrequent, LimiterTypeOK
<1>4. CASE Pass
  <2>1. clock' = clock + 1 /\ clock < MaxNow /\ limiter' = limiter /\ often' = often /\ freq' = freq /\ grants' = grants
    BY <1>4 DEF Pass
  <2>2. /\ clock \in Nat /\ MaxNow \in Nat /\ seconds \in Nat /\ freq.at \in Nat /\ seconds' = seconds
    BY <2>1, LimiterFacts DEF seconds
  <2>3. LimiterTypeOK' /\ GrantsInv' /\ CounterExpires'
    BY <2>1, <2>2 DEF LimiterTypeOK, GrantsInv, CounterExpires
  <2>4. OftenInv'
    BY <2>1 DEF OftenInv, OftenSpaced, Never
  <2>5. WindowInv' /\ FrequencyBounded'
    BY <2>1, <2>2 DEF WindowInv, Recent, Previous, FrequencyBounded, GrantsIn
  <2>. QED  BY <2>1, <2>3, <2>4, <2>5
<1>5. CASE UNCHANGED limiterVars
  BY <1>5 DEF limiterVars, LimiterTypeOK, GrantsInv, OftenInv, OftenSpaced, WindowInv, Recent, Previous,
              FrequencyBounded, GrantsIn, CounterExpires, Never, seconds
<1>. QED  BY <1>2, <1>3, <1>4, <1>5, OftenPreserves, FrequentPreserves DEF LimiterNext

LEMMA LimiterMeans == LimiterInv => LimiterTypeOK /\ OftenSpaced /\ FrequencyBounded /\ CounterExpires
BY DEF LimiterInv, OftenInv, OftenSpaced

\* Limiter (rdb/limiter.go): calls are spaced, their number per window is bounded and the
\* counter expires, for every limit and expire, answers lost or not.
THEOREM LimiterKeepsRate == LimiterSpec => [](LimiterTypeOK /\ OftenSpaced /\ FrequencyBounded /\ CounterExpires)
BY LimiterStarts, LimiterPreserves, LimiterMeans, PTL DEF LimiterSpec

-----------------------------------------------------------------------------
(* RetryCounter: every retry that was counted is an execution of an fn, or  *)
(* a sleep before one.                                                      *)

Begun == {p \in Retriers : retrier[p] # "new"}
Sleeping == {p \in Retriers : retrier[p] = "sleep"}

\* Each retry that was counted has run the fn once more, or will when the sleep is over.
BudgetInv ==
    /\ IsFiniteSet(FnRuns)
    /\ Cardinality(FnRuns) + Cardinality(Sleeping) = Cardinality(Begun) + count
    /\ opt.maxCount > 0 => count <= opt.maxCount

IntervalInv ==
    /\ opt.init <= interval
    /\ opt.maxInterval > 0 => (interval <= opt.maxInterval \/ interval <= opt.init)
    /\ \A p \in Retriers : slept[p] <= interval

RetryInv == RetryTypeOK /\ BudgetInv /\ IntervalInv /\ GivesUpWhenSpent

LEMMA OptFacts ==
    ASSUME opt \in CounterOptions
    PROVE  /\ opt.maxCount \in Nat /\ opt.init \in Nat /\ opt.step \in Nat /\ opt.maxInterval \in Nat
           /\ opt.init > 0 \/ opt.step > 0
BY RetryAssumption

LEMMA RetryStarts == RetryInit => RetryInv
<1> SUFFICES ASSUME RetryInit PROVE RetryInv
    OBVIOUS
<1>1. RetryTypeOK
  BY OptFacts DEF RetryInit, RetryTypeOK
<1>2. FnRuns = {} /\ Sleeping = {} /\ Begun = {}
  <2>1. \A p \in Retriers : 1 .. fnCalls[p] = {}
    BY DEF RetryInit
  <2>. QED  BY <2>1 DEF FnRuns, Sleeping, Begun, RetryInit
<1>3. BudgetInv
  BY <1>2, FS_EmptySet, OptFacts DEF BudgetInv, RetryInit
<1>4. IntervalInv
  BY OptFacts DEF IntervalInv, RetryInit
<1>5. GivesUpWhenSpent
  BY DEF GivesUpWhenSpent, RetryInit
<1>. QED  BY <1>1, <1>3, <1>4, <1>5 DEF RetryInv

LEMMA RetryFinite ==
    /\ IsFiniteSet(Retriers) /\ IsFiniteSet(Sleeping) /\ IsFiniteSet(Begun)
    /\ Cardinality(Sleeping) \in Nat /\ Cardinality(Begun) \in Nat
    /\ Cardinality(Begun) <= Cardinality(Retriers) /\ Cardinality(Retriers) \in Nat
<1>1. IsFiniteSet(Retriers) /\ Sleeping \subseteq Retriers /\ Begun \subseteq Retriers
  BY RetryAssumption DEF Sleeping, Begun
<1>. QED  BY <1>1, FS_Subset, FS_CardinalityType

LEMMA RunFnPreserves == ASSUME RetryInv, NEW p \in Retriers, runFn(p) PROVE RetryInv'
<1> USE DEF RetryInv
<1>1. PICK to \in {"ok", "next"} : retrier' = [retrier EXCEPT ![p] = to]
  BY DEF runFn
<1>2. /\ retrier[p] \in {"new", "sleep"} /\ fnCalls' = [fnCalls EXCEPT ![p] = @ + 1]
      /\ opt' = opt /\ count' = count /\ interval' = interval /\ slept' = slept
  BY DEF runFn
<1>3. RetryTypeOK'
  BY <1>1, <1>2 DEF RetryTypeOK
<1>4. \A q \in Retriers : /\ retrier'[q] = IF q = p THEN to ELSE retrier[q]
                          /\ fnCalls'[q] = IF q = p THEN fnCalls[q] + 1 ELSE fnCalls[q]
  BY <1>1, <1>2 DEF RetryTypeOK
<1>5. BudgetInv'
  <2> DEFINE new == <<p, fnCalls[p] + 1>>
  <2>1. fnCalls[p] \in Nat /\ count \in Nat
    BY DEF RetryTypeOK
  <2>2. new \notin FnRuns
    BY <2>1 DEF FnRuns
  <2>3. FnRuns' = FnRuns \cup {new}
    <3>1. 1 .. fnCalls[p] + 1 = (1 .. fnCalls[p]) \cup {fnCalls[p] + 1}
      BY <2>1
    <3>2. \A c : c \in FnRuns <=> \E q \in Retriers : c \in {q} \X (1 .. fnCalls[q])
      BY DEF FnRuns
    <3>3. \A c : c \in FnRuns' <=> \E q \in Retriers : c \in {q} \X (1 .. fnCalls'[q])
      BY DEF FnRuns
    <3>4. \A c : c \in {p} \X (1 .. fnCalls'[p]) <=> (c \in {p} \X (1 .. fnCalls[p]) \/ c = new)
      <4>1. fnCalls'[p] = fnCalls[p] + 1
        BY <1>4
      <4> HIDE DEF new
      <4>2. \A x : x \in 1 .. fnCalls'[p] <=> (x \in 1 .. fnCalls[p] \/ x = fnCalls[p] + 1)
        BY <4>1, <2>1
      <4>. QED  BY <4>2 DEF new
    <3>5. \A q \in Retriers : q # p => fnCalls'[q] = fnCalls[q]
      BY <1>4
    <3> HIDE DEF new
    <3>6. \A c : c \in FnRuns' <=> (c \in FnRuns \/ c = new)
      BY <3>2, <3>3, <3>4, <3>5
    <3>. QED  BY <3>6
  <2>4. IsFiniteSet(FnRuns') /\ Cardinality(FnRuns') = Cardinality(FnRuns) + 1 /\ Cardinality(FnRuns) \in Nat
    <3> HIDE DEF new
    <3>. QED  BY <2>2, <2>3, FS_AddElement, FS_CardinalityType DEF BudgetInv
  <2>5. CASE retrier[p] = "new"
    <3>1. Sleeping' = Sleeping /\ Begun' = Begun \cup {p} /\ p \notin Begun
      BY <2>5, <1>4 DEF Sleeping, Begun
    <3>2. Cardinality(Begun') = Cardinality(Begun) + 1
      BY <3>1, RetryFinite, FS_AddElement
    <3>. QED  BY <2>1, <2>4, <3>1, <3>2, <1>2, RetryFinite DEF BudgetInv
  <2>6. CASE retrier[p] = "sleep"
    <3>1. Sleeping' = Sleeping \ {p} /\ Begun' = Begun /\ p \in Sleeping
      BY <2>6, <1>4 DEF Sleeping, Begun
    <3>2. Cardinality(Sleeping') = Cardinality(Sleeping) - 1
      BY <3>1, RetryFinite, FS_RemoveElement
    <3>. QED  BY <2>1, <2>4, <3>1, <3>2, <1>2, RetryFinite DEF BudgetInv
  <2>. QED  BY <1>2, <2>5, <2>6
<1>6. IntervalInv'
  BY <1>2 DEF IntervalInv
<1>7. GivesUpWhenSpent'
  BY <1>2, <1>4 DEF GivesUpWhenSpent, HasNext
<1>. QED  BY <1>3, <1>5, <1>6, <1>7

\* An interval is never zero, never shrinks and stays below the cap.
LEMMA WidenedFacts ==
    ASSUME RetryTypeOK, IntervalInv
    PROVE  /\ Widened \in Nat /\ Widened > 0 /\ interval <= Widened
           /\ opt.maxInterval > 0 => (Widened <= opt.maxInterval \/ Widened <= opt.init)
<1>1. interval \in Nat /\ opt \in CounterOptions
  BY DEF RetryTypeOK
<1>. QED  BY <1>1, OptFacts DEF Widened, IntervalInv

LEMMA NextIntervalPreserves == ASSUME RetryInv, NEW p \in Retriers, NextInterval(p) PROVE RetryInv'
<1> USE DEF RetryInv
<1>1. retrier[p] = "next" /\ opt' = opt /\ fnCalls' = fnCalls /\ count \in Nat /\ opt \in CounterOptions /\ interval \in Nat
  BY DEF NextInterval, RetryTypeOK
<1>2. FnRuns' = FnRuns
  BY <1>1 DEF FnRuns
<1>3. CASE ~HasNext
  <2>1. retrier' = [retrier EXCEPT ![p] = "failed"] /\ count' = count /\ interval' = interval /\ slept' = slept
    BY <1>3 DEF NextInterval
  <2>2. RetryTypeOK'
    BY <1>1, <2>1 DEF RetryTypeOK
  <2>3. Sleeping' = Sleeping /\ Begun' = Begun
    BY <1>1, <2>1 DEF Sleeping, Begun, RetryTypeOK
  <2>4. BudgetInv'
    BY <1>1, <1>2, <2>1, <2>3 DEF BudgetInv
  <2>5. IntervalInv' /\ GivesUpWhenSpent'
    BY <1>1, <1>3, <2>1 DEF IntervalInv, GivesUpWhenSpent, HasNext
  <2>. QED  BY <2>2, <2>4, <2>5
<1>4. CASE HasNext
  <2>1. /\ count' = count + 1 /\ interval' = Widened
        /\ slept' = [slept EXCEPT ![p] = interval']
        /\ retrier' = [retrier EXCEPT ![p] = IF slept'[p] = 0 THEN "failed" ELSE "sleep"]
    BY <1>4 DEF NextInterval
  <2>2. interval' \in Nat /\ interval' > 0 /\ interval <= interval'
        /\ (opt.maxInterval > 0 => (interval' <= opt.maxInterval \/ interval' <= opt.init))
    BY <2>1, WidenedFacts
  <2>3. /\ \A q \in Retriers : slept'[q] = IF q = p THEN interval' ELSE slept[q]
        /\ retrier' = [retrier EXCEPT ![p] = "sleep"]
    <3>1. \A q \in Retriers : slept'[q] = IF q = p THEN interval' ELSE slept[q]
      BY <2>1 DEF RetryTypeOK
    <3>2. slept'[p] # 0
      BY <3>1, <2>2
    <3>3. retrier' = [retrier EXCEPT ![p] = "sleep"]
      BY <3>2, <2>1, Zenon
    <3>. QED  BY <3>1, <3>3
  <2>4. RetryTypeOK'
    BY <1>1, <2>1, <2>2, <2>3 DEF RetryTypeOK
  <2>5. Sleeping' = Sleeping \cup {p} /\ p \notin Sleeping /\ Begun' = Begun
    BY <1>1, <2>3 DEF Sleeping, Begun, RetryTypeOK
  <2>6. BudgetInv'
    <3>1. Cardinality(Sleeping') = Cardinality(Sleeping) + 1
      BY <2>5, RetryFinite, FS_AddElement
    <3>2. Cardinality(FnRuns) \in Nat
      BY FS_CardinalityType DEF BudgetInv
    <3>3. opt.maxCount > 0 => count + 1 <= opt.maxCount
      BY <1>1, <1>4, OptFacts DEF HasNext
    <3>. QED  BY <1>1, <1>2, <2>1, <2>5, <3>1, <3>2, <3>3, RetryFinite DEF BudgetInv
  <2>7. IntervalInv'
    BY <1>1, <2>2, <2>3, OptFacts DEF IntervalInv, RetryTypeOK
  <2>8. GivesUpWhenSpent'
    BY <1>4, <2>3 DEF GivesUpWhenSpent, RetryTypeOK
  <2>. QED  BY <2>4, <2>6, <2>7, <2>8
<1>. QED  BY <1>3, <1>4

LEMMA RetryPreserves == RetryInv /\ [RetryNext]_retryVars => RetryInv'
<1> SUFFICES ASSUME RetryInv, [RetryNext]_retryVars PROVE RetryInv'
    OBVIOUS
<1>1. CASE UNCHANGED retryVars
  BY <1>1 DEF retryVars, RetryInv, RetryTypeOK, BudgetInv, IntervalInv, GivesUpWhenSpent, HasNext, FnRuns, Sleeping, Begun
<1>. QED  BY <1>1, RunFnPreserves, NextIntervalPreserves DEF RetryNext

LEMMA RetryMeans == RetryInv => RetryTypeOK /\ SharedBudget /\ GivesUpWhenSpent /\ IntervalCapped
<1> SUFFICES ASSUME RetryInv PROVE SharedBudget /\ IntervalCapped
    BY DEF RetryInv
<1>1. /\ count \in Nat /\ opt \in CounterOptions /\ interval \in Nat /\ Cardinality(FnRuns) \in Nat
      /\ \A p \in Retriers : slept[p] \in Nat
  BY FS_CardinalityType DEF RetryInv, RetryTypeOK, BudgetInv
<1>2. SharedBudget
  BY <1>1, OptFacts, RetryFinite DEF RetryInv, BudgetInv, SharedBudget
<1>3. IntervalCapped
  BY <1>1, OptFacts DEF RetryInv, IntervalInv, IntervalCapped
<1>. QED  BY <1>2, <1>3

\* retryCounter (util/retry.go): goroutines that share a counter share its budget, give up
\* only when it is spent and wait no longer than its cap, whatever its options.
THEOREM RetryKeepsBudget == RetrySpec => [](RetryTypeOK /\ SharedBudget /\ GivesUpWhenSpent /\ IntervalCapped)
BY RetryStarts, RetryPreserves, RetryMeans, PTL DEF RetrySpec

-----------------------------------------------------------------------------
(* MWState: whoever writes into a State was given it, so one that is given  *)
(* to a single request holds what that request's callbacks have put.        *)

\* A request that has started uses the State it was given; one made for it was made first.
ObjectsInv ==
    /\ carried \in [StateRequests -> Objects \cup {NoState}]
    /\ objOf \in [StateRequests -> Objects \cup {NoState}]
    /\ reqPc \in [StateRequests -> {"new", "callback", "next", "handler", "done", "refused"}]
    /\ mwOf \in [StateRequests -> 0 .. NumMWs]
    /\ \A r \in StateRequests : objOf[r] = IF Started(r) THEN Given(r) ELSE carried[r]
    /\ \A q, r \in StateRequests : carried[q] = r => carried[r] = r
    /\ \A r \in StateRequests : reqPc[r] = "new" => mwOf[r] = 0
    /\ \A r \in StateRequests : reqPc[r] = "next" => mwOf[r] < NumMWs

\* Accesses happen in callbacks and handlers; a race is one of two requests that share.
AccessInv ==
    /\ access = [r \in StateRequests |-> access[r]]
    /\ \A r \in StateRequests : access[r] # NoAccess => reqPc[r] \in {"callback", "handler"}
    /\ raced \in BOOLEAN
    /\ RaceNeedsSharing

\* A value was put by its caller or by a request that was given the State, and of a
\* request that is alone everything is there.
ValuesInv ==
    /\ entries = [o \in Objects |-> entries[o]]
    /\ \A o \in Objects : DOMAIN entries[o] \subseteq StateKeys
    /\ \A o \in Objects : \A k \in DOMAIN entries[o] : entries[o][k] \in StateRequests \cup {Caller}
    /\ \A o \in Objects, v \in StateRequests : \A k \in DOMAIN entries[o] :
          entries[o][k] = v => Started(v) /\ Given(v) = o
    /\ mine \in [StateRequests -> SUBSET StateKeys]
    /\ \A r \in StateRequests : ~Started(r) => mine[r] = {}
    /\ \A r \in StateRequests : Started(r) /\ Alone(r) =>
          \A k \in mine[r] : k \in DOMAIN entries[Given(r)] /\ entries[Given(r)][k] = r

StateInv == ObjectsInv /\ AccessInv /\ ValuesInv

LEMMA ObjectFacts ==
    /\ NoState \notin Objects /\ 1 \in Objects /\ StateRequests \subseteq Objects /\ 1 \notin StateRequests
    /\ NoState \notin StateRequests /\ Caller \notin StateRequests
BY RpcStateAssumption DEF RpcStateAssumption, NoState, Objects

LEMMA StateStarts == RpcStateInit => StateInv
<1> SUFFICES ASSUME RpcStateInit PROVE StateInv
    OBVIOUS
<1>0. \A r \in StateRequests : ~Started(r) /\ carried[r] = NoState
  BY DEF RpcStateInit, Started
<1>1. ObjectsInv
  BY <1>0, ObjectFacts, RpcStateAssumption DEF RpcStateInit, ObjectsInv, RpcStateAssumption
<1>2. AccessInv
  <2>1. raced \in BOOLEAN /\ ~raced
    BY Zenon DEF RpcStateInit
  <2>. QED  BY <2>1 DEF RpcStateInit, AccessInv, RaceNeedsSharing
<1>3. ValuesInv
  BY <1>0 DEF RpcStateInit, ValuesInv
<1>. QED  BY <1>1, <1>2, <1>3 DEF StateInv

\* A request that was alone is not disturbed by one that has not started, and remains so
\* or not as the others start.
LEMMA IntoContextPreserves ==
    ASSUME StateInv, NEW r \in StateRequests, StateIntoContext(r) PROVE StateInv'
<1> USE DEF StateInv
<1>1. /\ ~Started(r) /\ carried[r] = NoState /\ objOf' = [objOf EXCEPT ![r] = carried'[r]]
      /\ reqPc' = reqPc /\ access' = access /\ raced' = raced /\ mwOf' = mwOf /\ mine' = mine
  BY DEF StateIntoContext, Started
<1>2. PICK o \in Objects :
         /\ carried' = [carried EXCEPT ![r] = o]
         /\ \/ o = r /\ \E K \in SUBSET StateKeys : entries' = [entries EXCEPT ![r] = NewStateOf(K)]
            \/ (o \in StateRequests => carried[o] = o) /\ entries' = entries
  <2>1. CASE \E K \in SUBSET StateKeys : carried' = [carried EXCEPT ![r] = r] /\ entries' = [entries EXCEPT ![r] = NewStateOf(K)]
    BY <2>1, ObjectFacts
  <2>2. CASE \E q \in StateRequests : objOf[q] # NoState /\ carried' = [carried EXCEPT ![r] = objOf[q]] /\ UNCHANGED entries
    <3>1. PICK q \in StateRequests : objOf[q] # NoState /\ carried' = [carried EXCEPT ![r] = objOf[q]] /\ entries' = entries
      BY <2>2
    <3>2. objOf[q] \in Objects
      BY <3>1 DEF ObjectsInv
    <3>3. objOf[q] \in StateRequests => carried[objOf[q]] = objOf[q]
      BY <3>1, ObjectFacts DEF ObjectsInv, Given
    <3>. QED  BY <3>1, <3>2, <3>3
  <2>. QED  BY <2>1, <2>2 DEF StateIntoContext
<1>3. \A q \in StateRequests : carried'[q] = IF q = r THEN o ELSE carried[q]
  BY <1>2 DEF ObjectsInv
<1>4. /\ \A q \in StateRequests : Started(q)' = Started(q)
      /\ \A q \in StateRequests : Started(q) => q # r /\ Given(q)' = Given(q)
  BY <1>1, <1>3 DEF Started, Given
<1>5. \A q \in StateRequests : Started(q) => Alone(q)' = Alone(q)
  BY <1>4 DEF Alone
<1>6. ObjectsInv'
  <2>1. carried' \in [StateRequests -> Objects \cup {NoState}] /\ objOf' \in [StateRequests -> Objects \cup {NoState}]
    BY <1>1, <1>2 DEF ObjectsInv
  <2>2. \A q \in StateRequests : objOf'[q] = IF q = r THEN o ELSE objOf[q]
    BY <1>1, <1>3 DEF ObjectsInv
  <2>3. \A q \in StateRequests : objOf'[q] = IF Started(q)' THEN Given(q)' ELSE carried'[q]
    BY <1>1, <1>3, <1>4, <2>2 DEF ObjectsInv
  <2>4. \A p, q \in StateRequests : carried'[p] = q => carried'[q] = q
    BY <1>2, <1>3, ObjectFacts, <1>1 DEF ObjectsInv
  <2>. QED  BY <1>1, <2>1, <2>3, <2>4 DEF ObjectsInv
<1>7. AccessInv'
  <2>1. RaceNeedsSharing'
    BY <1>1, <1>4, <1>5 DEF RaceNeedsSharing, AccessInv
  <2>. QED  BY <1>1, <2>1 DEF AccessInv
<1>8. ASSUME NEW q \in StateRequests, Started(q) PROVE Given(q) # r
  BY <1>1, <1>8, ObjectFacts DEF ObjectsInv, Given
<1>9. /\ \A x \in Objects : x = r \/ entries'[x] = entries[x]
      /\ entries'[r] = entries[r] \/ (DOMAIN entries'[r] \subseteq StateKeys /\ \A k \in DOMAIN entries'[r] : entries'[r][k] = Caller)
      /\ entries' = [x \in Objects |-> entries'[x]]
  BY <1>2, ObjectFacts DEF ValuesInv, NewStateOf
<1>10. \A q \in StateRequests : Started(q) => Given(q) \in Objects
  BY ObjectFacts DEF ObjectsInv, Given
<1>11. ValuesInv'
  <2>1. \A x \in Objects : DOMAIN entries'[x] \subseteq StateKeys
    BY <1>9 DEF ValuesInv
  <2>2. ASSUME NEW x \in Objects, NEW k \in DOMAIN entries'[x]
        PROVE  /\ entries'[x][k] \in StateRequests \cup {Caller}
               /\ \A v \in StateRequests : entries'[x][k] = v => Started(v)' /\ Given(v)' = x
    <3>1. CASE entries'[x] = entries[x]
      BY <1>4, <2>2, <3>1 DEF ValuesInv
    <3>2. CASE entries'[x] # entries[x]
      <4>1. entries'[x][k] = Caller
        BY <1>9, <2>2, <3>2
      <4>. QED  BY <4>1, ObjectFacts
    <3>. QED  BY <3>1, <3>2
  <2>3. ASSUME NEW q \in StateRequests, Started(q)', Alone(q)', NEW k \in mine'[q]
        PROVE  k \in DOMAIN entries'[Given(q)'] /\ entries'[Given(q)'][k] = q
    <3>1. Started(q) /\ Alone(q) /\ Given(q)' = Given(q) /\ k \in mine[q]
      BY <1>1, <1>4, <1>5, <2>3
    <3>2. entries'[Given(q)] = entries[Given(q)]
      BY <1>8, <1>9, <1>10, <3>1
    <3>. QED  BY <3>1, <3>2 DEF ValuesInv
  <2>4. mine' \in [StateRequests -> SUBSET StateKeys] /\ \A q \in StateRequests : ~Started(q)' => mine'[q] = {}
    BY <1>1, <1>4 DEF ValuesInv
  <2>. QED  BY <1>9, <2>1, <2>2, <2>3, <2>4 DEF ValuesInv
<1>. QED  BY <1>6, <1>7, <1>11

\* Requests go on while the States stay as they are; those who have started may be more.
LEMMA GoesOn ==
    ASSUME StateInv, ObjectsInv', UNCHANGED <<carried, entries, access, mine, raced>>,
           \A q \in StateRequests : Started(q) => Started(q)',
           \A q \in StateRequests : access[q] # NoAccess => reqPc'[q] = reqPc[q]
    PROVE  StateInv'
<1> USE DEF StateInv
<1>1. \A q \in StateRequests : Given(q)' = Given(q)
  BY DEF Given
<1>2. \A q \in StateRequests : Alone(q)' => Alone(q)
  BY <1>1 DEF Alone
<1>3. AccessInv'
  <2>1. RaceNeedsSharing'
    BY <1>2 DEF RaceNeedsSharing, AccessInv
  <2>. QED  BY <2>1 DEF AccessInv
<1>4. ValuesInv'
  <2>1. \A o \in Objects, v \in StateRequests : \A k \in DOMAIN entries[o] :
           entries[o][k] = v => Started(v)' /\ Given(v)' = o
    BY <1>1 DEF ValuesInv
  <2>2. \A q \in StateRequests : ~Started(q)' => mine[q] = {}
    BY DEF ValuesInv
  <2>3. ASSUME NEW q \in StateRequests, Alone(q)', NEW k \in mine[q]
        PROVE  k \in DOMAIN entries[Given(q)'] /\ entries[Given(q)'][k] = q
    BY <1>1, <1>2, <2>3 DEF ValuesInv
  <2>. QED  BY <2>1, <2>2, <2>3 DEF ValuesInv
<1>. QED  BY <1>3, <1>4

LEMMA HandlePreserves ==
    ASSUME StateInv, NEW r \in StateRequests, handle(r) PROVE StateInv'
<1> USE DEF StateInv
<1>1. /\ reqPc[r] \in {"new", "next"} /\ reqPc' = [reqPc EXCEPT ![r] = "callback"]
      /\ mwOf' = [mwOf EXCEPT ![r] = mwOf[r] + 1]
      /\ objOf' = [objOf EXCEPT ![r] = IF objOf[r] = NoState THEN mwOf[r] + 1 ELSE objOf[r]]
      /\ UNCHANGED <<carried, entries, access, mine, raced>>
  BY DEF handle
<1>2. \A q \in StateRequests : Given(q)' = Given(q) /\ (Started(q)' <=> q = r \/ Started(q))
  BY <1>1 DEF Given, Started, ObjectsInv
<1>3. Given(r) \in Objects /\ mwOf[r] \in 0 .. NumMWs - 1
  BY <1>1, ObjectFacts, RpcStateAssumption DEF ObjectsInv, Given, RpcStateAssumption
<1>4. objOf' = [objOf EXCEPT ![r] = Given(r)]
  <2>1. CASE reqPc[r] = "new"
    <3>1. objOf[r] = carried[r] /\ mwOf[r] = 0
      BY <2>1 DEF ObjectsInv, Started
    <3>. QED  BY <1>1, <3>1 DEF Given
  <2>2. CASE reqPc[r] = "next"
    <3>1. objOf[r] = Given(r) /\ objOf[r] # NoState
      BY <1>3, <2>2, ObjectFacts DEF ObjectsInv, Started
    <3>. QED  BY <1>1, <3>1
  <2>. QED  BY <1>1, <2>1, <2>2
<1>5. ObjectsInv'
  <2>1. objOf' \in [StateRequests -> Objects \cup {NoState}] /\ mwOf' \in [StateRequests -> 0 .. NumMWs]
        /\ reqPc' \in [StateRequests -> {"new", "callback", "next", "handler", "done", "refused"}]
    BY <1>1, <1>3, <1>4, RpcStateAssumption DEF ObjectsInv, RpcStateAssumption
  <2>2. \A q \in StateRequests : objOf'[q] = IF Started(q)' THEN Given(q)' ELSE carried'[q]
    BY <1>1, <1>2, <1>4 DEF ObjectsInv
  <2>. QED  BY <1>1, <2>1, <2>2 DEF ObjectsInv
<1>6. \A q \in StateRequests : access[q] # NoAccess => reqPc'[q] = reqPc[q]
  BY <1>1 DEF AccessInv, ObjectsInv
<1>. QED  BY <1>1, <1>2, <1>5, <1>6, GoesOn

\* A request goes on.
LEMMA PcPreserves ==
    ASSUME StateInv, NEW r \in StateRequests, NEW pc \in {"next", "handler", "done", "refused"},
           Started(r), access[r] = NoAccess, reqPc' = [reqPc EXCEPT ![r] = pc],
           UNCHANGED <<carried, objOf, entries, mwOf, access, mine, raced>>,
           pc = "next" => mwOf[r] < NumMWs
    PROVE  StateInv'
<1> USE DEF StateInv
<1>1. \A q \in StateRequests : reqPc'[q] = IF q = r THEN pc ELSE reqPc[q]
  BY DEF ObjectsInv
<1>2. \A q \in StateRequests : Given(q)' = Given(q) /\ Started(q)' = Started(q)
  BY <1>1 DEF Given, Started
<1>3. ObjectsInv'
  <2>1. reqPc' \in [StateRequests -> {"new", "callback", "next", "handler", "done", "refused"}]
    BY DEF ObjectsInv
  <2>2. \A q \in StateRequests : objOf[q] = IF Started(q)' THEN Given(q)' ELSE carried[q]
    BY <1>2 DEF ObjectsInv
  <2>. QED  BY <1>1, <2>1, <2>2 DEF ObjectsInv
<1>4. \A q \in StateRequests : access[q] # NoAccess => reqPc'[q] = reqPc[q]
  BY <1>1
<1>. QED  BY <1>2, <1>3, <1>4, GoesOn

LEMMA BeginPreserves ==
    ASSUME StateInv, NEW r \in StateRequests, NEW op, op # "none", NEW key, Begin(r, op, key),
           reqPc[r] \in {"callback", "handler"}
    PROVE  StateInv'
<1> USE DEF StateInv
<1>1. /\ access' = [access EXCEPT ![r] = [op |-> op, key |-> key]]
      /\ raced' = (raced \/ Overlaps(r, op))
      /\ UNCHANGED <<carried, objOf, entries, reqPc, mwOf, mine>>
  BY DEF Begin
<1>2. \A q \in StateRequests : Given(q)' = Given(q) /\ Started(q)' = Started(q) /\ Alone(q)' = Alone(q)
  BY <1>1 DEF Given, Started, Alone
<1>3. ObjectsInv' /\ ValuesInv'
  BY <1>1, <1>2 DEF ObjectsInv, ValuesInv, Given, Started
<1>4. raced' \in BOOLEAN /\ (raced' => raced \/ Overlaps(r, op))
  BY <1>1, Zenon
<1>5. /\ \A p \in StateRequests : access'[p] = IF p = r THEN [op |-> op, key |-> key] ELSE access[p]
      /\ access' = [p \in StateRequests |-> access'[p]]
  BY <1>1 DEF AccessInv
<1>6. Overlaps(r, op) => Started(r) /\ ~Alone(r)
  <2> SUFFICES ASSUME NEW q \in StateRequests \ {r}, access[q] # NoAccess, objOf[q] = objOf[r]
               PROVE  Started(r) /\ ~Alone(r)
    BY DEF Overlaps
  <2>1. Started(q) /\ Started(r)
    BY DEF AccessInv, Started
  <2>2. Given(q) = Given(r)
    BY <2>1 DEF ObjectsInv
  <2>. QED  BY <2>1, <2>2 DEF Alone
<1>7. RaceNeedsSharing'
  BY <1>2, <1>4, <1>6 DEF RaceNeedsSharing, AccessInv
<1>8. \A p \in StateRequests : access'[p] # NoAccess => reqPc'[p] \in {"callback", "handler"}
  BY <1>1, <1>5 DEF AccessInv
<1>9. AccessInv'
  BY <1>4, <1>5, <1>7, <1>8 DEF AccessInv
<1>. QED  BY <1>3, <1>9

\* An access ends: what it writes are values of its own request, or what was there.
LEMMA EndPreserves ==
    ASSUME StateInv, NEW r \in StateRequests, NEW op, NEW key, NEW ents, NEW keys \in SUBSET StateKeys,
           End(r, op, key, ents, keys), reqPc[r] \in {"callback", "handler"},
           DOMAIN ents \subseteq StateKeys,
           \A k \in DOMAIN ents : ents[k] = r \/ (k \in DOMAIN entriesOf(r) /\ ents[k] = entriesOf(r)[k]),
           \A k \in keys : (k \in mine[r] => k \in DOMAIN entriesOf(r) /\ entriesOf(r)[k] = r) => k \in DOMAIN ents /\ ents[k] = r
    PROVE  StateInv'
<1> USE DEF StateInv
<1>1. /\ access' = [access EXCEPT ![r] = NoAccess]
      /\ entries' = [entries EXCEPT ![objOf[r]] = ents]
      /\ mine' = [mine EXCEPT ![r] = keys]
      /\ UNCHANGED <<carried, objOf, reqPc, mwOf, raced>>
  BY DEF End
<1>2. \A q \in StateRequests : Given(q)' = Given(q) /\ Started(q)' = Started(q) /\ Alone(q)' = Alone(q)
  BY <1>1 DEF Given, Started, Alone
<1>3. ObjectsInv'
  BY <1>1, <1>2 DEF ObjectsInv
<1>4. AccessInv'
  <2>1. \A p \in StateRequests : access'[p] = IF p = r THEN NoAccess ELSE access[p]
    BY <1>1 DEF AccessInv
  <2>2. access' = [p \in StateRequests |-> access'[p]]
    BY <1>1 DEF AccessInv
  <2>3. RaceNeedsSharing'
    BY <1>1, <1>2 DEF RaceNeedsSharing, AccessInv
  <2>. QED  BY <1>1, <2>1, <2>2, <2>3 DEF AccessInv
<1>5. Started(r) /\ objOf[r] = Given(r) /\ Given(r) \in Objects
  BY ObjectFacts DEF Started, ObjectsInv, Given
<1>6. /\ \A o \in Objects : entries'[o] = IF o = Given(r) THEN ents ELSE entries[o]
      /\ entries' = [o \in Objects |-> entries'[o]] /\ entriesOf(r) = entries[Given(r)]
  BY <1>1, <1>5 DEF ValuesInv, entriesOf
<1>7. \A q \in StateRequests : mine'[q] = IF q = r THEN keys ELSE mine[q]
  BY <1>1 DEF ValuesInv
<1>8. ValuesInv'
  <2>1. \A o \in Objects : DOMAIN entries'[o] \subseteq StateKeys
    BY <1>6 DEF ValuesInv
  <2>2. ASSUME NEW o \in Objects, NEW k \in DOMAIN entries'[o]
        PROVE  /\ entries'[o][k] \in StateRequests \cup {Caller}
               /\ \A v \in StateRequests : entries'[o][k] = v => Started(v)' /\ Given(v)' = o
    <3>1. CASE o = Given(r)
      BY <1>2, <1>5, <1>6, <2>2, <3>1 DEF ValuesInv
    <3>2. CASE o # Given(r)
      BY <1>2, <1>6, <2>2, <3>2 DEF ValuesInv
    <3>. QED  BY <3>1, <3>2
  <2>3. ASSUME NEW q \in StateRequests, Started(q), Alone(q), NEW k \in mine'[q]
        PROVE  k \in DOMAIN entries'[Given(q)] /\ entries'[Given(q)][k] = q
    <3>1. CASE q = r
      <4>1. k \in keys /\ entries'[Given(q)] = ents
        BY <1>5, <1>6, <1>7, <2>3, <3>1
      <4>2. Started(r) /\ Alone(r)
        BY <2>3, <3>1
      <4>3. \A j \in mine[r] : j \in DOMAIN entries[Given(r)] /\ entries[Given(r)][j] = r
        BY <4>2 DEF ValuesInv
      <4>4. k \in mine[r] => k \in DOMAIN entriesOf(r) /\ entriesOf(r)[k] = r
        BY <1>6, <4>3
      <4>. QED  BY <3>1, <4>1, <4>4
    <3>2. CASE q # r
      <4>1. Given(q) # Given(r) /\ Given(q) \in Objects
        BY <1>5, <2>3, <3>2, ObjectFacts DEF Alone, Given, ObjectsInv
      <4>2. entries'[Given(q)] = entries[Given(q)] /\ k \in mine[q]
        BY <1>6, <1>7, <2>3, <3>2, <4>1
      <4>. QED  BY <2>3, <4>2 DEF ValuesInv
    <3>. QED  BY <3>1, <3>2
  <2>4. mine' \in [StateRequests -> SUBSET StateKeys] /\ \A q \in StateRequests : ~Started(q)' => mine'[q] = {}
    BY <1>1, <1>2, <1>5, <1>7 DEF ValuesInv
  <2>. QED  BY <1>2, <1>6, <2>1, <2>2, <2>3, <2>4 DEF ValuesInv
<1>. QED  BY <1>3, <1>4, <1>8

LEMMA CallbackPreserves ==
    ASSUME StateInv, NEW r \in StateRequests, callback(r) PROVE StateInv'
<1>1. reqPc[r] = "callback" /\ objOf[r] \in Objects /\ mine[r] \subseteq StateKeys
  <2>1. reqPc[r] = "callback" /\ Started(r)
    BY DEF callback, Started
  <2>. QED  BY <2>1, ObjectFacts DEF StateInv, ObjectsInv, ValuesInv, Given
<1>2. DOMAIN entriesOf(r) \subseteq StateKeys
  BY <1>1 DEF entriesOf, StateInv, ValuesInv
<1>3. ASSUME NEW key \in StateKeys, Begin(r, "Put", key) \/ Begin(r, "Del", key) PROVE StateInv'
  BY <1>1, <1>3, BeginPreserves
<1>4. ASSUME Begin(r, "Clear", "all") PROVE StateInv'
  BY <1>1, <1>4, BeginPreserves
<1>5. ASSUME NEW key \in StateKeys, Put(r, key) PROVE StateInv'
  <2> DEFINE ents == [k \in DOMAIN entriesOf(r) \cup {key} |-> IF k = key THEN r ELSE entriesOf(r)[k]]
             keys == mine[r] \cup {key}
  <2>1. DOMAIN ents \subseteq StateKeys /\ \A k \in DOMAIN ents : ents[k] = r \/ (k \in DOMAIN entriesOf(r) /\ ents[k] = entriesOf(r)[k])
    BY <1>2
  <2>2. End(r, "Put", key, ents, keys) /\ keys \in SUBSET StateKeys
    BY <1>1, <1>5 DEF Put
  <2>3. \A k \in keys : (k \in mine[r] => k \in DOMAIN entriesOf(r) /\ entriesOf(r)[k] = r) => k \in DOMAIN ents /\ ents[k] = r
    OBVIOUS
  <2> HIDE DEF ents, keys
  <2>. QED  BY <1>1, <2>1, <2>2, <2>3, EndPreserves
<1>6. ASSUME NEW key \in StateKeys, StateDel(r, key) PROVE StateInv'
  <2> DEFINE ents == [k \in DOMAIN entriesOf(r) \ {key} |-> entriesOf(r)[k]]
             keys == mine[r] \ {key}
  <2>1. DOMAIN ents \subseteq StateKeys /\ \A k \in DOMAIN ents : ents[k] = r \/ (k \in DOMAIN entriesOf(r) /\ ents[k] = entriesOf(r)[k])
    BY <1>2
  <2>2. End(r, "Del", key, ents, keys) /\ keys \in SUBSET StateKeys
    BY <1>1, <1>6 DEF StateDel
  <2>3. \A k \in keys : (k \in mine[r] => k \in DOMAIN entriesOf(r) /\ entriesOf(r)[k] = r) => k \in DOMAIN ents /\ ents[k] = r
    OBVIOUS
  <2> HIDE DEF ents, keys
  <2>. QED  BY <1>1, <2>1, <2>2, <2>3, EndPreserves
<1>7. ASSUME StateClear(r) PROVE StateInv'
  <2> DEFINE ents == <<>>
             keys == {}
  <2>1. DOMAIN ents = {} /\ keys \in SUBSET StateKeys
    OBVIOUS
  <2>2. End(r, "Clear", "all", ents, keys)
    BY <1>7 DEF StateClear
  <2>3. \A k \in keys : FALSE
    OBVIOUS
  <2> HIDE DEF ents, keys
  <2>. QED  BY <1>1, <2>1, <2>2, <2>3, EndPreserves
<1>. QED  BY <1>3, <1>4, <1>5, <1>6, <1>7 DEF callback

LEMMA ReadsPreserves ==
    ASSUME StateInv, NEW r \in StateRequests, reads(r) PROVE StateInv'
<1>1. reqPc[r] \in {"callback", "handler"} /\ objOf[r] \in Objects /\ mine[r] \in SUBSET StateKeys
  <2>1. reqPc[r] \in {"callback", "handler"} /\ Started(r)
    BY DEF reads, Started
  <2>. QED  BY <2>1, ObjectFacts DEF StateInv, ObjectsInv, ValuesInv, Given
<1>2. ASSUME Begin(r, "Get", "any") PROVE StateInv'
  BY <1>1, <1>2, BeginPreserves
<1>3. ASSUME End(r, "Get", "any", entriesOf(r), mine[r]) PROVE StateInv'
  <2>1. DOMAIN entriesOf(r) \subseteq StateKeys
    BY <1>1 DEF entriesOf, StateInv, ValuesInv
  <2>. QED  BY <1>1, <1>3, <2>1, EndPreserves
<1>. QED  BY <1>2, <1>3 DEF reads

LEMMA ReturnsPreserve ==
    ASSUME StateInv, NEW r \in StateRequests, callbackReturns(r) \/ handlerReturns(r) PROVE StateInv'
<1>1. PICK pc \in {"next", "handler", "done", "refused"} :
          reqPc' = [reqPc EXCEPT ![r] = pc] /\ (pc = "next" => mwOf[r] < NumMWs)
  BY DEF callbackReturns, handlerReturns
<1>2. Started(r) /\ access[r] = NoAccess /\ UNCHANGED <<carried, objOf, entries, mwOf, access, mine, raced>>
  BY DEF callbackReturns, handlerReturns, Started
<1>. QED  BY <1>1, <1>2, PcPreserves

LEMMA StatePreserves == StateInv /\ [RpcStateNext]_rpcStateVars => StateInv'
<1> SUFFICES ASSUME StateInv, [RpcStateNext]_rpcStateVars PROVE StateInv'
    OBVIOUS
<1>1. CASE UNCHANGED rpcStateVars
  BY <1>1 DEF rpcStateVars, StateInv, ObjectsInv, AccessInv, ValuesInv, RaceNeedsSharing, Alone, Given, Started
<1>. QED  BY <1>1, IntoContextPreserves, HandlePreserves, CallbackPreserves, ReadsPreserves, ReturnsPreserve
          DEF RpcStateNext

LEMMA StateMeans == StateInv => RpcStateTypeOK /\ OwnPutSeen /\ RaceNeedsSharing
<1> SUFFICES ASSUME StateInv PROVE RpcStateTypeOK /\ OwnPutSeen /\ RaceNeedsSharing
    OBVIOUS
<1> USE DEF StateInv
<1>1. RpcStateTypeOK
  BY DEF RpcStateTypeOK, ObjectsInv, AccessInv, ValuesInv
<1>2. ASSUME NEW r \in StateRequests, Started(r), Alone(r)
      PROVE  (\A k \in mine[r] : Get(r, k) = r) /\ \A k \in StateKeys : Get(r, k) \in {r, Caller, "missing"}
  <2>1. entriesOf(r) = entries[Given(r)] /\ Given(r) \in Objects
    BY <1>2, ObjectFacts DEF entriesOf, ObjectsInv, Given
  <2>2. \A k \in mine[r] : Get(r, k) = r
    BY <1>2, <2>1 DEF ValuesInv, Get
  <2>3. ASSUME NEW k \in DOMAIN entries[Given(r)] PROVE entries[Given(r)][k] \in {r, Caller}
    BY <1>2, <2>1, <2>3 DEF ValuesInv, Alone
  <2>. QED  BY <2>1, <2>2, <2>3 DEF Get
<1>. QED  BY <1>1, <1>2 DEF OwnPutSeen, AccessInv

\* MWState (rpc/mw_state.go): along its chain a request that shares its State with no other
\* reads what its own callbacks have put and nothing of another's, and only requests that
\* share a State race, for any requests, keys and number of middlewares.
THEOREM StateOwnPutSeen == RpcStateSpec => [](RpcStateTypeOK /\ OwnPutSeen /\ RaceNeedsSharing)
BY StateStarts, StatePreserves, StateMeans, PTL DEF RpcStateSpec

-----------------------------------------------------------------------------
(* HttpSession: of requests that do not overlap one at a time can save, so  *)
(* what the last one saved is in the browser or in the store.               *)

\* A request as a record, well typed: what is written was loaded and changed before.
Cookies == [id : SessionRequests \cup {NoId}, vals : Values]
Records == [pc : {"new", "open", "done"}, cookie : Cookies, loaded : BOOLEAN, vals : Values,
            written : BOOLEAN, changes : 0 .. MaxChanges, headerSent : BOOLEAN]
ReqOK(q) ==
    /\ q \in Records
    /\ q.written => q.loaded /\ q.changes > 0
    /\ q.pc = "new" => ~q.loaded

RequestsInv ==
    /\ req = [r \in SessionRequests |-> req[r]]
    /\ \A r \in SessionRequests : ReqOK(req[r])
    /\ jar \in Cookies /\ redisVals \in [SessionRequests -> Values]
    /\ sessStore \in {"cookie", "redis"}
    /\ saved \subseteq Values /\ saved # {}

\* What the next request will load.
Stored == IF sessStore = "cookie" THEN jar.vals ELSE IF jar.id = NoId THEN NoValues ELSE redisVals[jar.id]

\* While requests come one after the other and no cookie is lost, the open request holds
\* the browser's cookie and what is stored was saved.
SerialInv ==
    (~overlapped /\ ~tooLate) =>
        /\ \A r, q \in Open : r = q
        /\ \A r \in Open : req[r].cookie = jar
        /\ Stored \in saved

SessInv == RequestsInv /\ SerialInv /\ NextLoadSeesSaved

LEMMA NoValuesOK == NoValues \in Values
<1>1. NoValues \in [{} -> SessionRequests]
  BY DEF NoValues
<1>. QED  BY <1>1 DEF Values

LEMMA ValuesElem == ASSUME NEW v PROVE v \in Values <=> \E K \in SUBSET SessionKeys : v \in [K -> SessionRequests]
BY DEF Values

LEMMA WithKeyOK ==
    ASSUME NEW vals \in Values, NEW key \in SessionKeys, NEW r \in SessionRequests
    PROVE  WithKey(vals, key, r) \in Values
<1>1. PICK K \in SUBSET SessionKeys : vals \in [K -> SessionRequests]
  BY ValuesElem
<1>2. WithKey(vals, key, r) \in [K \cup {key} -> SessionRequests]
  BY <1>1 DEF WithKey
<1>. QED  BY <1>1, <1>2, ValuesElem

LEMMA WithoutKeyOK ==
    ASSUME NEW vals \in Values, NEW key
    PROVE  [k \in DOMAIN vals \ {key} |-> vals[k]] \in Values
<1>1. PICK K \in SUBSET SessionKeys : vals \in [K -> SessionRequests]
  BY ValuesElem
<1>2. [k \in DOMAIN vals \ {key} |-> vals[k]] \in [K \ {key} -> SessionRequests]
  BY <1>1
<1>. QED  BY <1>1, <1>2, ValuesElem

LEMMA SessStarts == SessInit => SessInv
<1> SUFFICES ASSUME SessInit PROVE SessInv
    OBVIOUS
<1>1. NoCookie \in Cookies /\ jar = NoCookie
  BY NoValuesOK DEF Cookies, NoCookie, SessInit
<1>2. ReqOK(NewRequest) /\ NewRequest.pc = "new"
  BY <1>1, NoValuesOK, SessionAssumption DEF ReqOK, Records, NewRequest
<1>3. \A r \in SessionRequests : req[r] = NewRequest
  BY DEF SessInit
<1>4. RequestsInv
  BY <1>1, <1>2, <1>3, NoValuesOK, SessionAssumption DEF RequestsInv, SessInit
<1>5. Open = {} /\ Stored \in saved
  BY <1>1, <1>2, <1>3 DEF Open, Stored, SessInit, NoCookie
<1>. QED  BY <1>4, <1>5 DEF SessInv, SerialInv, NextLoadSeesSaved

LEMMA LoadedOK ==
    ASSUME SessInv, NEW r \in Open
    PROVE  /\ r \in SessionRequests /\ req[r].pc = "open" /\ ReqOK(req[r])
           /\ ReqOK(Loaded(r)) /\ Loaded(r).loaded /\ Loaded(r).vals \in Values
           /\ Loaded(r).pc = "open" /\ Loaded(r).cookie = req[r].cookie /\ Loaded(r).changes = req[r].changes
           /\ Loaded(r).headerSent = req[r].headerSent
           /\ (~req[r].loaded /\ ~overlapped /\ ~tooLate) => Loaded(r).vals = Stored
<1> DEFINE q == req[r]
<1> DEFINE vals == IF q.loaded THEN q.vals
                   ELSE IF sessStore = "cookie" THEN q.cookie.vals
                   ELSE IF q.cookie.id = NoId THEN NoValues ELSE redisVals[q.cookie.id]
<1>1. r \in SessionRequests /\ q.pc = "open" /\ ReqOK(q)
  BY DEF Open, SessInv, RequestsInv
<1>2. vals \in Values
  BY <1>1, NoValuesOK DEF ReqOK, Records, Cookies, SessInv, RequestsInv
<1>3. Loaded(r) = [q EXCEPT !.loaded = TRUE, !.vals = vals]
  BY DEF Loaded
<1>4. (~q.loaded /\ ~overlapped /\ ~tooLate) => vals = Stored
  BY DEF SessInv, SerialInv, Stored
<1> HIDE DEF vals
<1>5. Loaded(r) \in Records
  BY <1>1, <1>2, <1>3 DEF ReqOK, Records
<1>6. /\ Loaded(r).pc = q.pc /\ Loaded(r).cookie = q.cookie /\ Loaded(r).loaded = TRUE /\ Loaded(r).vals = vals
      /\ Loaded(r).written = q.written /\ Loaded(r).changes = q.changes /\ Loaded(r).headerSent = q.headerSent
  BY <1>1, <1>2, <1>3 DEF ReqOK, Records
<1>7. ReqOK(Loaded(r))
  BY <1>1, <1>2, <1>5, <1>6 DEF ReqOK
<1>. QED  BY <1>1, <1>2, <1>4, <1>6, <1>7

LEMMA ChangedOK ==
    ASSUME NEW q, ReqOK(q), q.pc = "open", q.loaded, NEW vals \in Values, q.changes < MaxChanges
    PROVE  /\ ReqOK(Changed(q, vals)) /\ Changed(q, vals).pc = "open" /\ Changed(q, vals).loaded
           /\ Changed(q, vals).changes > 0 /\ Changed(q, vals).cookie = q.cookie /\ Changed(q, vals).vals = vals
<1> DEFINE c == Changed(q, vals)
<1>1. q.changes \in 0 .. MaxChanges /\ MaxChanges \in Nat /\ q \in Records
  BY SessionAssumption DEF ReqOK, Records
<1>3. q.changes + 1 \in 0 .. MaxChanges /\ q.changes + 1 > 0
  BY <1>1
<1>2. /\ c.pc = q.pc /\ c.cookie = q.cookie /\ c.loaded = q.loaded /\ c.vals = vals
      /\ c.written = TRUE /\ c.changes = q.changes + 1 /\ c \in Records
  BY <1>1, <1>3 DEF Changed, Records
<1>4. c.changes > 0
  BY <1>2, <1>3
<1> HIDE DEF c
<1>6. ReqOK(c)
  BY <1>2, <1>4 DEF ReqOK
<1>. QED  BY <1>2, <1>4, <1>6 DEF c

LEMMA KeptOK ==
    ASSUME NEW q, ReqOK(q), q.pc \in {"open", "done"}
    PROVE  ReqOK(Kept(q)) /\ Kept(q).pc = q.pc /\ (q.pc = "open" => Kept(q) = q)
<1>1. CASE q.pc = "open"
  BY <1>1 DEF Kept
<1>2. CASE q.pc = "done"
  <2>1. Kept(q) = [pc |-> "done", cookie |-> NoCookie, loaded |-> FALSE, vals |-> NoValues,
                   written |-> FALSE, changes |-> 0, headerSent |-> FALSE]
    BY <1>2 DEF Kept, NewRequest
  <2>2. NoCookie \in Cookies
    BY NoValuesOK DEF Cookies, NoCookie
  <2>3. ReqOK(Kept(q))
    BY <2>1, <2>2, NoValuesOK, SessionAssumption DEF ReqOK, Records
  <2>. QED  BY <2>1, <2>3, <1>2
<1>. QED  BY <1>1, <1>2

\* A request is replaced: what holds of the others stays.
LEMMA ReplaceReq ==
    ASSUME SessInv, NEW r \in Open, NEW q, ReqOK(q), q.pc \in {"open", "done"}, req' = [req EXCEPT ![r] = q]
    PROVE  /\ req' = [p \in SessionRequests |-> req'[p]]
           /\ \A p \in SessionRequests : ReqOK(req'[p]) /\ req'[p] = IF p = r THEN q ELSE req[p]
           /\ r \in SessionRequests
           /\ Open' \subseteq Open
<1>1. r \in SessionRequests
  BY DEF Open
<1>2. \A p \in SessionRequests : req'[p] = IF p = r THEN q ELSE req[p]
  BY <1>1 DEF SessInv, RequestsInv
<1>3. \A p \in SessionRequests : ReqOK(req'[p])
  BY <1>2 DEF SessInv, RequestsInv
<1>4. req' = [p \in SessionRequests |-> req'[p]]
  BY DEF SessInv, RequestsInv
<1>5. Open' \subseteq Open
  BY <1>2 DEF Open
<1>. QED  BY <1>1, <1>2, <1>3, <1>4, <1>5

\* A step that changes a request and neither the stores nor what was saved.
LEMMA StepKeepsStore ==
    ASSUME SessInv, NEW r \in Open, NEW q, ReqOK(q), q.pc \in {"open", "done"}, req' = [req EXCEPT ![r] = q],
           UNCHANGED <<sessStore, autoSave, jar, redisVals, saved, overlapped, tooLate>>,
           q.pc = "open" => q.cookie = req[r].cookie,
           (q.pc = "open" /\ q.loaded /\ q.changes = 0 /\ ~overlapped /\ ~tooLate) => q.vals \in saved
    PROVE  SessInv'
<1>1. /\ req' = [p \in SessionRequests |-> req'[p]]
      /\ \A p \in SessionRequests : ReqOK(req'[p]) /\ req'[p] = IF p = r THEN q ELSE req[p]
      /\ r \in SessionRequests
      /\ Open' \subseteq Open
  BY ReplaceReq
<1>2. RequestsInv'
  BY <1>1 DEF SessInv, RequestsInv
<1>3. Stored' = Stored
  BY DEF Stored
<1>4. Open' \subseteq SessionRequests /\ (r \in Open' => q.pc = "open")
  BY <1>1 DEF Open
<1>5. SerialInv'
  BY <1>1, <1>3, <1>4 DEF SessInv, SerialInv
<1>6. NextLoadSeesSaved'
  BY <1>1, <1>4 DEF SessInv, NextLoadSeesSaved
<1>. QED  BY <1>2, <1>5, <1>6 DEF SessInv

LEMMA SavedPreserves ==
    ASSUME SessInv, NEW r \in Open, NEW q, ReqOK(q), q.pc \in {"open", "done"}, q.loaded, q.changes > 0,
           q.cookie = req[r].cookie, Saved(r, q)
    PROVE  SessInv'
<1> DEFINE id == IF q.cookie.id = NoId THEN r ELSE q.cookie.id
<1> DEFINE cookie == IF sessStore = "cookie" THEN [id |-> NoId, vals |-> q.vals] ELSE [id |-> id, vals |-> NoValues]
<1>1. /\ r \in SessionRequests /\ id \in SessionRequests /\ id # NoId /\ q.vals \in Values /\ cookie \in Cookies
      /\ cookie.id = (IF sessStore = "cookie" THEN NoId ELSE id)
      /\ sessStore = "cookie" => cookie.vals = q.vals
  <2>1. r \in SessionRequests /\ q.vals \in Values /\ q.cookie \in Cookies
    BY DEF Open, ReqOK, Records
  <2>2. NoId \notin SessionRequests
    BY SessionAssumption DEF NoId, SessionRequests
  <2>3. id \in SessionRequests /\ id # NoId
    BY <2>1, <2>2 DEF Cookies
  <2> HIDE DEF id
  <2>. QED  BY <2>1, <2>3, NoValuesOK DEF Cookies
<1>2. sessStore' = sessStore /\ autoSave' = autoSave /\ overlapped' = overlapped
  BY DEF Saved
<1>3. sessStore \in {"cookie", "redis"} /\ redisVals \in [SessionRequests -> Values] /\ jar \in Cookies
  BY DEF SessInv, RequestsInv
<1>4. ASSUME save(r, q) PROVE SessInv'
  <2> DEFINE w == [q EXCEPT !.written = FALSE, !.cookie = cookie]
  <2>1. /\ req' = [req EXCEPT ![r] = Kept(w)] /\ saved' = {q.vals}
        /\ redisVals' = IF sessStore = "redis" THEN [redisVals EXCEPT ![id] = q.vals] ELSE redisVals
        /\ jar' = IF q.headerSent THEN jar ELSE cookie
        /\ tooLate' = (tooLate \/ (q.headerSent /\ cookie # jar))
    BY <1>4 DEF save
  <2>2. ReqOK(w) /\ w.pc = q.pc /\ w.cookie = cookie /\ w.changes = q.changes
    <3> HIDE DEF cookie
    <3>1. /\ w.pc = q.pc /\ w.cookie = cookie /\ w.loaded = q.loaded /\ w.vals = q.vals
          /\ w.written = FALSE /\ w.changes = q.changes /\ w \in Records
      BY <1>1 DEF ReqOK, Records
    <3> HIDE DEF w
    <3>. QED  BY <3>1 DEF ReqOK
  <2> HIDE DEF w, cookie, id
  <2>3. ReqOK(Kept(w)) /\ Kept(w).pc = q.pc /\ (q.pc = "open" => Kept(w) = w)
    BY <2>2, KeptOK
  <2>4. /\ req' = [p \in SessionRequests |-> req'[p]]
        /\ \A p \in SessionRequests : ReqOK(req'[p]) /\ req'[p] = IF p = r THEN Kept(w) ELSE req[p]
        /\ Open' \subseteq Open
    BY <2>1, <2>3, ReplaceReq
  <2>5. Open' \subseteq SessionRequests /\ (r \in Open' => q.pc = "open" /\ req'[r] = w)
    BY <2>3, <2>4, <1>1 DEF Open
  <2>6. (~tooLate' => ~tooLate /\ jar' = cookie) /\ jar' \in Cookies
    BY <2>1, <1>1, <1>3
  <2>7. redisVals' \in [SessionRequests -> Values] /\ (sessStore = "redis" => redisVals'[id] = q.vals)
    BY <2>1, <1>1, <1>3
  <2>8. RequestsInv'
    BY <2>1, <2>4, <2>6, <2>7, <1>1, <1>2, <1>3 DEF RequestsInv
  <2>9. ~tooLate' => Stored' \in saved'
    BY <2>1, <2>6, <2>7, <1>1, <1>2, <1>3 DEF Stored
  <2>10. ASSUME ~overlapped', ~tooLate' PROVE \A p \in Open' : p = r
    BY <2>10, <2>4, <2>6, <1>2 DEF SessInv, SerialInv
  <2>11. SerialInv'
    BY <2>2, <2>5, <2>6, <2>9, <2>10 DEF SerialInv
  <2>12. NextLoadSeesSaved'
    <3> SUFFICES ASSUME NEW p \in Open', ~overlapped', ~tooLate', req'[p].changes = 0 PROVE FALSE
      BY DEF NextLoadSeesSaved
    <3>1. p = r /\ req'[p] = w
      BY <2>5, <2>10
    <3>2. q.changes \in Nat
      BY DEF ReqOK, Records
    <3>. QED  BY <3>1, <3>2, <2>2
  <2>. QED  BY <2>8, <2>11, <2>12 DEF SessInv
<1>5. ASSUME saveFails(r, q) PROVE SessInv'
  <2>1. req' = [req EXCEPT ![r] = Kept(q)] /\ jar' = jar /\ tooLate' = tooLate
    BY <1>5 DEF saveFails
  <2>2. \/ redisVals' = redisVals /\ saved' = saved
        \/ redisVals' = [redisVals EXCEPT ![id] = q.vals] /\ saved' = saved \cup {q.vals}
    BY <1>5 DEF saveFails
  <2> HIDE DEF id
  <2>3. ReqOK(Kept(q)) /\ Kept(q).pc = q.pc /\ (q.pc = "open" => Kept(q) = q)
    BY KeptOK
  <2>4. /\ req' = [p \in SessionRequests |-> req'[p]]
        /\ \A p \in SessionRequests : ReqOK(req'[p]) /\ req'[p] = IF p = r THEN Kept(q) ELSE req[p]
        /\ Open' \subseteq Open
    BY <2>1, <2>3, ReplaceReq
  <2>5. Open' \subseteq SessionRequests /\ (r \in Open' => q.pc = "open" /\ req'[r] = q)
    BY <2>3, <2>4, <1>1 DEF Open
  <2>6. redisVals' \in [SessionRequests -> Values] /\ \A i \in SessionRequests : redisVals'[i] = redisVals[i] \/ redisVals'[i] \in saved'
    BY <2>2, <1>1, <1>3
  <2>7. saved \subseteq saved' /\ saved' \subseteq Values
    BY <2>2, <1>1 DEF SessInv, RequestsInv
  <2>8. RequestsInv'
    BY <2>1, <2>4, <2>6, <2>7, <1>2, <1>3 DEF SessInv, RequestsInv
  <2>9. Stored \in saved => Stored' \in saved'
    BY <2>1, <2>6, <2>7, <1>2, <1>3 DEF Stored, Cookies
  <2>10. SerialInv'
    BY <2>1, <2>4, <2>5, <2>9, <1>2 DEF SessInv, SerialInv
  <2>11. NextLoadSeesSaved'
    <3> SUFFICES ASSUME NEW p \in Open', ~overlapped', ~tooLate', req'[p].loaded, req'[p].changes = 0 PROVE req'[p].vals \in saved'
      BY DEF NextLoadSeesSaved
    <3>1. q.changes \in Nat
      BY DEF ReqOK, Records
    <3>2. p # r
      BY <2>5, <3>1
    <3>3. req'[p] = req[p] /\ p \in Open
      BY <3>2, <2>4, <2>5
    <3>. QED  BY <3>3, <2>1, <2>7, <1>2 DEF SessInv, NextLoadSeesSaved
  <2>. QED  BY <2>8, <2>10, <2>11 DEF SessInv
<1>. QED  BY <1>4, <1>5 DEF Saved

LEMMA ArrivePreserves == ASSUME SessInv, NEW r \in SessionRequests, Arrive(r) PROVE SessInv'
<1>1. /\ req[r].pc = "new" /\ req' = [req EXCEPT ![r].pc = "open", ![r].cookie = jar]
      /\ overlapped' = (overlapped \/ Open # {})
      /\ UNCHANGED <<sessStore, autoSave, jar, redisVals, saved, tooLate>>
  BY DEF Arrive
<1> DEFINE q == [req[r] EXCEPT !.pc = "open", !.cookie = jar]
<1>2. ReqOK(req[r]) /\ jar \in Cookies /\ ~req[r].loaded
  BY <1>1 DEF SessInv, RequestsInv, ReqOK
<1>4. req' = [req EXCEPT ![r] = q]
  BY <1>1 DEF SessInv, RequestsInv
<1>5. /\ q.pc = "open" /\ q.cookie = jar /\ q.loaded = req[r].loaded /\ q.vals = req[r].vals
      /\ q.written = req[r].written /\ q.changes = req[r].changes /\ q \in Records
  BY <1>2 DEF ReqOK, Records
<1> HIDE DEF q
<1>6. ReqOK(q)
  BY <1>2, <1>5 DEF ReqOK
<1>7. \A p \in SessionRequests : req'[p] = IF p = r THEN q ELSE req[p]
  BY <1>4 DEF SessInv, RequestsInv
<1>8. RequestsInv'
  <2>1. req' = [p \in SessionRequests |-> req'[p]]
    BY <1>4 DEF SessInv, RequestsInv
  <2>. QED  BY <1>1, <1>6, <1>7, <2>1 DEF SessInv, RequestsInv
<1>9. Open' = Open \cup {r} /\ Stored' = Stored
  BY <1>1, <1>5, <1>7 DEF Open, Stored
<1>10. ~overlapped' => ~overlapped /\ Open = {}
  BY <1>1
<1>11. SerialInv'
  BY <1>1, <1>5, <1>7, <1>9, <1>10 DEF SessInv, SerialInv
<1>12. NextLoadSeesSaved'
  BY <1>2, <1>5, <1>7, <1>9, <1>10 DEF NextLoadSeesSaved
<1>. QED  BY <1>8, <1>11, <1>12 DEF SessInv

LEMMA SessPreserves == SessInv /\ [SessNext]_sessVars => SessInv'
<1> SUFFICES ASSUME SessInv, [SessNext]_sessVars PROVE SessInv'
    OBVIOUS
<1>1. ASSUME NEW r \in SessionRequests, GetSession(r) PROVE SessInv'
  <2>1. /\ r \in Open /\ ~req[r].loaded /\ req' = [req EXCEPT ![r] = Loaded(r)]
        /\ UNCHANGED <<sessStore, autoSave, jar, redisVals, saved, overlapped, tooLate>>
    BY <1>1 DEF GetSession
  <2>2. (~overlapped /\ ~tooLate) => Stored \in saved
    BY DEF SessInv, SerialInv
  <2>. QED  BY <2>1, <2>2, LoadedOK, StepKeepsStore
<1>2. ASSUME NEW r \in SessionRequests, Respond(r) PROVE SessInv'
  <2> DEFINE q == [req[r] EXCEPT !.headerSent = TRUE]
  <2>1. /\ r \in Open /\ req' = [req EXCEPT ![r] = q]
        /\ UNCHANGED <<sessStore, autoSave, jar, redisVals, saved, overlapped, tooLate>>
    BY <1>2 DEF Respond, SessInv, RequestsInv
  <2>2. ReqOK(req[r]) /\ req[r].pc = "open"
    BY <2>1, LoadedOK
  <2>4. /\ q.pc = "open" /\ q.cookie = req[r].cookie /\ q.loaded = req[r].loaded /\ q.vals = req[r].vals
        /\ q.written = req[r].written /\ q.changes = req[r].changes /\ q \in Records
    BY <2>2 DEF ReqOK, Records
  <2> HIDE DEF q
  <2>5. ReqOK(q)
    BY <2>2, <2>4 DEF ReqOK
  <2>. QED  BY <2>1, <2>4, <2>5, StepKeepsStore DEF SessInv, NextLoadSeesSaved
<1>3. ASSUME NEW r \in SessionRequests, NEW aborted \in BOOLEAN, MWSaveSession(r, aborted) PROVE SessInv'
  <2> DEFINE q == [req[r] EXCEPT !.pc = "done"]
  <2>1. r \in Open /\ ReqOK(req[r]) /\ req[r].pc = "open"
    BY <1>3, LoadedOK DEF MWSaveSession
  <2>3. \/ q.written /\ Saved(r, q)
        \/ req' = [req EXCEPT ![r] = Kept(q)] /\ UNCHANGED <<sessStore, autoSave, jar, redisVals, saved, overlapped, tooLate>>
    BY <1>3 DEF MWSaveSession
  <2>4. /\ q.pc = "done" /\ q.cookie = req[r].cookie /\ q.loaded = req[r].loaded /\ q.vals = req[r].vals
        /\ q.written = req[r].written /\ q.changes = req[r].changes /\ q \in Records
    BY <2>1 DEF ReqOK, Records
  <2> HIDE DEF q
  <2>5. ReqOK(q)
    BY <2>1, <2>4 DEF ReqOK
  <2>6. ReqOK(Kept(q)) /\ Kept(q).pc = "done"
    BY <2>4, <2>5, KeptOK
  <2>7. ASSUME q.written, Saved(r, q) PROVE SessInv'
    <3>1. q.loaded /\ q.changes > 0
      BY <2>5, <2>7 DEF ReqOK
    <3>. QED  BY <3>1, <2>1, <2>4, <2>5, <2>7, SavedPreserves
  <2>8. ASSUME req' = [req EXCEPT ![r] = Kept(q)], UNCHANGED <<sessStore, autoSave, jar, redisVals, saved, overlapped, tooLate>>
        PROVE  SessInv'
    BY <2>1, <2>6, <2>8, StepKeepsStore
  <2>. QED  BY <2>3, <2>7, <2>8
<1>4. ASSUME NEW r \in SessionRequests, NEW vals \in Values, r \in Open, req[r].changes < MaxChanges,
             Saved(r, Changed(Loaded(r), vals))
      PROVE  SessInv'
  <2> DEFINE q == Changed(Loaded(r), vals)
  <2>1. ReqOK(Loaded(r)) /\ Loaded(r).pc = "open" /\ Loaded(r).loaded /\ Loaded(r).changes < MaxChanges
        /\ Loaded(r).cookie = req[r].cookie
    BY <1>4, LoadedOK
  <2>2. ReqOK(q) /\ q.pc = "open" /\ q.loaded /\ q.changes > 0 /\ q.cookie = req[r].cookie
    BY <2>1, ChangedOK
  <2> HIDE DEF q
  <2>. QED  BY <1>4, <2>2, SavedPreserves DEF q
<1>5. ASSUME NEW r \in SessionRequests, req[r].changes < MaxChanges, SessClear(r) PROVE SessInv'
  BY <1>4, <1>5, NoValuesOK DEF SessClear
<1>6. ASSUME NEW r \in SessionRequests, req[r].changes < MaxChanges, NEW key \in SessionKeys, SessSet(r, key) PROVE SessInv'
  <2>1. r \in Open /\ Saved(r, Changed(Loaded(r), WithKey(Loaded(r).vals, key, r)))
    BY <1>6 DEF SessSet
  <2>2. WithKey(Loaded(r).vals, key, r) \in Values
    BY <2>1, LoadedOK, WithKeyOK
  <2>. QED  BY <1>4, <1>6, <2>1, <2>2
<1>7. ASSUME NEW r \in SessionRequests, req[r].changes < MaxChanges, NEW key \in SessionKeys, SessDel(r, key) PROVE SessInv'
  <2> DEFINE vals == [k \in DOMAIN Loaded(r).vals \ {key} |-> Loaded(r).vals[k]]
  <2>1. r \in Open /\ Saved(r, Changed(Loaded(r), vals))
    BY <1>7 DEF SessDel
  <2>2. vals \in Values
    BY <2>1, LoadedOK, WithoutKeyOK
  <2> HIDE DEF vals
  <2>. QED  BY <1>4, <1>7, <2>1, <2>2
<1>8. ASSUME NEW r \in SessionRequests, req[r].changes < MaxChanges, NEW key \in SessionKeys, gsSet(r, key) PROVE SessInv'
  <2> DEFINE q == Changed(Loaded(r), WithKey(Loaded(r).vals, key, r))
  <2>1. /\ r \in Open /\ req' = [req EXCEPT ![r] = q]
        /\ UNCHANGED <<sessStore, autoSave, jar, redisVals, saved, overlapped, tooLate>>
    BY <1>8 DEF gsSet
  <2>2. WithKey(Loaded(r).vals, key, r) \in Values
    BY <2>1, LoadedOK, WithKeyOK
  <2>3. ReqOK(Loaded(r)) /\ Loaded(r).pc = "open" /\ Loaded(r).loaded /\ Loaded(r).changes < MaxChanges
        /\ Loaded(r).cookie = req[r].cookie
    BY <1>8, <2>1, LoadedOK
  <2>4. ReqOK(q) /\ q.pc = "open" /\ q.loaded /\ q.changes > 0 /\ q.cookie = req[r].cookie
    BY <2>2, <2>3, ChangedOK
  <2>5. q.changes \in Nat
    BY <2>4 DEF ReqOK, Records
  <2> HIDE DEF q
  <2>6. q.changes # 0
    BY <2>4, <2>5
  <2>. QED  BY <2>1, <2>4, <2>6, StepKeepsStore
<1>9. CASE UNCHANGED sessVars
  BY <1>9 DEF sessVars, SessInv, RequestsInv, SerialInv, NextLoadSeesSaved, Open, Stored
<1>. QED  BY <1>1, <1>2, <1>3, <1>5, <1>6, <1>7, <1>8, <1>9, ArrivePreserves DEF SessNext

LEMMA SessMeans == SessInv => SessTypeOK /\ NextLoadSeesSaved
BY DEF SessInv, RequestsInv, ReqOK, Records, Cookies, SessTypeOK

\* The session middleware (http/mw_session.go): the next request loads what was saved last,
\* for any number of requests that do not overlap, with either store.
THEOREM SessionSeesSaved == SessSpec => [](SessTypeOK /\ NextLoadSeesSaved)
BY SessStarts, SessPreserves, SessMeans, PTL DEF SessSpec

-----------------------------------------------------------------------------
(* MWAuth: the client appends its token  to those of the context and the    *)
(* server takes the last, so what is checked is what this client has made.  *)

LastToken == call.md[Len(call.md)]

\* On its way the call carries the client's own token last.
CarriedInv ==
    stage = "wire" =>
        /\ value = NoValue
        /\ ~client.disabled =>
              /\ Len(call.md) \in Nat \ {0}
              /\ LastToken = OnNewToken(client, call.method, sentAt)
              /\ ~NewTokenFails(client, call.method)

AuthInv ==
    /\ AuthTypeOK /\ {skew, sentAt, checkedAt} \subseteq Int
    /\ stage = "client" => value = NoValue /\ call = [method |-> call.method, md |-> call.md]
                           /\ call.md \in Seq({call.md[i] : i \in DOMAIN call.md})
    /\ CarriedInv
    /\ AlikeIsAccepted /\ AcceptedIsRecent /\ ValueIsCallers

LEMMA AuthStarts == AuthInit => AuthInv
<1> SUFFICES ASSUME AuthInit PROVE AuthInv
    OBVIOUS
<1>1. AuthTypeOK
  BY AuthAssumption DEF AuthInit, AuthTypeOK
<1>2. skew \in Int /\ sentAt \in Int /\ checkedAt \in Int
  BY AuthAssumption DEF AuthInit
<1>3. call = [method |-> call.method, md |-> call.md] /\ call.md \in Seq({call.md[i] : i \in DOMAIN call.md})
  <2>1. PICK t : call.md = <<>> \/ call.md = <<t>>
    BY DEF AuthInit
  <2>2. call = [method |-> call.method, md |-> call.md]
    BY DEF AuthInit
  <2>3. ASSUME NEW S, call.md \in Seq(S) PROVE call.md \in Seq({call.md[i] : i \in DOMAIN call.md})
    <3>1. Len(call.md) \in Nat /\ DOMAIN call.md = 1 .. Len(call.md) /\ call.md = [i \in 1 .. Len(call.md) |-> call.md[i]]
      BY <2>3
    <3>2. \A i \in 1 .. Len(call.md) : call.md[i] \in {call.md[j] : j \in DOMAIN call.md}
      BY <3>1
    <3>. QED  BY <3>1, <3>2, IsASeq
  <2>4. call.md \in Seq({t})
    <3>1. <<>> \in Seq({t}) /\ <<t>> \in Seq({t})
      OBVIOUS
    <3>. QED  BY <2>1, <3>1, Zenon
  <2>. QED  BY <2>2, <2>3, <2>4
<1>4. stage = "client" /\ value = NoValue /\ code = "OK"
  BY DEF AuthInit
<1>. QED  BY <1>1, <1>2, <1>3, <1>4 DEF AuthInv, CarriedInv, AlikeIsAccepted, AcceptedIsRecent, ValueIsCallers, Checked

\* The date of a token is at most a second, less a tick, before its making.
LEMMA UnixFacts == ASSUME NEW t \in Int PROVE Unix(t) \in Int /\ Unix(t) <= t /\ t - Unix(t) <= Second - 1
<1>1. t % Second \in 0 .. Second - 1
  BY AuthAssumption
<1>. QED  BY <1>1, AuthAssumption DEF Unix

LEMMA ClientPreserves == ASSUME AuthInv, ClientInterceptor PROVE AuthInv'
<1>1. /\ stage = "client" /\ code = "OK" /\ value = NoValue /\ appendTokenToOutgoingContext
      /\ sentAt' = clientClock /\ clientClock \in Int
      /\ client' = client /\ server' = server /\ skew' = skew /\ checkedAt' = checkedAt /\ clientClock' = clientClock
  BY AuthAssumption DEF ClientInterceptor, AuthInv, AuthTypeOK
<1>2. CASE client.disabled
  <2>1. stage' = "wire" /\ call' = call /\ code' = code /\ value' = value
    BY <1>1, <1>2 DEF appendTokenToOutgoingContext
  <2>. QED  BY <1>1, <1>2, <2>1 DEF AuthInv, AuthTypeOK, CarriedInv, AlikeIsAccepted, AcceptedIsRecent, ValueIsCallers, Checked
<1>3. CASE ~client.disabled /\ NewTokenFails(client, call.method)
  <2>1. stage' = "refused" /\ code' = "Internal" /\ call' = call /\ value' = value
    BY <1>1, <1>3 DEF appendTokenToOutgoingContext, Refuse
  <2>. QED  BY <1>1, <2>1 DEF AuthInv, AuthTypeOK, CarriedInv, AlikeIsAccepted, AcceptedIsRecent, ValueIsCallers, Checked
<1>4. CASE ~client.disabled /\ ~NewTokenFails(client, call.method)
  <2> DEFINE t == OnNewToken(client, call.method, clientClock)
  <2>1. stage' = "wire" /\ code' = code /\ value' = value /\ call' = [call EXCEPT !.md = Append(@, t)]
    BY <1>1, <1>4 DEF appendTokenToOutgoingContext
  <2>2. call'.method = call.method /\ call'.md = Append(call.md, t)
    BY <2>1, <1>1 DEF AuthInv
  <2>3. Len(call'.md) \in Nat \ {0} /\ call'.md[Len(call'.md)] = t
    <3>1. PICK S : call.md \in Seq(S)
      BY <1>1 DEF AuthInv
    <3>. QED  BY <2>2, <3>1
  <2>4. CarriedInv'
    BY <1>1, <1>4, <2>1, <2>2, <2>3 DEF CarriedInv, LastToken, OnNewToken, NewTokenFails, ignore
  <2>. QED  BY <1>1, <2>1, <2>4 DEF AuthInv, AuthTypeOK, AlikeIsAccepted, AcceptedIsRecent, ValueIsCallers, Checked
<1>. QED  BY <1>2, <1>3, <1>4

LEMMA ServerPreserves == ASSUME AuthInv, ServerInterceptor PROVE AuthInv'
<1> DEFINE serverNow == clientClock + skew
<1>1. /\ stage = "wire" /\ code = "OK" /\ value = NoValue /\ checkTokenFromIncomingContext
      /\ checkedAt' = serverNow /\ serverNow \in Int /\ sentAt' = sentAt /\ sentAt \in Int
      /\ client' = client /\ server' = server /\ skew' = skew /\ clientClock' = clientClock /\ call' = call
  BY AuthAssumption DEF ServerInterceptor, AuthInv, AuthTypeOK, CarriedInv, checkTokenFromIncomingContext, Refuse
<1> DEFINE t == LastToken
<1> DEFINE own == OnNewToken(client, call.method, sentAt)
<1>2. ~client.disabled => Len(call.md) \in Nat \ {0} /\ t = own /\ ~NewTokenFails(client, call.method)
  BY <1>1 DEF AuthInv, CarriedInv
<1>3. ~client.disabled => HasMDVal(call.md, -1) /\ GetMDVal(call.md, -1) = own
  BY <1>2 DEF HasMDVal, GetMDVal, LastToken
<1>4. {client.disabled, client.ignores, client.putHeaders, server.disabled, server.ignores, server.putHeaders} \subseteq BOOLEAN
      /\ client.mode \in {"key", "token"} /\ server.mode \in {"key", "token"}
  BY AuthAssumption DEF AuthInv, AuthTypeOK
<1>5. Unix(sentAt) \in Int /\ Unix(sentAt) <= sentAt /\ sentAt - Unix(sentAt) <= Second - 1
  BY <1>1, UnixFacts
<1>6. CASE server.disabled \/ call.method = "health"
  <2>1. stage' = "handler" /\ code' = code /\ value' = value
    BY <1>1, <1>6 DEF checkTokenFromIncomingContext
  <2>2. ~Signed'
    BY <1>1, <1>6 DEF Signed, ignore
  <2>. QED  BY <1>1, <2>1, <2>2 DEF AuthInv, AuthTypeOK, CarriedInv, AlikeIsAccepted, AcceptedIsRecent, ValueIsCallers
<1>7. CASE ~(server.disabled \/ call.method = "health") /\ (~HasMDVal(call.md, -1) \/ ~OnCheckToken(server, GetMDVal(call.md, -1), call.method, serverNow))
  <2>1. stage' = "refused" /\ code' = "Unauthenticated" /\ value' = value
    BY <1>1, <1>7 DEF checkTokenFromIncomingContext, Refuse
  <2>2. AlikeIsAccepted'
    <3> SUFFICES ASSUME Alike, -TTL <= serverNow - sentAt, serverNow - sentAt <= TTL - (Second - 1) PROVE FALSE
      BY <1>1 DEF AlikeIsAccepted, Alike, Delay
    <3>1. ~client.disabled /\ ~OnCheckToken(server, own, call.method, serverNow) /\ ~ignore(server, call.method)
      BY <1>3, <1>7 DEF Alike, OnCheckToken
    <3>2. ~ignore(client, call.method)
      BY <3>1 DEF ignore, Alike
    <3>3. CASE client.mode = "key"
      BY <3>1, <3>2, <3>3 DEF Alike, OnCheckToken, OnNewToken
    <3>4. CASE client.mode = "token"
      <4>1. own = SignedToken(client.key, Unix(sentAt), client.headers)
        BY <3>2, <3>4 DEF OnNewToken, EncodeToken
      <4>2. own.form = "signed" /\ own.key = client.key /\ own.at = Unix(sentAt)
        BY <4>1 DEF SignedToken
      <4>3. ~Expired(own, serverNow)
        BY <4>2, <1>1, <1>5, AuthAssumption DEF Expired, Abs
      <4>. QED  BY <4>2, <4>3, <3>1, <3>4 DEF Alike, OnCheckToken, TokenValid, ParseToken
    <3>. QED  BY <3>3, <3>4, <1>4
  <2>. QED  BY <1>1, <2>1, <2>2 DEF AuthInv, AuthTypeOK, CarriedInv, AcceptedIsRecent, ValueIsCallers
<1>8. CASE ~(server.disabled \/ call.method = "health") /\ HasMDVal(call.md, -1) /\ OnCheckToken(server, GetMDVal(call.md, -1), call.method, serverNow)
  <2>1. stage' = "handler" /\ code' = code /\ value' = CheckedValue(server, GetMDVal(call.md, -1), call.method)
    BY <1>1, <1>8 DEF checkTokenFromIncomingContext
  <2>2. value' # NoValue => server.putHeaders
    BY <2>1 DEF CheckedValue
  <2>3. ASSUME Signed
        PROVE  /\ -(TTL + Second - 1) <= serverNow - sentAt /\ serverNow - sentAt <= TTL
               /\ value' = IF server.putHeaders THEN client.headers ELSE NoValue
    <3>1. ~client.disabled /\ ~ignore(server, call.method) /\ TokenValid(server.key, own, serverNow)
      BY <1>3, <1>8, <2>3 DEF Signed, OnCheckToken
    <3>2. own = SignedToken(client.key, Unix(sentAt), client.headers)
      BY <3>1 DEF TokenValid, ParseToken, OnNewToken, EmptyToken, KeyToken, EncodeToken
    <3>3. own.at = Unix(sentAt) /\ own.headers = client.headers
      BY <3>2 DEF SignedToken
    <3>4. serverNow - Unix(sentAt) <= TTL /\ -TTL <= serverNow - Unix(sentAt)
      BY <3>1, <3>3, <1>1, <1>5, AuthAssumption DEF TokenValid, Expired, Abs
    <3>5. -(TTL + Second - 1) <= serverNow - sentAt /\ serverNow - sentAt <= TTL
      BY <3>4, <1>1, <1>5, AuthAssumption
    <3>6. value' = IF server.putHeaders THEN client.headers ELSE NoValue
      BY <2>1, <2>3, <3>1, <3>3, <1>3 DEF CheckedValue, Signed
    <3>. QED  BY <3>5, <3>6
  <2>4. Signed' = Signed /\ Delay' = serverNow - sentAt
    BY <1>1 DEF Signed, Delay
  <2>5. AcceptedIsRecent' /\ ValueIsCallers'
    BY <2>3, <2>4, <1>1 DEF AcceptedIsRecent, ValueIsCallers
  <2>. QED  BY <1>1, <2>1, <2>2, <2>5 DEF AuthInv, AuthTypeOK, CarriedInv, AlikeIsAccepted
<1>. QED  BY <1>6, <1>7, <1>8

LEMMA AuthPreserves == AuthInv /\ [AuthNext]_authVars => AuthInv'
<1> SUFFICES ASSUME AuthInv, [AuthNext]_authVars PROVE AuthInv'
    OBVIOUS
<1>1. CASE AuthTick
  <2>1. /\ stage \in {"client", "wire"} /\ clientClock' = clientClock + 1 /\ clientClock' \in 0 .. MaxAuthTime
        /\ UNCHANGED <<client, server, skew, call, stage, code, sentAt, checkedAt, value>>
    BY <1>1, AuthAssumption DEF AuthTick, AuthInv, AuthTypeOK
  <2>. QED  BY <2>1 DEF AuthInv, AuthTypeOK, CarriedInv, LastToken, AlikeIsAccepted, AcceptedIsRecent, ValueIsCallers, Checked
<1>2. CASE UNCHANGED authVars
  BY <1>2 DEF authVars, AuthInv, AuthTypeOK, CarriedInv, LastToken, AlikeIsAccepted, AcceptedIsRecent, ValueIsCallers, Checked, Alike, Signed, Delay
<1>. QED  BY <1>1, <1>2, ClientPreserves, ServerPreserves DEF AuthNext

\* MWAuthenticator (rpc/mw_auth.go): the server accepts what a client set up alike has made,
\* as long as its date allows, and takes the caller's values, for all options and clocks.
THEOREM AuthTokensJudged == AuthSpec => []TokensJudged
<1>1. AuthInv => TokensJudged
  BY DEF AuthInv, TokensJudged
<1>. QED  BY <1>1, AuthStarts, AuthPreserves, PTL DEF AuthSpec

-----------------------------------------------------------------------------
(* CronScheduler: whoever runs under a wrapper has its token, so a second   *)
(* run of the same name is of an entry that was added again.                *)

RunRecords == [id : DOMAIN nameOf, st : {"waiting", "running"}]

\* Ids are given in order; an entry of a name was added for that name.
EntriesInv ==
    /\ \E k \in 0 .. MaxEntries : nameOf \in [1 .. k -> TaskNames]
    /\ cronTasks \in [TaskNames -> {NoEntry} \cup DOMAIN nameOf]
    /\ \A n \in TaskNames : cronTasks[n] # NoEntry => nameOf[cronTasks[n]] = n
    /\ cronEntries = {cronTasks[n] : n \in TaskNames} \ {NoEntry}

\* The wrapper of a guarded entry has its token exactly while no run holds it, and only
\* one run does at a time.
WrapperInv ==
    /\ cronRuns \in [RunSlots -> {NoRun} \cup RunRecords]
    /\ cronToken \subseteq DOMAIN nameOf
    /\ \A i \in RunSlots : cronRuns[i].st = "waiting" => optionOf(cronRuns[i].id).delay
    /\ \A id \in DOMAIN nameOf : Guarded(id) =>
          /\ id \notin cronToken <=> \E i \in RunSlots : cronRuns[i].st = "running" /\ cronRuns[i].id = id
          /\ \A i, j \in RunSlots :
                (cronRuns[i].st = "running" /\ cronRuns[i].id = id /\ cronRuns[j].st = "running" /\ cronRuns[j].id = id) => i = j

\* The cron is off from a call of Stop to the next start.
StoppedInv ==
    /\ cronOn \in BOOLEAN
    /\ stopPc \in [Stoppers -> {"idle", "waiting", "stopped", "timeout"}]
    /\ \A p \in Stoppers \ startedSince : stopPc[p] # "idle" => ~cronOn
    /\ \A p \in Stoppers \ startedSince : stopPc[p] = "stopped" => \A i \in RunSlots : cronRuns[i] = NoRun

CronInv == EntriesInv /\ WrapperInv /\ StoppedInv

LEMMA RunFacts ==
    ASSUME WrapperInv, NEW i \in RunSlots
    PROVE  /\ cronRuns[i] = NoRun => cronRuns[i].st = "none"
           /\ cronRuns[i] # NoRun => cronRuns[i].id \in DOMAIN nameOf /\ cronRuns[i].st \in {"waiting", "running"}
           /\ cronRuns[i] \in {NoRun} \cup RunRecords
BY DEF WrapperInv, RunRecords, NoRun

LEMMA CronStarts == CronInit => CronInv
<1> SUFFICES ASSUME CronInit PROVE CronInv
    OBVIOUS
<1>1. nameOf \in [1 .. 0 -> TaskNames] /\ DOMAIN nameOf = {} /\ 0 \in 0 .. MaxEntries
  BY CronAssumption DEF CronInit
<1>2. EntriesInv
  <2>1. \E k \in 0 .. MaxEntries : nameOf \in [1 .. k -> TaskNames]
    BY <1>1
  <2>. QED  BY <2>1 DEF CronInit, EntriesInv, NoEntry
<1>3. WrapperInv
  BY <1>1 DEF CronInit, WrapperInv, NoRun
<1>4. StoppedInv
  <2>1. cronOn \in BOOLEAN
    BY Zenon DEF CronInit
  <2>. QED  BY <2>1 DEF CronInit, StoppedInv
<1>. QED  BY <1>2, <1>3, <1>4 DEF CronInv

\* What the names and entries do not touch.
LEMMA EntriesFrame ==
    ASSUME EntriesInv, UNCHANGED <<nameOf, cronTasks, cronEntries>> PROVE EntriesInv'
BY DEF EntriesInv

LEMMA WrapperFrame ==
    ASSUME WrapperInv, UNCHANGED <<nameOf, cronRuns, cronToken>> PROVE WrapperInv'
BY DEF WrapperInv, RunRecords, optionOf, Guarded

LEMMA AddPreserves ==
    ASSUME CronInv, NEW n \in TaskNames, MustAddTask(n) PROVE CronInv'
<1> USE DEF CronInv
<1>1. PICK k \in 0 .. MaxEntries : nameOf \in [1 .. k -> TaskNames]
  BY DEF EntriesInv
<1>2. DOMAIN nameOf = 1 .. k /\ Cardinality(DOMAIN nameOf) = k /\ k \in Nat
  <2>1. k \in Nat /\ DOMAIN nameOf = 1 .. k
    BY <1>1, CronAssumption
  <2>. QED  BY <2>1, FS_Interval
<1> DEFINE id == k + 1
<1>3. /\ id \in 0 .. MaxEntries /\ cronTasks[n] = NoEntry
      /\ nameOf' = [i \in 1 .. id |-> IF i = id THEN n ELSE nameOf[i]]
      /\ cronEntries' = cronEntries \cup {id} /\ cronToken' = cronToken \cup {id}
      /\ cronTasks' = [cronTasks EXCEPT ![n] = id]
      /\ UNCHANGED <<cronOn, cronRuns, cronCrashed, stopPc, startedSince>>
  <2>1. Cardinality(DOMAIN nameOf) + 1 = id
    BY <1>2
  <2>2. id \in 0 .. MaxEntries
    BY <1>2, CronAssumption DEF MustAddTask
  <2> HIDE DEF id
  <2>. QED  BY <2>1, <2>2, Zenon DEF MustAddTask
<1>4. /\ nameOf' \in [1 .. id -> TaskNames] /\ DOMAIN nameOf' = 1 .. id
      /\ \A i \in 1 .. k : nameOf'[i] = nameOf[i]
      /\ nameOf'[id] = n
      /\ 1 .. k \subseteq 1 .. id /\ id \in 1 .. id /\ id \notin 1 .. k
      /\ \A i \in 1 .. id : i = id \/ i \in 1 .. k
      /\ id # NoEntry /\ NoEntry \notin 1 .. id
  BY <1>1, <1>2, <1>3 DEF NoEntry
<1> HIDE DEF id
<1>5. EntriesInv'
  <2>1. cronTasks \in [TaskNames -> {NoEntry} \cup 1 .. k]
    BY <1>2 DEF EntriesInv
  <2>2. cronTasks' \in [TaskNames -> {NoEntry} \cup DOMAIN nameOf']
    BY <1>3, <1>4, <2>1
  <2>3. \A o \in TaskNames : cronTasks'[o] # NoEntry => nameOf'[cronTasks'[o]] = o
    <3>1. ASSUME NEW o \in TaskNames, cronTasks'[o] # NoEntry, o # n PROVE nameOf'[cronTasks'[o]] = o
      <4>1. cronTasks'[o] = cronTasks[o] /\ cronTasks[o] \in 1 .. k
        BY <3>1, <2>1, <1>3
      <4>. QED  BY <4>1, <3>1, <1>4 DEF EntriesInv
    <3>2. cronTasks'[n] = id
      BY <1>3, <2>1
    <3>. QED  BY <3>1, <3>2, <1>4
  <2>4. cronEntries' = {cronTasks'[o] : o \in TaskNames} \ {NoEntry}
    <3>1. cronEntries = {cronTasks[o] : o \in TaskNames} \ {NoEntry}
      BY DEF EntriesInv
    <3>2. \A o \in TaskNames : cronTasks'[o] = IF o = n THEN id ELSE cronTasks[o]
      BY <1>3, <2>1
    <3>. QED  BY <3>1, <3>2, <1>3, <1>4
  <2>5. (\E j \in 0 .. MaxEntries : nameOf \in [1 .. j -> TaskNames])'
    BY <1>3, <1>4
  <2>. QED  BY <2>2, <2>3, <2>4, <2>5 DEF EntriesInv
<1>6. WrapperInv'
  <2>1. cronRuns' \in [RunSlots -> {NoRun} \cup RunRecords']
    BY <1>2, <1>3, <1>4 DEF WrapperInv, RunRecords
  <2>2. cronToken' \subseteq DOMAIN nameOf'
    BY <1>2, <1>3, <1>4 DEF WrapperInv
  <2>3. \A i \in RunSlots : cronRuns'[i] = cronRuns[i] /\ (cronRuns[i].st # "none" => cronRuns[i].id \in 1 .. k)
    BY <1>2, <1>3, RunFacts
  <2>4. (\A i \in RunSlots : cronRuns[i].st = "waiting" => optionOf(cronRuns[i].id).delay)'
    BY <2>3, <1>4 DEF WrapperInv, optionOf
  <2>5. ASSUME NEW e \in DOMAIN nameOf', Guarded(e)'
        PROVE  /\ e \notin cronToken' <=> \E i \in RunSlots : cronRuns'[i].st = "running" /\ cronRuns'[i].id = e
               /\ \A i, j \in RunSlots :
                    (cronRuns'[i].st = "running" /\ cronRuns'[i].id = e /\ cronRuns'[j].st = "running" /\ cronRuns'[j].id = e) => i = j
    <3>1. CASE e = id
      BY <3>1, <2>3, <1>3, <1>4
    <3>2. CASE e # id
      <4>1. e \in DOMAIN nameOf /\ Guarded(e)
        BY <3>2, <2>5, <1>2, <1>4 DEF Guarded, optionOf
      <4>. QED  BY <4>1, <3>2, <2>3, <1>3 DEF WrapperInv
    <3>. QED  BY <3>1, <3>2
  <2>. QED  BY <2>1, <2>2, <2>4, <2>5 DEF WrapperInv
<1>7. StoppedInv'
  BY <1>3 DEF StoppedInv
<1>. QED  BY <1>5, <1>6, <1>7

LEMMA RemovePreserves ==
    ASSUME CronInv, NEW names \in SUBSET TaskNames, RemoveTasks(names) PROVE CronInv'
<1> USE DEF CronInv, RemoveTasks
<1>1. /\ cronTasks \in [TaskNames -> {NoEntry} \cup DOMAIN nameOf]
      /\ \A o \in TaskNames : cronTasks[o] # NoEntry => nameOf[cronTasks[o]] = o
      /\ cronEntries = {cronTasks[o] : o \in TaskNames} \ {NoEntry}
  BY DEF EntriesInv
<1>2. \A o \in TaskNames : cronTasks'[o] = IF o \in names THEN NoEntry ELSE cronTasks[o]
  OBVIOUS
<1>3. cronTasks' \in [TaskNames -> {NoEntry} \cup DOMAIN nameOf']
  BY <1>1
<1>4. cronEntries' = {cronTasks'[o] : o \in TaskNames} \ {NoEntry}
  <2>1. ASSUME NEW e, e \in cronEntries' PROVE e \in {cronTasks'[o] : o \in TaskNames} \ {NoEntry}
    <3>1. PICK o \in TaskNames : e = cronTasks[o] /\ e # NoEntry
      BY <2>1, <1>1
    <3>2. o \notin names
      BY <2>1, <3>1
    <3>. QED  BY <3>1, <3>2, <1>2
  <2>2. ASSUME NEW o \in TaskNames, cronTasks'[o] # NoEntry PROVE cronTasks'[o] \in cronEntries'
    <3>1. o \notin names /\ cronTasks'[o] = cronTasks[o] /\ cronTasks[o] \in cronEntries
      BY <2>2, <1>1, <1>2
    <3>2. ASSUME NEW q \in names PROVE cronTasks[q] # cronTasks[o]
      BY <3>1, <3>2, <2>2, <1>1
    <3>. QED  BY <3>1, <3>2
  <2>. QED  BY <2>1, <2>2
<1>5. (\E j \in 0 .. MaxEntries : nameOf \in [1 .. j -> TaskNames])'
  BY DEF EntriesInv
<1>6. EntriesInv'
  BY <1>1, <1>2, <1>3, <1>4, <1>5 DEF EntriesInv
<1>7. WrapperInv'
  BY WrapperFrame
<1>8. StoppedInv'
  BY DEF StoppedInv
<1>. QED  BY <1>6, <1>7, <1>8

\* The runs, the token and the state of the cron, in every action of a goroutine.
LEMMA RunPreserves ==
    ASSUME CronInv, NEW e \in CronIds, runJob(e) PROVE CronInv'
<1> USE DEF CronInv
<1>1. PICK i \in RunSlots \ ActiveRuns :
          cronRuns' = IF wrapped(e) = "skipped" THEN cronRuns ELSE [cronRuns EXCEPT ![i] = [id |-> e, st |-> wrapped(e)]]
  BY DEF runJob
<1>2. /\ cronOn /\ e \in cronEntries /\ cronToken' = cronToken \ {e} /\ i \in RunSlots /\ cronRuns[i] = NoRun
      /\ UNCHANGED <<cronTasks, cronEntries, nameOf, cronOn, cronCrashed, stopPc, startedSince>>
  BY <1>1 DEF runJob, ActiveRuns
<1>3. EntriesInv'
  BY <1>2, EntriesFrame
<1>4. e \in DOMAIN nameOf
  BY <1>2 DEF EntriesInv
<1>5. cronRuns[i].st = "none"
  BY <1>2, RunFacts
<1>6. WrapperInv'
  <2>1. CASE wrapped(e) = "skipped"
    <3>3. e \in cronToken => wrapped(e) = "running"
      BY Zenon DEF wrapped
    <3>1. e \notin cronToken /\ cronRuns' = cronRuns
      BY <2>1, <3>3, <1>1
    <3>2. cronToken' = cronToken
      BY <3>1, <1>2
    <3>. QED  BY <3>1, <3>2, <1>2, WrapperFrame
  <2>2. CASE wrapped(e) # "skipped"
    <3>1. wrapped(e) \in {"running", "waiting"}
      BY <2>2 DEF wrapped
    <3>2. /\ cronRuns'[i].id = e /\ cronRuns'[i].st = wrapped(e)
          /\ \A j \in RunSlots : j # i => cronRuns'[j] = cronRuns[j]
      BY <2>2, <1>1, <1>2 DEF WrapperInv
    <3>3. cronRuns' \in [RunSlots -> {NoRun} \cup RunRecords']
      BY <2>2, <3>1, <1>1, <1>2, <1>4 DEF WrapperInv, RunRecords
    <3>4. (\A j \in RunSlots : cronRuns[j].st = "waiting" => optionOf(cronRuns[j].id).delay)'
      <4>1. wrapped(e) = "waiting" => optionOf(e).delay
        BY CronAssumption DEF wrapped, Guarded
      <4>. QED  BY <4>1, <3>2, <1>2 DEF WrapperInv, optionOf
    <3>5. ASSUME NEW d \in DOMAIN nameOf, Guarded(d)
          PROVE  /\ d \notin cronToken' <=> \E j \in RunSlots : cronRuns'[j].st = "running" /\ cronRuns'[j].id = d
                 /\ \A j, o \in RunSlots :
                      (cronRuns'[j].st = "running" /\ cronRuns'[j].id = d /\ cronRuns'[o].st = "running" /\ cronRuns'[o].id = d) => j = o
      <4>1. CASE d # e
        BY <4>1, <3>2, <3>5, <1>2, <1>5 DEF WrapperInv
      <4>2. CASE d = e
        <5>1. wrapped(e) = "running" <=> e \in cronToken
          BY <4>2, <3>5, <2>2 DEF wrapped
        <5>. QED  BY <5>1, <4>2, <3>1, <3>2, <3>5, <1>2, <1>5 DEF WrapperInv
      <4>. QED  BY <4>1, <4>2
    <3>6. cronToken' \subseteq DOMAIN nameOf'
      BY <1>2 DEF WrapperInv
    <3>. QED  BY <3>3, <3>4, <3>5, <3>6, <1>2 DEF WrapperInv, Guarded, optionOf
  <2>. QED  BY <2>1, <2>2
<1>7. StoppedInv'
  BY <1>2 DEF StoppedInv
<1>. QED  BY <1>3, <1>6, <1>7

LEMMA WaitOverPreserves ==
    ASSUME CronInv, NEW i \in RunSlots, waitOver(i) PROVE CronInv'
<1> USE DEF CronInv
<1>1. /\ i \in RunSlots /\ cronRuns[i] # NoRun /\ cronRuns[i].st = "waiting" /\ cronRuns[i].id \in cronToken
      /\ cronToken' = cronToken \ {cronRuns[i].id}
      /\ cronRuns' = [cronRuns EXCEPT ![i].st = "running"]
      /\ UNCHANGED <<cronTasks, cronEntries, nameOf, cronOn, cronCrashed, stopPc, startedSince>>
  BY DEF waitOver, ActiveRuns
<1>2. EntriesInv'
  BY <1>1, EntriesFrame
<1>3. cronRuns[i] \in RunRecords /\ cronRuns[i].id \in DOMAIN nameOf
  BY <1>1, RunFacts DEF RunRecords
<1>4. /\ cronRuns'[i].id = cronRuns[i].id /\ cronRuns'[i].st = "running"
      /\ \A j \in RunSlots : j # i => cronRuns'[j] = cronRuns[j]
  BY <1>1, <1>3 DEF WrapperInv, RunRecords
<1>5. WrapperInv'
  <2>1. cronRuns' \in [RunSlots -> {NoRun} \cup RunRecords']
    BY <1>1, <1>3 DEF WrapperInv, RunRecords
  <2>2. (\A j \in RunSlots : cronRuns[j].st = "waiting" => optionOf(cronRuns[j].id).delay)'
    BY <1>1, <1>4 DEF WrapperInv, optionOf
  <2>3. ASSUME NEW d \in DOMAIN nameOf, Guarded(d)
        PROVE  /\ d \notin cronToken' <=> \E j \in RunSlots : cronRuns'[j].st = "running" /\ cronRuns'[j].id = d
               /\ \A j, o \in RunSlots :
                    (cronRuns'[j].st = "running" /\ cronRuns'[j].id = d /\ cronRuns'[o].st = "running" /\ cronRuns'[o].id = d) => j = o
    BY <2>3, <1>1, <1>4 DEF WrapperInv
  <2>4. cronToken' \subseteq DOMAIN nameOf'
    BY <1>1 DEF WrapperInv
  <2>. QED  BY <2>1, <2>2, <2>3, <2>4, <1>1 DEF WrapperInv, Guarded, optionOf
<1>6. StoppedInv'
  BY <1>1 DEF StoppedInv
<1>. QED  BY <1>2, <1>5, <1>6

LEMMA ReturnPreserves ==
    ASSUME CronInv, NEW i \in RunSlots, jobReturns(i) PROVE CronInv'
<1> USE DEF CronInv
<1>1. /\ i \in RunSlots /\ cronRuns[i] # NoRun /\ cronRuns[i].st = "running"
      /\ cronToken' = cronToken \cup {cronRuns[i].id}
      /\ cronRuns' = [cronRuns EXCEPT ![i] = NoRun]
      /\ UNCHANGED <<cronTasks, cronEntries, nameOf, cronOn, cronCrashed, stopPc, startedSince>>
  BY DEF jobReturns, ActiveRuns
<1>2. EntriesInv'
  BY <1>1, EntriesFrame
<1>3. cronRuns[i].id \in DOMAIN nameOf
  BY <1>1, RunFacts
<1>4. /\ cronRuns'[i].st = "none" /\ cronRuns'[i] = NoRun
      /\ \A j \in RunSlots : j # i => cronRuns'[j] = cronRuns[j]
  BY <1>1 DEF WrapperInv, NoRun
<1>5. WrapperInv'
  <2>1. cronRuns' \in [RunSlots -> {NoRun} \cup RunRecords']
    BY <1>1 DEF WrapperInv, RunRecords
  <2>2. (\A j \in RunSlots : cronRuns[j].st = "waiting" => optionOf(cronRuns[j].id).delay)'
    BY <1>1, <1>4 DEF WrapperInv, optionOf
  <2>3. ASSUME NEW d \in DOMAIN nameOf, Guarded(d)
        PROVE  /\ d \notin cronToken' <=> \E j \in RunSlots : cronRuns'[j].st = "running" /\ cronRuns'[j].id = d
               /\ \A j, o \in RunSlots :
                    (cronRuns'[j].st = "running" /\ cronRuns'[j].id = d /\ cronRuns'[o].st = "running" /\ cronRuns'[o].id = d) => j = o
    BY <2>3, <1>1, <1>4 DEF WrapperInv
  <2>4. cronToken' \subseteq DOMAIN nameOf'
    BY <1>1, <1>3 DEF WrapperInv
  <2>. QED  BY <2>1, <2>2, <2>3, <2>4, <1>1 DEF WrapperInv, Guarded, optionOf
<1>6. StoppedInv'
  BY <1>1, <1>4 DEF StoppedInv
<1>. QED  BY <1>2, <1>5, <1>6

LEMMA CronPreserves == CronInv /\ [CronNext]_cronVars => CronInv'
<1> SUFFICES ASSUME CronInv, [CronNext]_cronVars PROVE CronInv'
    OBVIOUS
<1>1. CASE CronStart
  <2>1. UNCHANGED <<nameOf, cronTasks, cronEntries, cronRuns, cronToken>>
    BY <1>1 DEF CronStart
  <2>2. StoppedInv'
    <3>1. cronOn' \in BOOLEAN
      BY <1>1, Zenon DEF CronStart
    <3>. QED  BY <1>1, <3>1 DEF CronInv, CronStart, StoppedInv
  <2>. QED  BY <2>1, <2>2, EntriesFrame, WrapperFrame DEF CronInv
<1>2. ASSUME NEW p \in Stoppers, CronStop(p) PROVE CronInv'
  <2>1. UNCHANGED <<nameOf, cronTasks, cronEntries, cronRuns, cronToken>>
    BY <1>2 DEF CronStop
  <2>2. StoppedInv'
    <3>1. cronOn' \in BOOLEAN
      BY <1>2, Zenon DEF CronStop
    <3>. QED  BY <1>2, <3>1 DEF CronInv, CronStop, StoppedInv
  <2>. QED  BY <2>1, <2>2, EntriesFrame, WrapperFrame DEF CronInv
<1>3. ASSUME NEW p \in Stoppers, stopDone(p) \/ stopTimeout(p) PROVE CronInv'
  <2>1. UNCHANGED <<nameOf, cronTasks, cronEntries, cronRuns, cronToken>>
    BY <1>3 DEF stopDone, stopTimeout
  <2>2. StoppedInv'
    BY <1>3 DEF CronInv, stopDone, stopTimeout, StoppedInv, ActiveRuns
  <2>. QED  BY <2>1, <2>2, EntriesFrame, WrapperFrame DEF CronInv
<1>4. ASSUME NEW i \in RunSlots, jobPanics(i) PROVE CronInv'
  <2>1. CASE jobReturns(i)
    BY <2>1, ReturnPreserves
  <2>2. CASE UNCHANGED <<cronTasks, cronEntries, nameOf, cronOn, cronToken, cronRuns, stopPc, startedSince>>
    BY <2>2, EntriesFrame, WrapperFrame DEF CronInv, StoppedInv
  <2>. QED  BY <1>4, <2>1, <2>2 DEF jobPanics
<1>5. CASE UNCHANGED cronVars
  BY <1>5, EntriesFrame, WrapperFrame DEF cronVars, CronInv, StoppedInv
<1>6. ASSUME NEW names \in SUBSET TaskNames \ {{}}, RemoveTasks(names) PROVE CronInv'
  BY <1>6, RemovePreserves
<1>. QED  BY <1>1, <1>2, <1>3, <1>4, <1>5, <1>6, AddPreserves, RunPreserves, WaitOverPreserves, ReturnPreserves DEF CronNext

LEMMA CronMeans == CronInv => RunsGuarded
<1> SUFFICES ASSUME CronInv PROVE RunsGuarded
    OBVIOUS
<1> USE DEF CronInv
<1>1. \A i \in ActiveRuns : i \in RunSlots /\ cronRuns[i].id \in DOMAIN nameOf
  BY RunFacts DEF ActiveRuns
<1>2. DOMAIN nameOf \subseteq CronIds
  <2>1. PICK k \in 0 .. MaxEntries : nameOf \in [1 .. k -> TaskNames]
    BY DEF EntriesInv
  <2>. QED  BY <2>1, CronAssumption DEF CronIds
<1>3. CronTypeOK
  BY <1>1, <1>2 DEF CronTypeOK, EntriesInv, WrapperInv
<1>4. OverlapNeedsReAdd
  <2> SUFFICES ASSUME NEW i \in ActiveRuns, NEW j \in ActiveRuns, i # j,
                      cronRuns[i].st = "running", cronRuns[j].st = "running",
                      nameOf[cronRuns[i].id] = nameOf[cronRuns[j].id], Guarded(cronRuns[i].id)
               PROVE  cronRuns[i].id # cronRuns[j].id /\ ~(cronRuns[i].id \in cronEntries /\ cronRuns[j].id \in cronEntries)
    BY DEF OverlapNeedsReAdd
  <2>1. cronRuns[i].id # cronRuns[j].id
    BY <1>1 DEF WrapperInv
  <2>2. ASSUME cronRuns[i].id \in cronEntries, cronRuns[j].id \in cronEntries PROVE FALSE
    <3>1. \A e \in cronEntries : cronTasks[nameOf[e]] = e
      BY DEF EntriesInv
    <3>. QED  BY <3>1, <2>1, <2>2
  <2>. QED  BY <2>1, <2>2
<1>5. TokenComesBack
  <2> SUFFICES ASSUME NEW e \in DOMAIN nameOf, Guarded(e), RunningOf(e) = {}, e \notin cronToken PROVE FALSE
    BY DEF TokenComesBack
  <2>1. PICK i \in RunSlots : cronRuns[i].st = "running" /\ cronRuns[i].id = e
    BY DEF WrapperInv
  <2>2. cronRuns[i] = [id |-> e, st |-> "running"]
    BY <2>1, RunFacts DEF RunRecords, NoRun
  <2>. QED  BY <2>2 DEF RunningOf
<1>6. StoppedIsIdle
  BY DEF StoppedInv, StoppedIsIdle, ActiveRuns
<1>. QED  BY <1>3, <1>4, <1>5, <1>6 DEF RunsGuarded

\* The scheduler (scheduler/scheduler.go): the wrappers keep the runs of a task apart, give
\* the token back and leave none running after Stop, for any tasks, entries and runs.
THEOREM CronRunsGuarded == CronSpec => []RunsGuarded
BY CronStarts, CronPreserves, CronMeans, PTL DEF CronSpec

-----------------------------------------------------------------------------
(* The result collections.  A goroutine that writes is alone, with the      *)
(* mutex of a synchronized collection and without any in one that only one  *)
(* goroutine uses: so what it appends stays together, and what a reader has *)
(* copied is still what the map holds.  DeletedOnce needs that an entry is  *)
(* of an operation of its own whose result was not returned.                *)

Outcomes == {RunFn(fn) : fn \in TaskFns}
ResultItems == [op : 1 .. written, r : Outcomes]
Writing(p) == user[p].pc \in {"add", "del"}

\* What a goroutine has in hand.  Nobody writes while it reads or deletes.
UserOK(p) ==
    /\ user[p] = [pc |-> user[p].pc, todo |-> user[p].todo, copy |-> user[p].copy]
    /\ user[p].pc \in {"idle", "add", "del", "copy"}
    /\ user[p].pc = "idle" => user[p] = NotUsing
    /\ user[p].pc = "add" /\ coll.kind = "list" =>
          /\ user[p].todo \subseteq [op : {written}, i : 1 .. 2] /\ IsFiniteSet(user[p].todo)
          /\ user[p].copy \in Outcomes
          /\ Size + Cardinality(user[p].todo) <= 2 * written
    /\ user[p].pc = "add" /\ coll.kind = "map" => user[p].todo = {}
    /\ user[p].pc = "del" =>
          /\ coll.kind = "map" /\ (user[p].todo # {} => user[p].copy = values)
          /\ \E key \in ResultKeys : user[p].todo = {key} \cap DOMAIN values
    /\ user[p].pc = "copy" =>
          /\ user[p].todo \subseteq DOMAIN values
          /\ user[p].copy = [k \in DOMAIN values \ user[p].todo |-> values[k]]

\* Whoever is at work has the mutex, if there is one, and a writer is alone.
UsersInv ==
    /\ coll \in [kind : {"list", "map"}, sync : BOOLEAN] /\ written \in 0 .. MaxOps
    /\ user = [p \in ResultProcs |-> user[p]]
    /\ wLocked \in ResultProcs \cup {Nobody} /\ rLocked \subseteq ResultProcs
    /\ \A p \in ResultProcs : UserOK(p)
    /\ \A p, q \in ResultProcs : Writing(p) /\ user[q].pc # "idle" => p = q
    /\ coll.sync => \A p \in ResultProcs : /\ Writing(p) <=> wLocked = p
                                           /\ user[p].pc = "copy" <=> p \in rLocked

\* An entry of a map is of an operation of its own, one whose result was not returned.
ItemsInv ==
    /\ values = [k \in DOMAIN values |-> values[k]] /\ \A k \in DOMAIN values : values[k] \in ResultItems
    /\ coll.kind = "list" =>
          /\ Size \in 0 .. 2 * written /\ DOMAIN values = 1 .. Size
          /\ \A i, j \in DOMAIN values : i < j => values[i].op <= values[j].op
    /\ returned \in [1 .. MaxOps -> 0 .. 1] /\ \A i \in 1 .. MaxOps : i > written => returned[i] = 0
    /\ coll.kind = "map" =>
          /\ DOMAIN values \subseteq ResultKeys
          /\ \A k, l \in DOMAIN values : values[k].op = values[l].op => k = l
          /\ \A k \in DOMAIN values : returned[values[k].op] = 0

ResultInv == UsersInv /\ ItemsInv

LEMMA NoEntries == DOMAIN <<>> = {} /\ <<>> = [k \in {} |-> values[k]]
OBVIOUS

LEMMA ResultStarts == ResultInit => ResultInv
<1> SUFFICES ASSUME ResultInit PROVE ResultInv
  OBVIOUS
<1>1. Size = 0 /\ DOMAIN values = {} /\ 1 .. 0 = {}
  BY FS_EmptySet, NoEntries DEF ResultInit, Size
<1>2. ItemsInv
  BY <1>1, ResultsAssumption, NoEntries DEF ResultInit, ItemsInv
<1>3. \A p \in ResultProcs : user[p] = NotUsing /\ user[p].pc = "idle"
  BY DEF ResultInit, NotUsing
<1>4. \A p \in ResultProcs : UserOK(p)
  BY <1>3 DEF UserOK, NotUsing
<1>. QED  BY <1>2, <1>3, <1>4, ResultsAssumption DEF ResultInit, UsersInv, ResultInv, Writing

\* A goroutine that begins finds nobody writing, and nobody at all if it is to write.
LEMMA Begins ==
    ASSUME ResultInv, NEW p \in ResultProcs, MayUse(p),
           coll' = coll, DOMAIN user' = DOMAIN user, user' = [user EXCEPT ![p] = user'[p]],
           \/ lock(p) /\ user'[p].pc \in {"add", "del"}
           \/ rLock(p) /\ user'[p].pc = "copy"
    PROVE  /\ \A q \in ResultProcs \ {p} : user'[q] = user[q] /\ ~Writing(q)
           /\ Writing(p)' => \A q \in ResultProcs \ {p} : user[q].pc = "idle"
           /\ user[p].pc = "idle"
           /\ user' = [q \in ResultProcs |-> user'[q]]
           /\ wLocked' \in ResultProcs \cup {Nobody} /\ rLocked' \subseteq ResultProcs
           /\ \A q, r \in ResultProcs : Writing(q)' /\ user'[r].pc # "idle" => q = r
           /\ coll.sync => \A q \in ResultProcs : /\ Writing(q)' <=> wLocked' = q
                                                  /\ user'[q].pc = "copy" <=> q \in rLocked'
<1>1. /\ \A q \in ResultProcs : UserOK(q)
      /\ user = [q \in ResultProcs |-> user[q]] /\ coll.sync \in BOOLEAN
  BY DEF ResultInv, UsersInv
<1>2. /\ user' = [q \in ResultProcs |-> user'[q]]
      /\ \A q \in ResultProcs \ {p} : user'[q] = user[q]
  BY <1>1
<1>3. user[p].pc = "idle" /\ (~coll.sync => \A q \in ResultProcs : user[q].pc = "idle")
  BY DEF MayUse, NotUsing
<1>4. CASE ~coll.sync
  <2>1. \A q \in ResultProcs : user[q].pc = "idle"
    BY <1>3, <1>4
  <2>. QED  BY <1>2, <1>3, <1>4, <2>1 DEF Writing, lock, rLock, ResultInv, UsersInv
<1>5. CASE coll.sync
  <2>1. wLocked = Nobody /\ \A q \in ResultProcs : ~Writing(q)
    BY <1>5, ResultsAssumption DEF lock, rLock, ResultInv, UsersInv
  <2>2. CASE lock(p) /\ user'[p].pc \in {"add", "del"}
    <3>1. \A q \in ResultProcs : user[q].pc = "idle"
      BY <1>1, <1>5, <2>1, <2>2 DEF lock, ResultInv, UsersInv, Writing, UserOK
    <3>. QED  BY <1>2, <1>3, <1>5, <2>1, <2>2, <3>1, ResultsAssumption DEF lock, Writing, ResultInv, UsersInv
  <2>3. CASE rLock(p) /\ user'[p].pc = "copy"
    BY <1>2, <1>3, <1>5, <2>1, <2>3, ResultsAssumption DEF rLock, Writing, ResultInv, UsersInv
  <2>. QED  BY <2>2, <2>3
<1>. QED  BY <1>4, <1>5

LEMMA ListAddPreserves ==
    ASSUME ResultInv, NEW p \in ResultProcs, NEW n \in 0 .. 2, NEW fn \in TaskFns, ListAdd(p, n, fn)
    PROVE  ResultInv'
<1>1. /\ written' = written + 1 /\ written' \in 0 .. MaxOps /\ written \in Nat
      /\ UNCHANGED <<coll, values, returned>> /\ coll.kind = "list" /\ MayUse(p) /\ lock(p)
      /\ user = [q \in ResultProcs |-> user[q]]
      /\ user' = [user EXCEPT ![p] = [pc |-> "add", todo |-> Batch(n), copy |-> RunFn(fn)]]
  BY ResultsAssumption DEF ListAdd, ResultInv, UsersInv
<1>2. user'[p] = [pc |-> "add", todo |-> Batch(n), copy |-> RunFn(fn)] /\ user' = [user EXCEPT ![p] = user'[p]]
  BY <1>1
<1>3. /\ Batch(n) \subseteq [op : {written'}, i : 1 .. 2]
      /\ IsFiniteSet(Batch(n)) /\ Cardinality(Batch(n)) \in 0 .. 2
  <2>1. Batch(n) \subseteq {[op |-> written', i |-> 1], [op |-> written', i |-> 2]}
    BY DEF Batch
  <2>2. \A a, b : IsFiniteSet({a, b}) /\ Cardinality({a, b}) \in 1 .. 2
    <3>1. SUFFICES ASSUME NEW a, NEW b PROVE IsFiniteSet({a, b}) /\ Cardinality({a, b}) \in 1 .. 2
      OBVIOUS
    <3>2. IsFiniteSet({a}) /\ Cardinality({a}) = 1 /\ {a, b} = {a} \cup {b}
      BY FS_Singleton
    <3>. QED  BY <3>2, FS_AddElement
  <2>3. IsFiniteSet(Batch(n)) /\ Cardinality(Batch(n)) <= 2
    <3> DEFINE two == {[op |-> written', i |-> 1], [op |-> written', i |-> 2]}
    <3>1. Batch(n) \in SUBSET two /\ IsFiniteSet(two) /\ Cardinality(two) \in 1 .. 2
      BY <2>1, <2>2
    <3> HIDE DEF two
    <3>2. IsFiniteSet(Batch(n)) /\ Cardinality(Batch(n)) <= Cardinality(two)
      BY <3>1, FS_Subset
    <3>3. Cardinality(Batch(n)) \in Nat
      BY <3>2, FS_CardinalityType
    <3>. QED  BY <3>1, <3>2, <3>3
  <2>4. Cardinality(Batch(n)) \in Nat
    BY <2>3, FS_CardinalityType
  <2>5. Batch(n) \subseteq [op : {written'}, i : 1 .. 2]
    BY <1>1, <2>1
  <2>. QED  BY <2>3, <2>4, <2>5
<1>4. ItemsInv'
  <2>1. Size' = Size /\ DOMAIN values' = DOMAIN values /\ Size \in 0 .. 2 * written
    BY <1>1 DEF Size, ResultInv, ItemsInv
  <2>2. \A k \in DOMAIN values : values[k] \in ResultItems'
    BY <1>1 DEF ResultInv, ItemsInv, ResultItems
  <2>. QED  BY <1>1, <2>1, <2>2 DEF ResultInv, ItemsInv
<1>5. UserOK(p)'
  <2>1. Size' = Size /\ Size \in 0 .. 2 * written
    BY <1>1 DEF Size, ResultInv, ItemsInv
  <2>. QED  BY <1>1, <1>2, <1>3, <2>1 DEF UserOK, Outcomes
<1>6. ASSUME NEW q \in ResultProcs \ {p} PROVE UserOK(q)'
  <2>1. user'[q] = user[q] /\ user[q].pc = "idle" /\ UserOK(q)
    BY <1>1, <1>2, Begins DEF Writing, ResultInv, UsersInv
  <2>. QED  BY <2>1 DEF UserOK, NotUsing
<1>. QED  BY <1>1, <1>2, <1>4, <1>5, <1>6, Begins DEF ResultInv, UsersInv

LEMMA CountTo == \A c \in Nat : Cardinality(1 .. c) = c
<1> TAKE c \in Nat
<1>1. Cardinality(1 .. c) = IF 1 > c THEN 0 ELSE c - 1 + 1
  BY FS_Interval
<1>. QED  BY <1>1

LEMMA AppendPreserves ==
    ASSUME ResultInv, NEW p \in ResultProcs, appendOne(p)
    PROVE  ResultInv'
<1>1. PICK t \in user[p].todo :
          /\ values' = StoredAt(values, Size + 1, [op |-> t.op, r |-> user[p].copy])
          /\ user' = [user EXCEPT ![p].todo = @ \ {t}]
  BY DEF appendOne
<1>2. /\ UNCHANGED <<coll, wLocked, rLocked, written, returned>> /\ user[p].pc = "add" /\ UserOK(p)
      /\ coll.kind \in {"list", "map"} /\ written \in 0 .. MaxOps /\ user = [q \in ResultProcs |-> user[q]]
  BY DEF appendOne, ResultInv, UsersInv
<1>3. /\ coll.kind = "list" /\ t \in [op : {written}, i : 1 .. 2] /\ user[p].copy \in Outcomes
      /\ IsFiniteSet(user[p].todo) /\ user[p].todo \subseteq [op : {written}, i : 1 .. 2]
      /\ Size + Cardinality(user[p].todo) <= 2 * written
  BY <1>2 DEF UserOK
<1>4. /\ IsFiniteSet(user[p].todo \ {t}) /\ Cardinality(user[p].todo) \in Nat
      /\ Cardinality(user[p].todo \ {t}) = Cardinality(user[p].todo) - 1
      /\ Cardinality(user[p].todo \ {t}) \in Nat
  BY <1>1, <1>3, FS_RemoveElement, FS_CardinalityType
<1>5. /\ Size \in 0 .. 2 * written /\ DOMAIN values = 1 .. Size
      /\ \A i, j \in DOMAIN values : i < j => values[i].op <= values[j].op
      /\ \A k \in DOMAIN values : values[k] \in ResultItems
  BY <1>3 DEF ResultInv, ItemsInv
<1>6. /\ DOMAIN values' = 1 .. Size + 1 /\ values' = [k \in DOMAIN values' |-> values'[k]]
      /\ values'[Size + 1] = [op |-> t.op, r |-> user[p].copy]
      /\ \A k \in 1 .. Size : values'[k] = values[k]
  <2>1. DOMAIN values \cup {Size + 1} = 1 .. Size + 1 /\ Size + 1 \notin DOMAIN values
    BY <1>5
  <2>. QED  BY <1>1, <1>5, <2>1 DEF StoredAt
<1>7. Size' = Size + 1
  BY <1>5, <1>6, CountTo DEF Size
<1>8. /\ user' = [q \in ResultProcs |-> user'[q]] /\ \A q \in ResultProcs \ {p} : user'[q] = user[q]
      /\ user'[p] = [user[p] EXCEPT !.todo = @ \ {t}]
  BY <1>1, <1>2
<1>9. /\ user'[p].pc = "add" /\ user'[p].todo = user[p].todo \ {t} /\ user'[p].copy = user[p].copy
      /\ user'[p] = [pc |-> user'[p].pc, todo |-> user'[p].todo, copy |-> user'[p].copy]
  BY <1>2, <1>8 DEF UserOK
<1>10. UserOK(p)'
  BY <1>2, <1>3, <1>4, <1>5, <1>7, <1>9 DEF UserOK
<1>11. ASSUME NEW q \in ResultProcs \ {p} PROVE UserOK(q)'
  <2>1. user'[q] = user[q] /\ user[q].pc = "idle" /\ UserOK(q)
    BY <1>2, <1>8 DEF Writing, ResultInv, UsersInv, UserOK
  <2>. QED  BY <2>1 DEF UserOK, NotUsing
<1>12. \A k \in DOMAIN values' : values'[k] \in ResultItems'
  <2>1. values'[Size + 1] \in ResultItems' /\ ResultItems' = ResultItems
    <3>1. written > 0
      BY <1>1, <1>2, <1>3, <1>4, <1>5
    <3>. QED  BY <1>1, <1>2, <1>3, <1>6, <3>1 DEF ResultItems
  <2>. QED  BY <1>5, <1>6, <2>1
<1>13. \A i, j \in DOMAIN values' : i < j => values'[i].op <= values'[j].op
  <2>1. \A i \in 1 .. Size : values[i].op \in 1 .. written
    BY <1>5 DEF ResultItems
  <2>2. values'[Size + 1].op = written
    BY <1>3, <1>6
  <2>. QED  BY <1>2, <1>5, <1>6, <2>1, <2>2
<1>14. Size' \in 0 .. 2 * written
  BY <1>3, <1>4, <1>5, <1>7, <1>2
<1>15. ItemsInv'
  BY <1>2, <1>3, <1>6, <1>7, <1>12, <1>13, <1>14 DEF ResultInv, ItemsInv
<1>16. \A q \in ResultProcs : user'[q].pc = user[q].pc
  BY <1>2, <1>8, <1>9
<1>. QED  BY <1>2, <1>8, <1>10, <1>11, <1>15, <1>16 DEF ResultInv, UsersInv, Writing

LEMMA MapPutPreserves ==
    ASSUME ResultInv, NEW p \in ResultProcs, NEW key \in ResultKeys, NEW fn \in TaskFns, MapPut(p, key, fn)
    PROVE  ResultInv'
<1>1. /\ written' = written + 1 /\ written' \in 0 .. MaxOps /\ written \in Nat
      /\ UNCHANGED <<coll, returned>> /\ coll.kind = "map" /\ MayUse(p) /\ lock(p)
      /\ user = [q \in ResultProcs |-> user[q]] /\ user[p] = NotUsing
      /\ user' = [user EXCEPT ![p] = [pc |-> "add", todo |-> {}, copy |-> <<>>]]
      /\ values' = StoredAt(values, key, [op |-> written', r |-> RunFn(fn)])
  BY ResultsAssumption DEF MapPut, ResultInv, UsersInv, MayUse
<1>2. user'[p] = [pc |-> "add", todo |-> {}, copy |-> <<>>] /\ user' = [user EXCEPT ![p] = user'[p]]
  BY <1>1
<1>3. UserOK(p)'
  BY <1>1, <1>2 DEF UserOK
<1>4. ASSUME NEW q \in ResultProcs \ {p} PROVE UserOK(q)'
  <2>1. user'[q] = user[q] /\ user[q].pc = "idle" /\ UserOK(q)
    BY <1>1, <1>2, Begins DEF Writing, ResultInv, UsersInv
  <2>. QED  BY <2>1 DEF UserOK, NotUsing
<1>5. /\ DOMAIN values' = DOMAIN values \cup {key} /\ values' = [k \in DOMAIN values' |-> values'[k]]
      /\ values'[key] = [op |-> written', r |-> RunFn(fn)]
      /\ \A k \in DOMAIN values \ {key} : values'[k] = values[k]
  BY <1>1 DEF StoredAt
<1>6. ItemsInv'
  <2>1. \A k \in DOMAIN values : values[k].op \in 1 .. written /\ values[k] \in ResultItems'
    BY <1>1 DEF ResultInv, ItemsInv, ResultItems
  <2>2. values'[key] \in ResultItems' /\ values'[key].op = written'
    BY <1>1, <1>5 DEF ResultItems, Outcomes
  <2>3. \A k, l \in DOMAIN values' : values'[k].op = values'[l].op => k = l
    BY <1>1, <1>5, <2>1, <2>2 DEF ResultInv, ItemsInv
  <2>4. returned[written'] = 0
    BY <1>1 DEF ResultInv, ItemsInv
  <2>5. \A k \in DOMAIN values' : returned[values'[k].op] = 0
    BY <1>1, <1>5, <2>2, <2>4 DEF ResultInv, ItemsInv
  <2>. QED  BY <1>1, <1>5, <2>1, <2>2, <2>3, <2>5 DEF ResultInv, ItemsInv
<1>. QED  BY <1>1, <1>2, <1>3, <1>4, <1>6, Begins DEF ResultInv, UsersInv

LEMMA MapDelPreserves ==
    ASSUME ResultInv, NEW p \in ResultProcs, NEW key \in ResultKeys, MapDel(p, key)
    PROVE  ResultInv'
<1>1. /\ UNCHANGED <<coll, values, written, returned>> /\ coll.kind = "map" /\ MayUse(p) /\ lock(p)
      /\ user = [q \in ResultProcs |-> user[q]]
      /\ user' = [user EXCEPT ![p] = [pc |-> "del", todo |-> {key} \cap DOMAIN values, copy |-> values]]
  BY DEF MapDel, ResultInv, UsersInv
<1>2. /\ user'[p] = [pc |-> "del", todo |-> {key} \cap DOMAIN values, copy |-> values]
      /\ user' = [user EXCEPT ![p] = user'[p]]
  BY <1>1
<1>3. UserOK(p)'
  BY <1>1, <1>2 DEF UserOK
<1>4. ASSUME NEW q \in ResultProcs \ {p} PROVE UserOK(q)'
  <2>1. user'[q] = user[q] /\ UserOK(q)
    BY <1>1, <1>2, Begins DEF ResultInv, UsersInv
  <2>. QED  BY <1>1, <2>1 DEF UserOK, Size
<1>5. ItemsInv'
  BY <1>1 DEF ResultInv, ItemsInv, ResultItems, Size
<1>. QED  BY <1>1, <1>2, <1>3, <1>4, <1>5, Begins DEF ResultInv, UsersInv

LEMMA DeletePreserves ==
    ASSUME ResultInv, NEW p \in ResultProcs, deleteOne(p)
    PROVE  ResultInv'
<1>1. PICK key \in user[p].todo :
          /\ values' = [k \in DOMAIN values \ {key} |-> values[k]]
          /\ returned' = [returned EXCEPT ![user[p].copy[key].op] = @ + 1]
  BY DEF deleteOne
<1>2. /\ UNCHANGED <<coll, wLocked, rLocked, written>> /\ user[p].pc = "del" /\ UserOK(p)
      /\ user' = [user EXCEPT ![p].todo = {}] /\ written \in 0 .. MaxOps
      /\ user = [q \in ResultProcs |-> user[q]]
  BY DEF deleteOne, ResultInv, UsersInv
<1>3. coll.kind = "map" /\ user[p].copy = values
  BY <1>1, <1>2 DEF UserOK
<1>4. key \in DOMAIN values /\ key \in ResultKeys
  <2>1. PICK key0 \in ResultKeys : user[p].todo = {key0} \cap DOMAIN values
    BY <1>2 DEF UserOK
  <2>. QED  BY <1>1, <2>1
<1>5. /\ user' = [q \in ResultProcs |-> user'[q]] /\ \A q \in ResultProcs \ {p} : user'[q] = user[q]
      /\ user'[p] = [user[p] EXCEPT !.todo = {}]
  BY <1>2
<1>6. /\ user'[p].pc = "del" /\ user'[p].todo = {}
      /\ user'[p] = [pc |-> user'[p].pc, todo |-> user'[p].todo, copy |-> user'[p].copy]
  BY <1>2, <1>5 DEF UserOK
<1>7. DOMAIN values' = DOMAIN values \ {key} /\ \A k \in DOMAIN values' : values'[k] = values[k]
  BY <1>1
<1>8. UserOK(p)'
  <2>1. user'[p].todo = {key} \cap DOMAIN values'
    BY <1>6, <1>7
  <2>. QED  BY <1>2, <1>3, <1>4, <1>6, <2>1 DEF UserOK
<1>9. ASSUME NEW q \in ResultProcs \ {p} PROVE UserOK(q)'
  <2>1. user'[q] = user[q] /\ user[q].pc = "idle" /\ UserOK(q)
    BY <1>2, <1>5 DEF Writing, ResultInv, UsersInv, UserOK
  <2>. QED  BY <2>1 DEF UserOK, NotUsing
<1>10. ItemsInv'
  <2> DEFINE old == values[key].op
  <2>1. old \in 1 .. written /\ returned[old] = 0 /\ returned \in [1 .. MaxOps -> 0 .. 1]
    BY <1>3, <1>4 DEF ResultInv, ItemsInv, ResultItems
  <2>2. returned' = [returned EXCEPT ![old] = @ + 1]
    BY <1>1, <1>3
  <2>3. \A k \in DOMAIN values' : values'[k] \in ResultItems' /\ values[k].op \in 1 .. written /\ values[k].op # old
    BY <1>2, <1>3, <1>4, <1>7 DEF ResultInv, ItemsInv, ResultItems
  <2> HIDE DEF old
  <2>4. returned' \in [1 .. MaxOps -> 0 .. 1] /\ \A i \in 1 .. MaxOps : i # old => returned'[i] = returned[i]
    <3>1. returned[old] + 1 = 1 /\ 1 \in 0 .. 1 /\ old \in 1 .. MaxOps
      BY <1>2, <2>1, ResultsAssumption
    <3>2. returned' = [returned EXCEPT ![old] = 1]
      BY <2>2, <3>1
    <3>. QED  BY <2>1, <3>1, <3>2
  <2>5. \A i \in 1 .. MaxOps : i > written => returned'[i] = 0
    BY <1>2, <2>1, <2>4 DEF ResultInv, ItemsInv
  <2>6. \A k \in DOMAIN values' : returned'[values'[k].op] = 0
    <3>1. \A k \in DOMAIN values : returned[values[k].op] = 0
      BY <1>3 DEF ResultInv, ItemsInv
    <3>2. \A k \in DOMAIN values' : values[k].op \in 1 .. MaxOps
      BY <1>2, <2>3, ResultsAssumption
    <3>. QED  BY <1>7, <2>3, <2>4, <3>1, <3>2
  <2>7. values' = [k \in DOMAIN values' |-> values'[k]]
    BY <1>1, <1>7
  <2>. QED  BY <1>2, <1>3, <1>7, <2>3, <2>4, <2>5, <2>6, <2>7 DEF ResultInv, ItemsInv
<1>11. \A q \in ResultProcs : user'[q].pc = user[q].pc
  BY <1>2, <1>5, <1>6
<1>. QED  BY <1>2, <1>5, <1>8, <1>9, <1>10, <1>11 DEF ResultInv, UsersInv, Writing

LEMMA ToSlicePreserves ==
    ASSUME ResultInv, NEW p \in ResultProcs, ToSlice(p)
    PROVE  ResultInv'
<1>1. /\ UNCHANGED <<coll, values, written, returned>> /\ MayUse(p) /\ rLock(p)
      /\ user = [q \in ResultProcs |-> user[q]]
      /\ user' = [user EXCEPT ![p] = [pc |-> "copy", todo |-> DOMAIN values, copy |-> <<>>]]
  BY DEF ToSlice, ResultInv, UsersInv
<1>2. /\ user'[p] = [pc |-> "copy", todo |-> DOMAIN values, copy |-> <<>>]
      /\ user' = [user EXCEPT ![p] = user'[p]]
  BY <1>1
<1>3. UserOK(p)'
  <2>1. user'[p].copy = [k \in DOMAIN values' \ user'[p].todo |-> values'[k]]
    BY <1>1, <1>2, NoEntries
  <2>. QED  BY <1>1, <1>2, <2>1 DEF UserOK
<1>4. ASSUME NEW q \in ResultProcs \ {p} PROVE UserOK(q)'
  <2>1. user'[q] = user[q] /\ UserOK(q)
    BY <1>1, <1>2, Begins DEF ResultInv, UsersInv
  <2>. QED  BY <1>1, <2>1 DEF UserOK, Size
<1>5. ItemsInv'
  BY <1>1 DEF ResultInv, ItemsInv, ResultItems, Size
<1>. QED  BY <1>1, <1>2, <1>3, <1>4, <1>5, Begins DEF ResultInv, UsersInv

LEMMA CopyPreserves ==
    ASSUME ResultInv, NEW p \in ResultProcs, copyOne(p)
    PROVE  ResultInv'
<1>1. PICK k \in user[p].todo :
          user' = [user EXCEPT ![p].todo = @ \ {k},
                               ![p].copy = IF k \in DOMAIN values THEN StoredAt(@, k, values[k]) ELSE @]
  BY DEF copyOne
<1>2. /\ UNCHANGED <<coll, values, wLocked, rLocked, written, returned>> /\ user[p].pc = "copy" /\ UserOK(p)
      /\ user = [q \in ResultProcs |-> user[q]]
  BY DEF copyOne, ResultInv, UsersInv
<1>3. /\ k \in DOMAIN values /\ user[p].todo \subseteq DOMAIN values
      /\ user[p].copy = [l \in DOMAIN values \ user[p].todo |-> values[l]]
  BY <1>1, <1>2 DEF UserOK
<1>4. /\ user' = [q \in ResultProcs |-> user'[q]] /\ \A q \in ResultProcs \ {p} : user'[q] = user[q]
      /\ user'[p] = [user[p] EXCEPT !.todo = @ \ {k}, !.copy = StoredAt(@, k, values[k])]
  BY <1>1, <1>2, <1>3
<1>5. /\ user'[p].pc = "copy" /\ user'[p].todo = user[p].todo \ {k}
      /\ user'[p].copy = StoredAt(user[p].copy, k, values[k])
      /\ user'[p] = [pc |-> user'[p].pc, todo |-> user'[p].todo, copy |-> user'[p].copy]
  BY <1>2, <1>4 DEF UserOK
<1>6. user'[p].copy = [l \in DOMAIN values \ user'[p].todo |-> values[l]]
  <2>1. DOMAIN user[p].copy \cup {k} = DOMAIN values \ user'[p].todo
    BY <1>1, <1>3, <1>5
  <2>. QED  BY <1>3, <1>5, <2>1 DEF StoredAt
<1>7. UserOK(p)'
  BY <1>2, <1>3, <1>5, <1>6 DEF UserOK
<1>8. ASSUME NEW q \in ResultProcs \ {p} PROVE UserOK(q)'
  <2>1. user'[q] = user[q] /\ UserOK(q)
    BY <1>4 DEF ResultInv, UsersInv
  <2>. QED  BY <1>2, <2>1 DEF UserOK, Size
<1>9. ItemsInv'
  BY <1>2 DEF ResultInv, ItemsInv, ResultItems, Size
<1>10. \A q \in ResultProcs : user'[q].pc = user[q].pc
  BY <1>2, <1>4, <1>5
<1>. QED  BY <1>2, <1>4, <1>7, <1>8, <1>9, <1>10 DEF ResultInv, UsersInv, Writing

LEMMA UnlockPreserves ==
    ASSUME ResultInv, NEW p \in ResultProcs, unlock(p)
    PROVE  ResultInv'
<1>1. /\ UNCHANGED <<coll, values, written, returned>> /\ user[p].pc # "idle"
      /\ user = [q \in ResultProcs |-> user[q]] /\ user' = [user EXCEPT ![p] = NotUsing]
      /\ wLocked' = IF wLocked = p THEN Nobody ELSE wLocked
      /\ rLocked' = rLocked \ {p}
  BY DEF unlock, ResultInv, UsersInv
<1>2. /\ user'[p] = NotUsing /\ user' = [q \in ResultProcs |-> user'[q]]
      /\ \A q \in ResultProcs \ {p} : user'[q] = user[q]
  BY <1>1
<1>3. UserOK(p)' /\ user'[p].pc = "idle"
  BY <1>2 DEF UserOK, NotUsing
<1>4. ASSUME NEW q \in ResultProcs \ {p} PROVE UserOK(q)'
  <2>1. user'[q] = user[q] /\ UserOK(q)
    BY <1>2 DEF ResultInv, UsersInv
  <2>. QED  BY <1>1, <2>1 DEF UserOK, Size
<1>5. ItemsInv'
  BY <1>1 DEF ResultInv, ItemsInv, ResultItems, Size
<1>. QED  BY <1>1, <1>2, <1>3, <1>4, <1>5, ResultsAssumption DEF ResultInv, UsersInv, Writing

LEMMA ResultPreserves == ASSUME ResultInv, [ResultNext]_resultVars PROVE ResultInv'
<1>1. CASE UNCHANGED resultVars
  <2>1. UNCHANGED <<coll, values, wLocked, rLocked, user, written, returned>>
    BY <1>1 DEF resultVars
  <2>2. ItemsInv'
    BY <2>1 DEF ResultInv, ItemsInv, ResultItems, Size
  <2>3. ASSUME NEW p \in ResultProcs PROVE UserOK(p)'
    <3>1. UserOK(p) /\ user'[p] = user[p] /\ Size' = Size
      BY <2>1 DEF ResultInv, UsersInv, Size
    <3>. QED  BY <2>1, <3>1 DEF UserOK
  <2>. QED  BY <2>1, <2>2, <2>3 DEF ResultInv, UsersInv, Writing
<1>. QED  BY <1>1, ListAddPreserves, AppendPreserves, MapPutPreserves, MapDelPreserves, DeletePreserves,
             ToSlicePreserves, CopyPreserves, UnlockPreserves DEF ResultNext

\* What a task made of its function: an error hides the value, and a value has one type.
LEMMA OutcomeTypes ==
    ASSUME NEW r \in Outcomes
    PROVE  LET types == {t \in {"bool", "int", "int32", "int64", "string"} : Typed(r, t) = ""}
           IN  /\ Cardinality(types) <= 1
               /\ (r.err # "" \/ r.canceled \/ r.timeout) => types = {}
<1> DEFINE types == {t \in {"bool", "int", "int32", "int64", "string"} : Typed(r, t) = ""}
<1>1. Cardinality({}) = 0 /\ Cardinality({"int"}) = 1
  BY FS_EmptySet, FS_Singleton
<1>2. CASE r.err # ""
  <2>1. types = {}
    BY <1>2 DEF Typed
  <2> HIDE DEF types
  <2>2. Cardinality(types) <= 1
    BY <1>1, <2>1
  <2>. QED  BY <2>1, <2>2 DEF types
<1>3. CASE r.err = ""
  <2>1. r \in {RunFn("void"), RunFn("err"), RunFn("val"), RunFn("valAndErr"), RunFn("ctx")}
    BY DEF Outcomes, TaskFns
  <2>2. RunFn("err").err = "failed" /\ RunFn("valAndErr").err = "failed" /\ RunFn("ctx").err = "deadline"
    BY DEF RunFn, NewResult, NewResultWithCtx
  <2>3. r = RunFn("void") \/ r = RunFn("val")
    BY <1>3, <2>1, <2>2
  <2>4. /\ RunFn("void") = [value |-> "nil", err |-> "", canceled |-> FALSE, timeout |-> FALSE]
        /\ RunFn("val") = [value |-> "int", err |-> "", canceled |-> FALSE, timeout |-> FALSE]
    BY DEF RunFn, NewResult
  <2>5. ~r.canceled /\ ~r.timeout
    <3>1. CASE r = [value |-> "nil", err |-> "", canceled |-> FALSE, timeout |-> FALSE]
      BY <3>1
    <3>2. CASE r = [value |-> "int", err |-> "", canceled |-> FALSE, timeout |-> FALSE]
      BY <3>2
    <3>. QED  BY <2>3, <2>4, <3>1, <3>2, Zenon
  <2>6. r.value = "nil" \/ r.value = "int"
    <3>1. CASE r = [value |-> "nil", err |-> "", canceled |-> FALSE, timeout |-> FALSE]
      BY <3>1
    <3>2. CASE r = [value |-> "int", err |-> "", canceled |-> FALSE, timeout |-> FALSE]
      BY <3>2
    <3>. QED  BY <2>3, <2>4, <3>1, <3>2, Zenon
  <2>7. types = {} \/ types = {"int"}
    BY <1>3, <2>6 DEF Typed
  <2> HIDE DEF types
  <2>8. Cardinality(types) <= 1
    BY <1>1, <2>7
  <2>. QED  BY <1>3, <2>5, <2>8 DEF types
<1>. QED  BY <1>2, <1>3

LEMMA ResultMeans ==
    ResultInv => ResultTypeOK /\ BatchTogether /\ CopyIsWhole /\ DeletedOnce /\ FailedHasNoValue
<1> SUFFICES ASSUME ResultInv PROVE ResultTypeOK /\ BatchTogether /\ CopyIsWhole /\ DeletedOnce /\ FailedHasNoValue
  OBVIOUS
<1>1. ResultTypeOK
  <2>1. DOMAIN values \subseteq (IF coll.kind = "list" THEN 1 .. 2 * MaxOps ELSE ResultKeys)
    BY ResultsAssumption DEF ResultInv, UsersInv, ItemsInv
  <2>. QED  BY <2>1 DEF ResultInv, UsersInv, UserOK, ResultTypeOK
<1>2. BatchTogether
  BY DEF ResultInv, ItemsInv, BatchTogether
<1>3. CopyIsWhole
  <2> SUFFICES ASSUME NEW p \in ResultProcs, user[p].pc = "copy", user[p].todo = {} PROVE user[p].copy = values
    BY DEF CopyIsWhole
  <2>1. user[p].copy = [k \in DOMAIN values \ {} |-> values[k]] /\ values = [k \in DOMAIN values |-> values[k]]
    BY DEF ResultInv, UsersInv, UserOK, ItemsInv
  <2>2. DOMAIN values \ {} = DOMAIN values
    OBVIOUS
  <2>. QED  BY <2>1, <2>2
<1>4. DeletedOnce
  BY DEF ResultInv, ItemsInv, DeletedOnce
<1>5. FailedHasNoValue
  <2>1. \A k \in DOMAIN values : values[k].r \in Outcomes
    BY DEF ResultInv, ItemsInv, ResultItems
  <2>. QED  BY <2>1, OutcomeTypes DEF FailedHasNoValue
<1>. QED  BY <1>1, <1>2, <1>3, <1>4, <1>5

\* The results (async/result.go): for any goroutines, keys and number of operations, what a
\* call adds to a list lies together, a copy is the whole map, an entry is handed back once,
\* and a failed result carries no value.
THEOREM CollectionsAreWhole ==
    ResultSpec => [](ResultTypeOK /\ BatchTogether /\ CopyIsWhole /\ DeletedOnce /\ FailedHasNoValue)
<1>. QED  BY ResultStarts, ResultPreserves, ResultMeans, PTL DEF ResultSpec

-----------------------------------------------------------------------------
(* StringSet.  Two structs never share a map: that is what keeps a Clone,   *)
(* or a set that was popped, apart from the set it came from.               *)

SetInv ==
    /\ ref \in [Vars -> Sets]
    /\ DOMAIN mapOf = {ref[v] : v \in Vars} /\ DOMAIN content = {mapOf[ref[v]] : v \in Vars}
    /\ \A v \in Vars : mapOf[ref[v]] \in Maps /\ Of(v) \in SUBSET Members /\ IsFiniteSet(Of(v))
    /\ \A v, w \in Vars : mapOf[ref[v]] = mapOf[ref[w]] => ref[v] = ref[w]

\* There is a struct and a map for a new set: two variables keep at most two.
LEMMA FreeFound ==
    ASSUME SetInv
    PROVE  freeSet \in Sets \ DOMAIN mapOf /\ freeMap \in Maps \ DOMAIN content
<1>1. ASSUME NEW S, NEW T, NEW a, NEW b, T = {a, b}, Cardinality(S) > Cardinality(Vars)
      PROVE  \E s \in S : s \notin T
  <2>1. IsFiniteSet(T) /\ Cardinality(T) <= 2 /\ Cardinality(T) \in Nat
    <3>1. IsFiniteSet({a}) /\ Cardinality({a}) = 1 /\ T = {a} \cup {b}
      BY <1>1, FS_Singleton
    <3>2. IsFiniteSet(T) /\ Cardinality(T) = IF b \in {a} THEN Cardinality({a}) ELSE Cardinality({a}) + 1
      BY <3>1, FS_AddElement
    <3>. QED  BY <3>1, <3>2
  <2>2. Cardinality(Vars) = 2
    <3>1. IsFiniteSet({"x"}) /\ Cardinality({"x"}) = 1 /\ Vars = {"x"} \cup {"y"} /\ "y" \notin {"x"}
      BY FS_Singleton DEF Vars
    <3>2. Cardinality(Vars) = IF "y" \in {"x"} THEN Cardinality({"x"}) ELSE Cardinality({"x"}) + 1
      BY <3>1, FS_AddElement
    <3>. QED  BY <3>1, <3>2
  <2>3. SUFFICES ASSUME S \in SUBSET T PROVE FALSE
    OBVIOUS
  <2>4. IsFiniteSet(S) /\ Cardinality(S) <= Cardinality(T)
    BY <2>1, <2>3, FS_Subset
  <2>5. Cardinality(S) \in Nat
    BY <2>4, FS_CardinalityType
  <2>. QED  BY <1>1, <2>1, <2>2, <2>4, <2>5
<1>2. DOMAIN mapOf = {ref["x"], ref["y"]} /\ DOMAIN content = {mapOf[ref["x"]], mapOf[ref["y"]]}
  BY DEF SetInv, Vars
<1>3. (\E s \in Sets : s \notin DOMAIN mapOf) /\ (\E g \in Maps : g \notin DOMAIN content)
  BY <1>1, <1>2, SetAssumption
<1>. QED  BY <1>3 DEF freeSet, freeMap

\* The sets are well formed after a step that gives no two of them one map.
LEMMA BecomesWell ==
    ASSUME NEW r \in [Vars -> Sets], NEW f, NEW c, Becomes(r, f, c),
           \A v \in Vars : f[r[v]] \in Maps /\ c[f[r[v]]] \in SUBSET Members /\ IsFiniteSet(c[f[r[v]]]),
           \A v, w \in Vars : f[r[v]] = f[r[w]] => r[v] = r[w]
    PROVE  /\ SetInv' /\ ref' = r
           /\ \A v \in Vars : content'[mapOf'[ref'[v]]] = c[f[r[v]]]
<1>1. /\ ref' = r /\ mapOf' = [s \in {r[v] : v \in Vars} |-> f[s]]
      /\ content' = [g \in {f[r[v]] : v \in Vars} |-> c[g]]
  BY DEF Becomes
<1>2. \A v \in Vars : mapOf'[r[v]] = f[r[v]] /\ content'[f[r[v]]] = c[f[r[v]]]
  BY <1>1
<1>3. DOMAIN mapOf' = {ref'[v] : v \in Vars} /\ DOMAIN content' = {mapOf'[ref'[v]] : v \in Vars}
  BY <1>1, <1>2
<1>. QED  BY <1>1, <1>2, <1>3 DEF SetInv, Of

\* What the property of a step asks: others keep their members.
OthersKept == \A v \in Vars : (ref'[v] = ref[v] /\ ref[v] # ref[last'.h]) => content'[mapOf'[ref'[v]]] = Of(v)

LEMMA InPlaceWell ==
    ASSUME SetInv, NEW h \in Vars, NEW H \in SUBSET Members, IsFiniteSet(H), InPlace(h, H), last'.h = h
    PROVE  SetInv' /\ OthersKept
<1> DEFINE c == Updated(content, mapOf[ref[h]], H)
<1>1. \A v \in Vars : c[mapOf[ref[v]]] = IF ref[v] = ref[h] THEN H ELSE Of(v)
  BY DEF SetInv, Updated, Of
<1>2. Becomes(ref, mapOf, c)
  BY DEF InPlace
<1> HIDE DEF c
<1>3. SetInv' /\ ref' = ref /\ \A v \in Vars : content'[mapOf'[ref'[v]]] = c[mapOf[ref[v]]]
  <2>1. \A v \in Vars : /\ mapOf[ref[v]] \in Maps /\ c[mapOf[ref[v]]] \in SUBSET Members
                        /\ IsFiniteSet(c[mapOf[ref[v]]])
    BY <1>1 DEF SetInv
  <2>2. ref \in [Vars -> Sets] /\ \A v, w \in Vars : mapOf[ref[v]] = mapOf[ref[w]] => ref[v] = ref[w]
    BY DEF SetInv
  <2>. QED  BY <1>2, <2>1, <2>2, BecomesWell
<1>. QED  BY <1>1, <1>3 DEF OthersKept

LEMMA NewMapWell ==
    ASSUME SetInv, NEW h \in Vars, NEW H \in SUBSET Members, IsFiniteSet(H), NewMap(h, H), last'.h = h
    PROVE  SetInv' /\ OthersKept
<1> DEFINE f == Updated(mapOf, ref[h], freeMap)
           c == Updated(content, freeMap, H)
<1>1. \A v \in Vars : /\ f[ref[v]] = IF ref[v] = ref[h] THEN freeMap ELSE mapOf[ref[v]]
                      /\ c[f[ref[v]]] = IF ref[v] = ref[h] THEN H ELSE Of(v)
  BY FreeFound DEF SetInv, Updated, Of
<1>2. Becomes(ref, f, c)
  BY DEF NewMap
<1> HIDE DEF f, c
<1>3. \A v, w \in Vars : f[ref[v]] = f[ref[w]] => ref[v] = ref[w]
  BY <1>1, FreeFound DEF SetInv
<1>4. SetInv' /\ ref' = ref /\ \A v \in Vars : content'[mapOf'[ref'[v]]] = c[f[ref[v]]]
  <2>1. \A v \in Vars : f[ref[v]] \in Maps /\ c[f[ref[v]]] \in SUBSET Members /\ IsFiniteSet(c[f[ref[v]]])
    BY <1>1, FreeFound DEF SetInv
  <2>2. ref \in [Vars -> Sets]
    BY DEF SetInv
  <2>. QED  BY <1>2, <1>3, <2>1, <2>2, BecomesWell
<1>. QED  BY <1>1, <1>4 DEF OthersKept

LEMMA NewSetWell ==
    ASSUME SetInv, NEW v \in Vars, NEW S \in SUBSET Members, IsFiniteSet(S), NewSet(v, S)
    PROVE  /\ SetInv' /\ OthersKept /\ content'[mapOf'[ref'[v]]] = S
           /\ \A w \in Vars \ {v} : content'[mapOf'[ref'[w]]] = Of(w)
<1> DEFINE r == Updated(ref, v, freeSet)
           f == Updated(mapOf, freeSet, freeMap)
           c == Updated(content, freeMap, S)
<1>1. r \in [Vars -> Sets] /\ \A w \in Vars : r[w] = IF w = v THEN freeSet ELSE ref[w]
  BY FreeFound DEF SetInv, Updated
<1>2. \A w \in Vars : /\ f[r[w]] = IF w = v THEN freeMap ELSE mapOf[ref[w]]
                      /\ c[f[r[w]]] = IF w = v THEN S ELSE Of(w)
  <2> HIDE DEF r
  <2>1. f[freeSet] = freeMap /\ \A w \in Vars : f[ref[w]] = mapOf[ref[w]]
    BY FreeFound DEF SetInv, Updated
  <2>2. c[freeMap] = S /\ \A w \in Vars : c[mapOf[ref[w]]] = Of(w)
    BY FreeFound DEF SetInv, Updated, Of
  <2>. QED  BY <1>1, <2>1, <2>2
<1>3. Becomes(r, f, c)
  BY DEF NewSet
<1> HIDE DEF r, f, c
<1>4. \A w, u \in Vars : f[r[w]] = f[r[u]] => r[w] = r[u]
  BY <1>1, <1>2, FreeFound DEF SetInv
<1>5. SetInv' /\ ref' = r /\ \A w \in Vars : content'[mapOf'[ref'[w]]] = c[f[r[w]]]
  <2>1. \A w \in Vars : f[r[w]] \in Maps /\ c[f[r[w]]] \in SUBSET Members /\ IsFiniteSet(c[f[r[w]]])
    BY <1>2, FreeFound DEF SetInv
  <2>. QED  BY <1>1, <1>3, <1>4, <2>1, BecomesWell
<1>6. r[v] # ref[v]
  BY <1>1, FreeFound DEF SetInv
<1>. QED  BY <1>1, <1>2, <1>5, <1>6 DEF OthersKept

LEMMA AssignWell ==
    ASSUME SetInv, NEW v \in Vars, NEW h \in Vars, Assign(v, h)
    PROVE  SetInv' /\ OthersKept
<1> DEFINE r == Updated(ref, v, ref[h])
<1>1. r \in [Vars -> Sets] /\ \A w \in Vars : r[w] = IF w = v THEN ref[h] ELSE ref[w]
  BY DEF SetInv, Updated
<1>2. Becomes(r, mapOf, content) /\ last'.h = h
  BY DEF Assign, On
<1> HIDE DEF r
<1>3. \A w \in Vars : mapOf[r[w]] \in Maps /\ content[mapOf[r[w]]] \in SUBSET Members /\ IsFiniteSet(content[mapOf[r[w]]])
  BY <1>1 DEF SetInv, Of
<1>4. \A w, u \in Vars : mapOf[r[w]] = mapOf[r[u]] => r[w] = r[u]
  BY <1>1 DEF SetInv
<1>5. SetInv' /\ ref' = r /\ \A w \in Vars : content'[mapOf'[ref'[w]]] = content[mapOf[r[w]]]
  BY <1>1, <1>2, <1>3, <1>4, BecomesWell
<1>. QED  BY <1>1, <1>2, <1>5 DEF OthersKept, Of

\* What Pop(v, h, n) leaves and returns.
Splits(v, h, n) ==
    LET popped == content'[mapOf'[ref'[v]]]
        left == content'[mapOf'[ref'[h]]]
    IN  /\ popped \cup left = Of(h) /\ popped \cap left = {}
        /\ Cardinality(popped) = IF Cardinality(Of(h)) < n THEN Cardinality(Of(h)) ELSE n

LEMMA PopAllWell ==
    ASSUME SetInv, NEW v \in Vars, NEW h \in Vars, PopAll(v, h), last'.h = h
    PROVE  /\ SetInv' /\ OthersKept
           /\ v # h => content'[mapOf'[ref'[v]]] = Of(h) /\ content'[mapOf'[ref'[h]]] = {}
<1> DEFINE r == Updated(ref, v, freeSet)
           f == Updated(Updated(mapOf, ref[h], freeMap), freeSet, mapOf[ref[h]])
           c == Updated(content, freeMap, {})
<1>1. r \in [Vars -> Sets] /\ \A w \in Vars : r[w] = IF w = v THEN freeSet ELSE ref[w]
  BY FreeFound DEF SetInv, Updated
<1>2. /\ f[freeSet] = mapOf[ref[h]]
      /\ \A w \in Vars : f[ref[w]] = IF ref[w] = ref[h] THEN freeMap ELSE mapOf[ref[w]]
  BY FreeFound DEF SetInv, Updated
<1>3. c[freeMap] = {} /\ \A w \in Vars : c[mapOf[ref[w]]] = Of(w)
  BY FreeFound DEF SetInv, Updated, Of
<1>4. Becomes(r, f, c)
  BY DEF PopAll
<1> HIDE DEF r, f, c
<1>5. \A w, u \in Vars : f[r[w]] = f[r[u]] => r[w] = r[u]
  BY <1>1, <1>2, FreeFound DEF SetInv
<1>6. \A w \in Vars : f[r[w]] \in Maps /\ c[f[r[w]]] \in SUBSET Members /\ IsFiniteSet(c[f[r[w]]])
  <2>1. IsFiniteSet({})
    BY FS_EmptySet
  <2>2. \A w \in Vars : f[r[w]] \in Maps /\ (c[f[r[w]]] = {} \/ \E u \in Vars : c[f[r[w]]] = Of(u))
    BY <1>1, <1>2, <1>3, FreeFound DEF SetInv
  <2>3. \A u \in Vars : Of(u) \in SUBSET Members /\ IsFiniteSet(Of(u))
    BY DEF SetInv
  <2>. QED  BY <2>1, <2>2, <2>3
<1>7. SetInv' /\ ref' = r /\ \A w \in Vars : content'[mapOf'[ref'[w]]] = c[f[r[w]]]
  BY <1>1, <1>4, <1>5, <1>6, BecomesWell
<1>8. r[v] # ref[v]
  BY <1>1, FreeFound DEF SetInv
<1>. QED  BY <1>1, <1>2, <1>3, <1>7, <1>8 DEF OthersKept

LEMMA PopSomeWell ==
    ASSUME SetInv, NEW v \in Vars, NEW h \in Vars, NEW n, PopSome(v, h, n), last'.h = h
    PROVE  /\ SetInv' /\ OthersKept
           /\ v # h => /\ Cardinality(content'[mapOf'[ref'[v]]]) = n
                       /\ content'[mapOf'[ref'[v]]] \subseteq Of(h)
                       /\ content'[mapOf'[ref'[h]]] = Of(h) \ content'[mapOf'[ref'[v]]]
<1> DEFINE r == Updated(ref, v, freeSet)
           f == Updated(mapOf, freeSet, freeMap)
           c(S) == Updated(Updated(content, mapOf[ref[h]], Of(h) \ S), freeMap, S)
<1>1. PICK S \in SUBSET Of(h) : Cardinality(S) = n /\ Becomes(r, f, c(S))
  BY DEF PopSome
<1>2. r \in [Vars -> Sets] /\ \A w \in Vars : r[w] = IF w = v THEN freeSet ELSE ref[w]
  BY FreeFound DEF SetInv, Updated
<1>3. f[freeSet] = freeMap /\ \A w \in Vars : f[ref[w]] = mapOf[ref[w]]
  BY FreeFound DEF SetInv, Updated
<1>4. c(S)[freeMap] = S /\ \A w \in Vars : c(S)[mapOf[ref[w]]] = IF ref[w] = ref[h] THEN Of(h) \ S ELSE Of(w)
  BY FreeFound DEF SetInv, Updated, Of
<1> HIDE DEF r, f, c
<1>5. \A w, u \in Vars : f[r[w]] = f[r[u]] => r[w] = r[u]
  BY <1>2, <1>3, FreeFound DEF SetInv
<1>6. IsFiniteSet(S) /\ IsFiniteSet(Of(h) \ S) /\ S \in SUBSET Members /\ Of(h) \ S \in SUBSET Members
  BY <1>1, FS_Subset DEF SetInv
<1>7. \A w \in Vars : f[r[w]] \in Maps /\ c(S)[f[r[w]]] \in SUBSET Members /\ IsFiniteSet(c(S)[f[r[w]]])
  BY <1>2, <1>3, <1>4, <1>6, FreeFound DEF SetInv
<1>8. SetInv' /\ ref' = r /\ \A w \in Vars : content'[mapOf'[ref'[w]]] = c(S)[f[r[w]]]
  <2> DEFINE d == c(S)
  <2>1. Becomes(r, f, d) /\ \A w \in Vars : f[r[w]] \in Maps /\ d[f[r[w]]] \in SUBSET Members /\ IsFiniteSet(d[f[r[w]]])
    BY <1>1, <1>7
  <2> HIDE DEF d
  <2>2. SetInv' /\ ref' = r /\ \A w \in Vars : content'[mapOf'[ref'[w]]] = d[f[r[w]]]
    BY <1>2, <1>5, <2>1, BecomesWell
  <2>. QED  BY <2>2 DEF d
<1>9. r[v] # ref[v]
  BY <1>2, FreeFound DEF SetInv
<1>10. OthersKept
  BY <1>2, <1>3, <1>4, <1>8, <1>9 DEF OthersKept
<1>11. ASSUME v # h
       PROVE  content'[mapOf'[ref'[v]]] = S /\ content'[mapOf'[ref'[h]]] = Of(h) \ S
  BY <1>2, <1>3, <1>4, <1>8, <1>11
<1>. QED  BY <1>1, <1>8, <1>10, <1>11

LEMMA PopWell ==
    ASSUME SetInv, NEW v \in Vars, NEW h \in Vars, NEW n \in Nat, Pop(v, h, n)
    PROVE  SetInv' /\ OthersKept /\ (v # h => Splits(v, h, n))
<1>1. IsFiniteSet(Of(h)) /\ Cardinality(Of(h)) \in Nat
  BY FS_CardinalityType DEF SetInv
<1>2. last'.h = h
  BY DEF Pop
<1>3. CASE n < 1 /\ NewSet(v, {})
  <2>1. IsFiniteSet({}) /\ Cardinality({}) = 0 /\ {} \in SUBSET Members
    BY FS_EmptySet
  <2>2. /\ SetInv' /\ OthersKept /\ content'[mapOf'[ref'[v]]] = {}
        /\ v # h => content'[mapOf'[ref'[h]]] = Of(h)
    BY <1>3, <2>1, NewSetWell
  <2>. QED  BY <1>1, <1>3, <2>1, <2>2 DEF Splits
<1>4. CASE n >= 1 /\ Cardinality(Of(h)) <= n /\ PopAll(v, h)
  BY <1>1, <1>2, <1>4, PopAllWell DEF Splits
<1>5. CASE n >= 1 /\ Cardinality(Of(h)) > n /\ PopSome(v, h, n)
  BY <1>1, <1>2, <1>5, PopSomeWell DEF Splits
<1>. QED  BY <1>3, <1>4, <1>5 DEF Pop

\* Every operation: the sets stay well formed, the others keep their members, Pop splits.
LEMMA SetStep ==
    ASSUME SetInv, SetNext
    PROVE  SetInv' /\ OthersKept /\ (last'.popped # last'.h => Splits(last'.popped, last'.h, last'.n))
<1>1. PICK h \in Vars, o \in Vars :
        \/ \E i \in Members : Add(h, i) \/ SetRemove(h, i) \/ NewStringSet(h, {i})
        \/ \E n \in 0 .. Cardinality(Members) : Pop(o, h, n)
        \/ SetClear(h) \/ Assign(o, h) \/ Clone(o, h)
        \/ Union(h, o) \/ Diff(h, o) \/ Intersect(h, o)
        \/ \E v \in Vars : NewDiff(v, h, o)
  BY DEF SetNext
<1>2. /\ IsFiniteSet(Of(h)) /\ IsFiniteSet(Of(o)) /\ Of(h) \in SUBSET Members /\ Of(o) \in SUBSET Members
  BY DEF SetInv
<1>3. /\ IsFiniteSet({}) /\ IsFiniteSet(Of(h) \cup Of(o)) /\ IsFiniteSet(Of(h) \ Of(o)) /\ IsFiniteSet(Of(h) \cap Of(o))
      /\ \A i : IsFiniteSet({i}) /\ IsFiniteSet(Of(h) \cup {i}) /\ IsFiniteSet(Of(h) \ {i})
  BY <1>2, FS_EmptySet, FS_Union, FS_Subset, FS_Singleton
<1>4. ASSUME NEW g \in Vars, On(g) PROVE last'.h = g /\ last'.popped = last'.h
  BY <1>4 DEF On
<1>5. CASE \E i \in Members : Add(h, i) \/ SetRemove(h, i) \/ NewStringSet(h, {i})
  <2>1. PICK i \in Members : Add(h, i) \/ SetRemove(h, i) \/ NewStringSet(h, {i})
    BY <1>5
  <2>2. CASE Add(h, i)
    BY <1>2, <1>3, <1>4, <2>2, InPlaceWell DEF Add
  <2>3. CASE SetRemove(h, i)
    BY <1>2, <1>3, <1>4, <2>3, InPlaceWell DEF SetRemove
  <2>4. CASE NewStringSet(h, {i})
    BY <1>3, <1>4, <2>4, NewSetWell DEF NewStringSet
  <2>. QED  BY <2>1, <2>2, <2>3, <2>4
<1>6. CASE \E n \in 0 .. Cardinality(Members) : Pop(o, h, n)
  <2>1. PICK n \in 0 .. Cardinality(Members) : Pop(o, h, n)
    BY <1>6
  <2>2. n \in Nat /\ last' = [h |-> h, popped |-> o, n |-> n]
    BY <2>1 DEF Pop
  <2>. QED  BY <2>1, <2>2, PopWell
<1>7. CASE SetClear(h)
  BY <1>3, <1>4, <1>7, NewMapWell DEF SetClear
<1>8. CASE Assign(o, h)
  BY <1>4, <1>8, AssignWell DEF Assign
<1>9. CASE Clone(o, h)
  BY <1>2, <1>4, <1>9, NewSetWell DEF Clone
<1>10. CASE Union(h, o)
  BY <1>2, <1>3, <1>4, <1>10, InPlaceWell DEF Union
<1>11. CASE Diff(h, o)
  BY <1>2, <1>3, <1>4, <1>11, InPlaceWell DEF Diff
<1>12. CASE Intersect(h, o)
  BY <1>2, <1>3, <1>4, <1>12, NewMapWell DEF Intersect
<1>13. CASE \E v \in Vars : NewDiff(v, h, o)
  BY <1>2, <1>3, <1>4, <1>13, NewSetWell DEF NewDiff
<1>. QED  BY <1>1, <1>5, <1>6, <1>7, <1>8, <1>9, <1>10, <1>11, <1>12, <1>13

LEMMA SetStarts == SetInit => SetInv
<1> SUFFICES ASSUME SetInit PROVE SetInv
  OBVIOUS
<1>1. PICK s \in Sets, g \in Maps :
        ref = [v \in Vars |-> s] /\ mapOf = [t \in {s} |-> g] /\ content = [x \in {g} |-> {}]
  BY DEF SetInit
<1>2. \A v \in Vars : ref[v] = s /\ mapOf[ref[v]] = g /\ Of(v) = {}
  BY <1>1 DEF Of
<1>3. {ref[v] : v \in Vars} = {s} /\ {mapOf[ref[v]] : v \in Vars} = {g}
  BY <1>2 DEF Vars
<1>. QED  BY <1>1, <1>2, <1>3, FS_EmptySet DEF SetInv

LEMMA SetPreserves == SetInv /\ [SetNext]_setVars => SetInv'
<1>1. SetInv /\ UNCHANGED setVars => SetInv'
  BY DEF setVars, SetInv, Of
<1>. QED  BY <1>1, SetStep

LEMMA SetMeans == SetInv => SetTypeOK /\ EqualIsEqual
<1> SUFFICES ASSUME SetInv PROVE SetTypeOK /\ EqualIsEqual
  OBVIOUS
<1>1. SetTypeOK
  BY DEF SetInv, SetTypeOK, Of
<1>2. EqualIsEqual
  <2>1. "x" \in Vars /\ "y" \in Vars
    BY DEF Vars
  <2>2. IsFiniteSet(Of("x")) /\ IsFiniteSet(Of("y"))
    BY <2>1 DEF SetInv
  <2>3. ASSUME NEW S, NEW T, IsFiniteSet(S), IsFiniteSet(T), Cardinality(S) = Cardinality(T), S \in SUBSET T
        PROVE  S = T
    BY <2>3, FS_Subset
  <2>4. Equal("x", "y") <=> Of("x") = Of("y")
    BY <2>2, <2>3 DEF Equal
  <2>5. Equal("y", "x") <=> Of("x") = Of("y")
    BY <2>2, <2>3 DEF Equal
  <2>6. (ContainsSet("x", "y") /\ ContainsSet("y", "x")) <=> Of("x") = Of("y")
    BY DEF ContainsSet
  <2>. QED  BY <2>4, <2>5, <2>6 DEF EqualIsEqual, Equal, ContainsSet
<1>. QED  BY <1>1, <1>2

LEMMA SetActs ==
    ASSUME SetInv, [SetNext]_setVars
    PROVE  /\ [\A v \in Vars :
                  (ref'[v] = ref[v] /\ ref[v] # ref[last'.h]) => content'[mapOf'[ref[v]]] = Of(v)]_setVars
           /\ [last'.popped # last'.h =>
                  LET popped == content'[mapOf'[ref'[last'.popped]]]
                      left == content'[mapOf'[ref'[last'.h]]]
                      was == Of(last'.h)
                  IN  /\ popped \cup left = was /\ popped \cap left = {}
                      /\ Cardinality(popped) = IF Cardinality(was) < last'.n THEN Cardinality(was) ELSE last'.n]_setVars
<1>1. [\A v \in Vars :
          (ref'[v] = ref[v] /\ ref[v] # ref[last'.h]) => content'[mapOf'[ref[v]]] = Of(v)]_setVars
  BY SetStep DEF OthersKept
<1>2. [last'.popped # last'.h =>
          LET popped == content'[mapOf'[ref'[last'.popped]]]
              left == content'[mapOf'[ref'[last'.h]]]
              was == Of(last'.h)
          IN  /\ popped \cup left = was /\ popped \cap left = {}
              /\ Cardinality(popped) = IF Cardinality(was) < last'.n THEN Cardinality(was) ELSE last'.n]_setVars
  BY SetStep DEF Splits
<1>. QED  BY <1>1, <1>2

\* StringSet (_set/string_set.go), for any members: an operation changes only the set it is
\* called on, Pop splits that set into what it returns and what is left, and Equal says
\* what equality of sets says.
THEOREM SetsStayApart == SetSpec => [](SetTypeOK /\ EqualIsEqual) /\ OnlyReceiverChanges /\ PopSplits
<1>1. SetSpec => []SetInv
  BY SetStarts, SetPreserves, PTL DEF SetSpec
<1>. QED  BY <1>1, SetActs, SetMeans, PTL DEF SetSpec, OnlyReceiverChanges, PopSplits

-----------------------------------------------------------------------------
(* The compare-and-set scripts: redis runs a script alone, so its type and  *)
(* what it reports are preserved operation by operation.                    *)

CasForms == [form : {"int", "padded", "bool", "word", "empty"}, n : Int]

LEMMA IntsAreInt == Ints \subseteq Int
BY StrconvAssumption DEF Ints

LEMMA CasTyped == CasTypeOK => stored \in CasForms
<1>1. CasTexts \subseteq CasForms
  BY CasAssumption, IntsAreInt, Zenon DEF CasForms
<1>2. Empty \in CasForms /\ \A n \in Ints : FormatInt(n) \in CasForms
  BY IntsAreInt DEF CasForms, FormatInt, Text, Empty
<1>. QED  BY <1>1, <1>2 DEF CasTypeOK

LEMMA CurrentTyped ==
    ASSUME CasTypeOK
    PROVE  /\ current \in CasForms /\ (~present => current = Empty) /\ (present => current = stored)
           /\ current = [form |-> current.form, n |-> current.n]
<1>1. current \in CasForms /\ (~present => current = Empty) /\ (present => current = stored)
  BY CasTyped DEF current, CasTypeOK, CasForms, Empty, Text
<1>. QED  BY <1>1 DEF CasForms

\* A text is the numeral of n exactly if it parses to n and is spelled as one.
LEMMA Parses ==
    ASSUME NEW t, t = [form |-> t.form, n |-> t.n], NEW n
    PROVE  /\ t = FormatInt(n) <=> (~ParseInt(t).err /\ ParseInt(t).val = n /\ t.form # "padded")
           /\ ParseInt(t).err <=> t.form \notin {"int", "padded"}
           /\ ParseInt(t).err \in BOOLEAN
           /\ ParseInt(t).val = IF t.form \in {"int", "padded"} THEN t.n ELSE 0
BY DEF FormatInt, Text, ParseInt, Ok, Fail

\* What is in range does not wrap.
LEMMA InRange == ASSUME NEW n \in Ints PROVE Wrap(n) = n
<1>1. n + Half \in 0 .. 2 * Half - 1 /\ Half \in Nat /\ n \in Int
  BY StrconvAssumption DEF Ints
<1>2. \A w \in Nat \ {0} : \A i \in 0 .. w - 1 : i % w = i
  OBVIOUS
<1>3. 2 * Half \in Nat \ {0}
  BY StrconvAssumption
<1>4. (n + Half) % (2 * Half) = n + Half
  BY <1>1, <1>2, <1>3
<1>. QED  BY <1>1, <1>4 DEF Wrap

\* What a call may do: only an IncrNEQ of a missing key fails after its effect.
CasOK == CasTypeOK' /\ ReportedIsStored' /\ (~cas'.ok => CasUnchanged \/ (cas'.op = "IncrNEQ" /\ ~present /\ cas'.err))

LEMMA IncrByTyped ==
    ASSUME CasTypeOK, NEW n \in Int, incrBy(n), ~incrFails(n)
    PROVE  CasTypeOK' /\ present' /\ stored' = FormatInt(ParseInt(current).val + n)
BY DEF CasTypeOK, incrBy, incrFails

LEMMA IncrComparedOK ==
    ASSUME CasTypeOK, NEW op \in {"IncrEQ", "IncrNEQ"}, NEW e \in CasInts, NEW n \in CasInts, IncrCompared(op, e, n)
    PROVE  CasOK
<1> DEFINE old == ParseInt(current)
           does == Matches(op, FormatInt(e))
           agrees == ~old.err /\ Agrees(op, old.val, e)
           padded == current.form = "padded"
<1>1. /\ e \in Int /\ n \in Int /\ old.err \in BOOLEAN
      /\ current = FormatInt(e) <=> (~old.err /\ old.val = e /\ ~padded)
      /\ ~present => old.err
      /\ padded => present /\ stored.form = "padded" /\ incrFails(n)
  <2>1. current.form = "empty" => old.err
    BY CurrentTyped, Parses
  <2>2. /\ e \in Int /\ n \in Int /\ old.err \in BOOLEAN
        /\ current = FormatInt(e) <=> (~old.err /\ old.val = e /\ ~padded)
    BY CasAssumption, IntsAreInt, CurrentTyped, Parses
  <2>3. (~present => old.err) /\ (padded => present /\ stored.form = "padded")
    BY <2>1, CurrentTyped DEF Empty, Text
  <2>. QED  BY <2>2, <2>3 DEF incrFails
<1>2. CASE does /\ incrFails(n)
  <2>1. cas' = [op |-> op, ok |-> FALSE, val |-> 0, err |-> TRUE] /\ CasUnchanged
    BY <1>2 DEF IncrCompared, CasAnswer
  <2>. QED  BY <2>1 DEF CasOK, CasTypeOK, ReportedIsStored, CasUnchanged
<1>3. CASE ~(does /\ incrFails(n))
  <2>1. cas' = [op |-> op, ok |-> agrees, val |-> IF agrees THEN Wrap(old.val + n) ELSE old.val, err |-> old.err]
    BY <1>3 DEF IncrCompared, CasAnswer
  <2>2. /\ cas'.op = op /\ (cas'.ok <=> agrees) /\ (cas'.ok => cas'.val = Wrap(old.val + n))
        /\ (cas'.err <=> old.err)
    BY <2>1
  <2>3. IF does THEN incrBy(n) ELSE CasUnchanged
    BY <1>3 DEF IncrCompared
  <2>4. agrees => does \/ (op = "IncrEQ" /\ padded)
    BY <1>1 DEF Agrees, Matches
  <2>5. ~agrees => ~does \/ (op = "IncrNEQ" /\ old.err)
    BY <1>1, <1>3 DEF Agrees, Matches
  <2>6. does => (old.err => ~present) /\ Wrap(old.val + n) = old.val + n
    <3>1. old.err => current.form # "int"
      BY CurrentTyped, Parses
    <3>2. does => (present => stored.form = "int") /\ old.val + n \in Ints
      BY <1>3 DEF incrFails
    <3>. QED  BY <3>1, <3>2, CurrentTyped, InRange
  <2>7. CASE does
    <3>1. CasTypeOK' /\ present' /\ stored' = FormatInt(old.val + n)
      BY <1>1, <1>3, <2>3, <2>7, IncrByTyped
    <3>. QED  BY <2>2, <2>5, <2>6, <2>7, <3>1 DEF CasOK, ReportedIsStored
  <2>8. CASE ~does
    BY <2>2, <2>3, <2>4, <2>8, <1>1 DEF CasOK, CasTypeOK, ReportedIsStored, CasUnchanged
  <2>. QED  BY <2>7, <2>8
<1>. QED  BY <1>2, <1>3

LEMMA HIncrOK ==
    ASSUME CasTypeOK, NEW e \in CasInts, NEW n \in CasInts, HIncrEQ(e, n)
    PROVE  CasOK
<1> DEFINE does == Matches("HIncrEQ", FormatInt(e))
<1>1. e \in Int /\ n \in Int /\ (does => ParseInt(current).val = e)
  BY CasAssumption, IntsAreInt, CurrentTyped, Parses DEF Matches
<1>2. CASE does /\ incrFails(n)
  <2>1. cas' = [op |-> "HIncrEQ", ok |-> FALSE, val |-> 0, err |-> TRUE] /\ CasUnchanged
    BY <1>2 DEF HIncrEQ, CasAnswer
  <2>. QED  BY <2>1 DEF CasOK, CasTypeOK, ReportedIsStored, CasUnchanged
<1>3. CASE ~(does /\ incrFails(n))
  <2>1. cas' = [op |-> "HIncrEQ", ok |-> does, val |-> IF does THEN e + n ELSE 0, err |-> FALSE]
    BY <1>3 DEF HIncrEQ, CasAnswer
  <2>2. cas'.op = "HIncrEQ" /\ (cas'.ok <=> does) /\ (does => cas'.val = e + n)
    BY <2>1
  <2>3. IF does THEN incrBy(n) ELSE CasUnchanged
    BY <1>3 DEF HIncrEQ
  <2>4. CASE does
    <3>1. CasTypeOK' /\ present' /\ stored' = FormatInt(ParseInt(current).val + n)
      BY <1>1, <1>3, <2>3, <2>4, IncrByTyped
    <3>. QED  BY <1>1, <2>2, <2>4, <3>1 DEF CasOK, ReportedIsStored
  <2>5. CASE ~does
    BY <2>2, <2>3, <2>5 DEF CasOK, CasTypeOK, ReportedIsStored, CasUnchanged
  <2>. QED  BY <2>4, <2>5
<1>. QED  BY <1>2, <1>3

LEMMA CasStep == CasTypeOK /\ CasNext => CasOK
<1> SUFFICES ASSUME CasTypeOK, CasNext PROVE CasOK
  OBVIOUS
<1>1. ASSUME NEW e \in CasTexts \cup {Empty}, DelEQ(e) \/ DelNEQ(e) \/ HDelEQ(e) PROVE CasOK
  <2>1. PICK op \in {"DelEQ", "DelNEQ", "HDelEQ"} : CasDel(op, e)
    BY <1>1 DEF DelEQ, DelNEQ, HDelEQ
  <2>2. cas' = [op |-> op, ok |-> Matches(op, e), val |-> 0, err |-> FALSE]
    BY <2>1 DEF CasDel, CasAnswer
  <2>3. cas'.op = op /\ (cas'.ok <=> Matches(op, e)) /\ op \notin increments
    BY <2>2 DEF increments
  <2>4. CASE Matches(op, e)
    BY <2>1, <2>3, <2>4 DEF CasDel, CasOK, CasTypeOK, ReportedIsStored
  <2>5. CASE ~Matches(op, e)
    BY <2>1, <2>3, <2>5 DEF CasDel, CasOK, CasTypeOK, ReportedIsStored, CasUnchanged
  <2>. QED  BY <2>4, <2>5
<1>2. ASSUME NEW e \in CasTexts \cup {Empty}, NEW v \in CasTexts, SetEQ(e, v) \/ SetNEQ(e, v) \/ HSetEQ(e, v) PROVE CasOK
  <2>1. PICK op \in {"SetEQ", "SetNEQ", "HSetEQ"} : CasSet(op, e, v)
    BY <1>2 DEF SetEQ, SetNEQ, HSetEQ
  <2>2. cas' = [op |-> op, ok |-> Matches(op, e), val |-> 0, err |-> FALSE]
    BY <2>1 DEF CasSet, CasAnswer
  <2>3. cas'.op = op /\ (cas'.ok <=> Matches(op, e)) /\ op \notin increments
    BY <2>2 DEF increments
  <2>4. CASE Matches(op, e)
    BY <2>1, <2>3, <2>4 DEF CasSet, CasOK, CasTypeOK, ReportedIsStored
  <2>5. CASE ~Matches(op, e)
    BY <2>1, <2>3, <2>5 DEF CasSet, CasOK, CasTypeOK, ReportedIsStored, CasUnchanged
  <2>. QED  BY <2>4, <2>5
<1>3. ASSUME NEW e \in CasInts, NEW n \in CasInts, IncrEQ(e, n) \/ IncrNEQ(e, n) \/ HIncrEQ(e, n) PROVE CasOK
  BY <1>3, IncrComparedOK, HIncrOK DEF IncrEQ, IncrNEQ
<1>. QED  BY <1>1, <1>2, <1>3 DEF CasNext

LEMMA CasStarts == CasInit => CasTypeOK /\ ReportedIsStored
<1> SUFFICES ASSUME CasInit PROVE CasTypeOK /\ ReportedIsStored
  OBVIOUS
<1>1. present \in BOOLEAN /\ ~present /\ stored = Empty
  BY DEF CasInit
<1>2. cas.op = "new"
  BY DEF CasInit
<1>. QED  BY <1>1, <1>2 DEF CasTypeOK, ReportedIsStored, increments

LEMMA CasPreserves == CasTypeOK /\ ReportedIsStored /\ [CasNext]_casVars => (CasTypeOK /\ ReportedIsStored)'
<1>1. CasTypeOK /\ ReportedIsStored /\ UNCHANGED casVars => (CasTypeOK /\ ReportedIsStored)'
  BY DEF casVars, CasTypeOK, ReportedIsStored
<1>. QED  BY <1>1, CasStep DEF CasOK

LEMMA CasActs ==
    CasTypeOK /\ [CasNext]_casVars =>
        [~cas'.ok => (CasUnchanged \/ (cas'.op = "IncrNEQ" /\ ~present /\ cas'.err))]_casVars
BY CasStep DEF CasOK

\* The scripts (rdb/ca.go), for any texts, numerals in other spellings included, and
\* integers: what a call reports is what the key holds, but for IncrEQ of a numeral in
\* another spelling, and a call that fails leaves the key as it was, but for IncrNEQ of a
\* missing key with an error.
THEOREM CasReportsTruly == CasSpec => [](CasTypeOK /\ ReportedIsStored) /\ FailureUntouched
<1>1. CasSpec => [](CasTypeOK /\ ReportedIsStored)
  BY CasStarts, CasPreserves, PTL DEF CasSpec
<1>. QED  BY <1>1, CasActs, PTL DEF CasSpec, FailureUntouched

-----------------------------------------------------------------------------
(* MemoryStore.  HandedBackOnce needs that the items of two keys come from  *)
(* two Puts, and that no id above the number of Puts is in use.             *)

\* An item of the store was put once: the ids of the keys differ.
StoreInv ==
    /\ StoreTypeOK /\ HandedBackOnce /\ handed = [i \in 1 .. MaxPuts |-> handed[i]]
    /\ \A k, l \in DOMAIN m : m[k].id = m[l].id => k = l
    /\ \A i \in 1 .. MaxPuts : i > puts => handed[i] = 0 /\ i \notin cleared

LEMMA NothingStored == DOMAIN <<>> = {}
OBVIOUS

LEMMA StoreStarts == StoreInit => StoreInv
<1> SUFFICES ASSUME StoreInit PROVE StoreInv
  OBVIOUS
<1>1. DOMAIN m = {} /\ puts = 0 /\ handed = [i \in 1 .. MaxPuts |-> 0] /\ cleared = {}
  BY NothingStored DEF StoreInit
<1>. QED  BY <1>1, StoreAssumption DEF StoreInv, StoreTypeOK, HandedBackOnce

\* The item of a key is handed back.
LEMMA HandsBack ==
    ASSUME StoreInv, NEW key \in StoreKeys, HandBack(key)
    PROVE  /\ handed' = [i \in 1 .. MaxPuts |-> handed'[i]]
           /\ \A i \in 1 .. MaxPuts : /\ handed'[i] \in Nat
                                     /\ handed'[i] = IF key \in DOMAIN m /\ m[key].id = i
                                                     THEN handed[i] + 1 ELSE handed[i]
<1>1. \A i \in 1 .. MaxPuts : handed[i] \in Nat
  BY DEF StoreInv, StoreTypeOK
<1>2. handed = [i \in 1 .. MaxPuts |-> handed[i]]
  BY DEF StoreInv
<1>3. CASE key \in DOMAIN m
  <2> DEFINE d == m[key].id
  <2>1. handed' = [handed EXCEPT ![d] = handed[d] + 1] /\ d \in 1 .. MaxPuts
    BY <1>3 DEF HandBack, StoreInv, StoreTypeOK, Items
  <2> HIDE DEF d
  <2>2. /\ handed' = [i \in 1 .. MaxPuts |-> handed'[i]]
        /\ \A i \in 1 .. MaxPuts : handed'[i] = IF d = i THEN handed[i] + 1 ELSE handed[i]
    BY <1>2, <2>1
  <2>3. \A i \in 1 .. MaxPuts : handed'[i] \in Nat
    BY <1>1, <2>2
  <2>. QED  BY <1>3, <2>2, <2>3 DEF d
<1>4. CASE key \notin DOMAIN m
  BY <1>1, <1>2, <1>4 DEF HandBack
<1>. QED  BY <1>3, <1>4

LEMMA StorePutPreserves ==
    ASSUME StoreInv, NEW key \in StoreKeys, NEW v \in StoreValues, StorePut(key, v)
    PROVE  StoreInv'
<1>1. /\ puts' = puts + 1 /\ puts \in Nat /\ puts' \in 1 .. MaxPuts /\ cleared' = cleared /\ HandBack(key)
      /\ DOMAIN m' = DOMAIN m \cup {key} /\ m'[key] = [id |-> puts', v |-> v]
      /\ \A k \in DOMAIN m \ {key} : m'[k] = m[k]
  BY StoreAssumption DEF StorePut, StoreInv, StoreTypeOK
<1>2. \A k \in DOMAIN m : m[k] \in Items /\ m[k].id \in 1 .. puts
  BY StoreAssumption DEF StoreInv, StoreTypeOK, Items
<1>3. /\ handed' = [i \in 1 .. MaxPuts |-> handed'[i]]
      /\ \A i \in 1 .. MaxPuts : /\ handed'[i] \in Nat /\ handed[i] \in Nat
                                /\ handed'[i] = IF key \in DOMAIN m /\ m[key].id = i
                                                THEN handed[i] + 1 ELSE handed[i]
  BY <1>1, HandsBack DEF StoreInv, StoreTypeOK
<1>4. m'[key] \in Items /\ m'[key].id = puts'
  BY <1>1 DEF Items
<1>5. StoreTypeOK'
  BY <1>1, <1>2, <1>3, <1>4 DEF StoreInv, StoreTypeOK
<1>6. \A k, l \in DOMAIN m' : m'[k].id = m'[l].id => k = l
  BY <1>1, <1>2, <1>4 DEF StoreInv
<1>7. \A i \in 1 .. MaxPuts : i > puts' => handed'[i] = 0 /\ i \notin cleared'
  BY <1>1, <1>2, <1>3 DEF StoreInv
<1>8. HandedBackOnce'
  <2> SUFFICES ASSUME NEW i \in 1 .. puts'
               PROVE  (IF \E k \in DOMAIN m' : m'[k].id = i THEN 1 ELSE 0) + handed'[i] + (IF i \in cleared' THEN 1 ELSE 0) = 1
    BY DEF HandedBackOnce
  <2>1. i \in 1 .. MaxPuts
    BY <1>1, StoreAssumption
  <2>2. CASE i = puts'
    <3>1. i > puts /\ handed[i] = 0 /\ i \notin cleared
      BY <1>1, <2>1, <2>2 DEF StoreInv
    <3>2. handed'[i] = 0
      BY <1>1, <1>2, <1>3, <2>1, <2>2, <3>1
    <3>. QED  BY <1>1, <1>4, <2>2, <3>1, <3>2
  <2>3. CASE i # puts'
    <3>1. i \in 1 .. puts
      BY <1>1, <2>3
    <3>2. (IF \E k \in DOMAIN m : m[k].id = i THEN 1 ELSE 0) + handed[i] + (IF i \in cleared THEN 1 ELSE 0) = 1
      BY <3>1 DEF StoreInv, HandedBackOnce
    <3>3. (\E k \in DOMAIN m' : m'[k].id = i) <=> \E k \in DOMAIN m \ {key} : m[k].id = i
      BY <1>1, <1>4, <2>3
    <3>4. CASE key \in DOMAIN m /\ m[key].id = i
      <4>1. ~\E k \in DOMAIN m \ {key} : m[k].id = i
        BY <3>4 DEF StoreInv
      <4>. QED  BY <1>1, <1>3, <2>1, <3>2, <3>3, <3>4, <4>1
    <3>5. CASE ~(key \in DOMAIN m /\ m[key].id = i)
      <4>1. (\E k \in DOMAIN m' : m'[k].id = i) <=> \E k \in DOMAIN m : m[k].id = i
        BY <3>3, <3>5
      <4>. QED  BY <1>1, <1>3, <2>1, <3>2, <3>5, <4>1
    <3>. QED  BY <3>4, <3>5
  <2>. QED  BY <2>2, <2>3
<1>. QED  BY <1>3, <1>5, <1>6, <1>7, <1>8 DEF StoreInv

LEMMA StoreRemovePreserves ==
    ASSUME StoreInv, NEW key \in StoreKeys, StoreRemove(key)
    PROVE  StoreInv'
<1>1. /\ puts' = puts /\ puts \in 0 .. MaxPuts /\ cleared' = cleared /\ HandBack(key)
      /\ DOMAIN m' = DOMAIN m \ {key} /\ \A k \in DOMAIN m \ {key} : m'[k] = m[k]
  BY DEF StoreRemove, StoreInv, StoreTypeOK
<1>2. \A k \in DOMAIN m : m[k] \in Items /\ m[k].id \in 1 .. puts
  BY StoreAssumption DEF StoreInv, StoreTypeOK, Items
<1>3. /\ handed' = [i \in 1 .. MaxPuts |-> handed'[i]]
      /\ \A i \in 1 .. MaxPuts : /\ handed'[i] \in Nat /\ handed[i] \in Nat
                                /\ handed'[i] = IF key \in DOMAIN m /\ m[key].id = i
                                                THEN handed[i] + 1 ELSE handed[i]
  BY <1>1, HandsBack DEF StoreInv, StoreTypeOK
<1>4. StoreTypeOK'
  BY <1>1, <1>2, <1>3 DEF StoreInv, StoreTypeOK
<1>5. \A k, l \in DOMAIN m' : m'[k].id = m'[l].id => k = l
  BY <1>1 DEF StoreInv
<1>6. \A i \in 1 .. MaxPuts : i > puts' => handed'[i] = 0 /\ i \notin cleared'
  BY <1>1, <1>2, <1>3 DEF StoreInv
<1>7. HandedBackOnce'
  <2> SUFFICES ASSUME NEW i \in 1 .. puts
               PROVE  (IF \E k \in DOMAIN m' : m'[k].id = i THEN 1 ELSE 0) + handed'[i] + (IF i \in cleared' THEN 1 ELSE 0) = 1
    BY <1>1 DEF HandedBackOnce
  <2>1. i \in 1 .. MaxPuts
    BY <1>1, StoreAssumption
  <2>2. (IF \E k \in DOMAIN m : m[k].id = i THEN 1 ELSE 0) + handed[i] + (IF i \in cleared THEN 1 ELSE 0) = 1
    BY DEF StoreInv, HandedBackOnce
  <2>3. (\E k \in DOMAIN m' : m'[k].id = i) <=> \E k \in DOMAIN m \ {key} : m[k].id = i
    BY <1>1
  <2>4. CASE key \in DOMAIN m /\ m[key].id = i
    <3>1. ~\E k \in DOMAIN m \ {key} : m[k].id = i
      BY <2>4 DEF StoreInv
    <3>. QED  BY <1>1, <1>3, <2>1, <2>2, <2>3, <2>4, <3>1
  <2>5. CASE ~(key \in DOMAIN m /\ m[key].id = i)
    <3>1. (\E k \in DOMAIN m' : m'[k].id = i) <=> \E k \in DOMAIN m : m[k].id = i
      BY <2>3, <2>5
    <3>. QED  BY <1>1, <1>3, <2>1, <2>2, <2>5, <3>1
  <2>. QED  BY <2>4, <2>5
<1>. QED  BY <1>3, <1>4, <1>5, <1>6, <1>7 DEF StoreInv

LEMMA ClearPreserves ==
    ASSUME StoreInv, Clear
    PROVE  StoreInv'
<1>1. /\ puts' = puts /\ handed' = handed /\ DOMAIN m' = {}
      /\ cleared' = cleared \cup {m[k].id : k \in DOMAIN m}
  BY NothingStored DEF Clear
<1>2. \A k \in DOMAIN m : m[k].id \in 1 .. puts
  BY StoreAssumption DEF StoreInv, StoreTypeOK, Items
<1>3. puts \in 0 .. MaxPuts /\ \A i \in 1 .. MaxPuts : handed[i] \in Nat
  BY DEF StoreInv, StoreTypeOK
<1>4. StoreTypeOK'
  <2>1. cleared' \subseteq 1 .. MaxPuts
    BY <1>1, <1>2, <1>3, StoreAssumption DEF StoreInv, StoreTypeOK
  <2>. QED  BY <1>1, <1>3, <2>1 DEF StoreInv, StoreTypeOK
<1>5. \A i \in 1 .. MaxPuts : i > puts' => handed'[i] = 0 /\ i \notin cleared'
  BY <1>1, <1>2, <1>3 DEF StoreInv
<1>6. HandedBackOnce'
  <2> SUFFICES ASSUME NEW i \in 1 .. puts
               PROVE  (IF \E k \in DOMAIN m' : m'[k].id = i THEN 1 ELSE 0) + handed'[i] + (IF i \in cleared' THEN 1 ELSE 0) = 1
    BY <1>1 DEF HandedBackOnce
  <2>1. i \in 1 .. MaxPuts
    BY <1>3, StoreAssumption
  <2>2. (IF \E k \in DOMAIN m : m[k].id = i THEN 1 ELSE 0) + handed[i] + (IF i \in cleared THEN 1 ELSE 0) = 1
    BY DEF StoreInv, HandedBackOnce
  <2>3. i \in cleared' <=> i \in cleared \/ \E k \in DOMAIN m : m[k].id = i
    BY <1>1
  <2>. QED  BY <1>1, <1>3, <2>1, <2>2, <2>3
<1>. QED  BY <1>1, <1>4, <1>5, <1>6 DEF StoreInv

LEMMA StorePreserves == StoreInv /\ [StoreNext]_storeVars => StoreInv'
<1>1. StoreInv /\ UNCHANGED storeVars => StoreInv'
  <2> SUFFICES ASSUME StoreInv, UNCHANGED storeVars PROVE StoreInv'
    OBVIOUS
  <2>1. m' = m /\ puts' = puts /\ handed' = handed /\ cleared' = cleared
    BY DEF storeVars
  <2>2. StoreTypeOK'
    BY <2>1 DEF StoreInv, StoreTypeOK
  <2>3. HandedBackOnce'
    BY <2>1 DEF StoreInv, HandedBackOnce
  <2>. QED  BY <2>1, <2>2, <2>3 DEF StoreInv
<1>. QED  BY <1>1, StorePutPreserves, StoreRemovePreserves, ClearPreserves DEF StoreNext

\* The getters by the type of the value.
LEMMA GettersByType ==
    ASSUME NEW v, v.type \in StoreTypes
    PROVE  /\ v.type = "string" => /\ AsText(v) = v.text /\ StoreGetInt(v) = ParseInt(v.text)
                                   /\ StoreGetBool(v) = ParseBool(v.text)
           /\ v.type = "bool" => /\ AsText(v) = FormatBool(v.n = 1) /\ StoreGetInt(v) = Fail(0)
                                 /\ StoreGetBool(v) = Ok(v.n = 1)
           /\ v.type = "float" => AsText(v) = Word /\ StoreGetInt(v) = Fail(0) /\ StoreGetBool(v) = Fail(FALSE)
           /\ v.type \in {"int", "int8", "int64"} => /\ AsText(v) = FormatInt(v.n) /\ StoreGetInt(v) = Ok(v.n)
                                                     /\ StoreGetBool(v) = Fail(FALSE)
BY DEF StoreTypes, AsText, StoreGetInt, StoreGetBool

LEMMA TextsAnswer ==
    ASSUME NEW v, v.type \in StoreTypes, NEW t, t = [type |-> "string", n |-> 0, text |-> AsText(v)]
    PROVE  /\ StoreGetInt(v).err \in BOOLEAN /\ (~StoreGetInt(v).err => StoreGetInt(t) = StoreGetInt(v))
           /\ StoreGetBool(v).err \in BOOLEAN /\ (~StoreGetBool(v).err => StoreGetBool(t) = StoreGetBool(v))
<1>1. t.type = "string" /\ t.text = AsText(v) /\ t.type \in StoreTypes
  BY DEF StoreTypes
<1>2. StoreGetInt(t) = ParseInt(AsText(v)) /\ StoreGetBool(t) = ParseBool(AsText(v))
  BY <1>1, GettersByType
<1>3. \A x : Ok(x).err = FALSE /\ Fail(x).err = TRUE
  BY DEF Ok, Fail
<1>4. CASE v.type = "string"
  <2>1. AsText(v) = v.text /\ StoreGetInt(v) = ParseInt(v.text) /\ StoreGetBool(v) = ParseBool(v.text)
    BY <1>4, GettersByType, Zenon
  <2>2. ParseInt(v.text).err \in BOOLEAN
    BY <1>3 DEF ParseInt
  <2>3. ParseBool(v.text).err \in BOOLEAN
    <3>1. ParseBool(v.text) = Ok(v.text.n = 1) \/ ParseBool(v.text) = Fail(FALSE)
      BY DEF ParseBool
    <3>. QED  BY <1>3, <3>1, Zenon
  <2>. QED  BY <1>2, <2>1, <2>2, <2>3
<1>5. CASE v.type = "float"
  BY <1>3, <1>5, GettersByType
<1>6. CASE v.type = "bool"
  <2>1. StoreGetInt(v).err = TRUE /\ StoreGetBool(v) = Ok(v.n = 1) /\ StoreGetBool(v).err = FALSE
    <3>1. StoreGetInt(v) = Fail(0) /\ StoreGetBool(v) = Ok(v.n = 1)
      BY <1>6, GettersByType, Zenon
    <3>. QED  BY <1>3, <3>1, Zenon
  <2>2. AsText(v) = [form |-> "bool", n |-> IF v.n = 1 THEN 1 ELSE 0]
    BY <1>6, GettersByType DEF FormatBool, Text
  <2>3. ParseBool(AsText(v)) = Ok(AsText(v).n = 1) /\ AsText(v).n = IF v.n = 1 THEN 1 ELSE 0
    BY <2>2 DEF ParseBool
  <2>4. (AsText(v).n = 1) = (v.n = 1)
    BY <2>3
  <2>. QED  BY <1>2, <2>1, <2>3, <2>4
<1>7. CASE v.type \in {"int", "int8", "int64"}
  <2>1. ParseInt(AsText(v)) = Ok(v.n)
    <3>1. AsText(v) = FormatInt(v.n)
      BY <1>7, GettersByType, Zenon
    <3>2. FormatInt(v.n).form = "int" /\ FormatInt(v.n).n = v.n
      BY DEF FormatInt, Text
    <3>. QED  BY <3>1, <3>2 DEF ParseInt
  <2>. QED  BY <1>2, <1>3, <1>7, <2>1, GettersByType
<1>. QED  BY <1>4, <1>5, <1>6, <1>7 DEF StoreTypes

LEMMA StoreMeans == StoreInv => StoreTypeOK /\ HandedBackOnce /\ TextKeepsAnswers
<1> SUFFICES ASSUME StoreInv PROVE TextKeepsAnswers
  BY DEF StoreInv
<1> SUFFICES ASSUME NEW k \in DOMAIN m
             PROVE  LET v == m[k].v
                        t == [type |-> "string", n |-> 0, text |-> AsText(v)]
                    IN  /\ \A df \in {0, 1} : StoreGetIntOrDefault(k, df) \in {StoreGetInt(t).val, df}
                        /\ ~StoreGetInt(v).err => StoreGetInt(t) = StoreGetInt(v)
                        /\ \A df \in BOOLEAN : StoreGetBoolOrDefault(k, df) \in {StoreGetBool(t).val, df}
                        /\ ~StoreGetBool(v).err => StoreGetBool(t) = StoreGetBool(v)
  BY DEF TextKeepsAnswers
<1> DEFINE v == m[k].v
           t == [type |-> "string", n |-> 0, text |-> AsText(v)]
<1>1. v.type \in StoreTypes
  BY StoreAssumption DEF StoreInv, StoreTypeOK, Items
<1>2. \A df : /\ StoreGetIntOrDefault(k, df) = OrDefault(StoreGetInt(v), df)
              /\ StoreGetBoolOrDefault(k, df) = OrDefault(StoreGetBool(v), df)
  BY DEF StoreGetIntOrDefault, StoreGetBoolOrDefault
<1> HIDE DEF v
<1>3. /\ StoreGetInt(v).err \in BOOLEAN /\ (~StoreGetInt(v).err => StoreGetInt(t) = StoreGetInt(v))
      /\ StoreGetBool(v).err \in BOOLEAN /\ (~StoreGetBool(v).err => StoreGetBool(t) = StoreGetBool(v))
  BY <1>1, TextsAnswer
<1> HIDE DEF t
<1>4. \A df : OrDefault(StoreGetInt(v), df) \in {StoreGetInt(t).val, df}
  BY <1>3 DEF OrDefault
<1>5. \A df : OrDefault(StoreGetBool(v), df) \in {StoreGetBool(t).val, df}
  BY <1>3 DEF OrDefault
<1>. QED  BY <1>2, <1>3, <1>4, <1>5 DEF v, t

\* MemoryStore (store/store.go), for any keys, values and number of Puts: an item is handed
\* back once, or cleared, and the getters answer of a text as of the value it spells.
THEOREM StoreLosesNothing == StoreSpec => [](StoreTypeOK /\ HandedBackOnce /\ TextKeepsAnswers)
<1>. QED  BY StoreStarts, StorePreserves, StoreMeans, PTL DEF StoreSpec

-----------------------------------------------------------------------------
(* The bolt repository.  IdsFresh needs that ids were taken from the        *)
(* sequence, which a bucket made again starts anew.                         *)

LEMMA WrapsIntoInts == \A n \in Int : Wrap(n) \in Ints
<1> TAKE n \in Int
<1> DEFINE w == 2 * Half
<1>1. w \in Nat \ {0} /\ Half \in Nat /\ n + Half \in Int
  BY StrconvAssumption
<1> HIDE DEF w
<1>2. (n + Half) % w \in 0 .. w - 1
  BY <1>1
<1>. QED  BY <1>1, <1>2 DEF Wrap, Ints, w

\* Ids have been taken from the sequence.
BoltInv == BoltTypeOK /\ WrittenIsRead /\ issued \subseteq 1 .. sequence

\* What a bucket may hold.
Recorded(b) == DOMAIN b \subseteq BoltKeys /\ \A k \in DOMAIN b : b[k] \in BoltTexts

\* What an operation may do: a failure changes nothing, an id is new.
BoltOK ==
    /\ BoltInv'
    /\ reply'.ret.err => UNCHANGED <<exists, bucket, sequence>>
    /\ (reply'.op = "NextId" /\ ~reply'.ret.err) => reply'.ret.val \notin issued

LEMMA Rollback ==
    ASSUME BoltInv, NEW op, NEW key, RolledBack(op, key)
    PROVE  BoltOK
<1>1. /\ UNCHANGED <<exists, bucket, sequence, issued>>
      /\ reply' = [op |-> op, key |-> key, ret |-> [err |-> TRUE, val |-> 0]]
  BY DEF RolledBack, Answer, Fail
<1>2. reply'.ret.err
  BY <1>1
<1>. QED  BY <1>1, <1>2 DEF BoltOK, BoltInv, BoltTypeOK, WrittenIsRead

\* An operation that writes no number or bool, NextId apart.
Plain == {"View", "Del", "Put", "BatchPut", "DelEach", "DelBucket", "Create", "Recreate"}

LEMMA Updated0 ==
    ASSUME BoltInv, NEW op \in Plain, NEW key, NEW b, Recorded(b), Update(op, key, b, Ok(0))
    PROVE  BoltOK
<1>1. CASE exists /\ bucket' = b /\ Answer(op, key, Ok(0)) /\ UNCHANGED <<exists, sequence, issued>>
  <2>1. reply' = [op |-> op, key |-> key, ret |-> [err |-> FALSE, val |-> 0]]
    BY <1>1 DEF Answer, Ok
  <2>2. reply'.op = op /\ ~reply'.ret.err
    BY <2>1
  <2>. QED  BY <1>1, <2>2 DEF BoltOK, BoltInv, BoltTypeOK, WrittenIsRead, Recorded, Plain
<1>. QED  BY <1>1, Rollback DEF Update

LEMMA WithRecorded ==
    ASSUME BoltInv, NEW key \in BoltKeys, NEW t \in BoltTexts
    PROVE  Recorded(With(bucket, key, t)) /\ With(bucket, key, t)[key] = t /\ key \in DOMAIN With(bucket, key, t)
BY DEF With, Recorded, BoltInv, BoltTypeOK

LEMMA IntWritten ==
    ASSUME BoltInv, NEW op \in {"PutInt", "Incr"}, NEW key \in BoltKeys, NEW n \in Ints,
           Update(op, key, With(bucket, key, FormatInt(n)), Ok(n))
    PROVE  BoltOK
<1> DEFINE b == With(bucket, key, FormatInt(n))
<1>1. Recorded(b) /\ b[key] = FormatInt(n) /\ key \in DOMAIN b
  BY WithRecorded DEF BoltTexts
<1> HIDE DEF b
<1>2. CASE exists /\ bucket' = b /\ Answer(op, key, Ok(n)) /\ UNCHANGED <<exists, sequence, issued>>
  <2>1. reply' = [op |-> op, key |-> key, ret |-> [err |-> FALSE, val |-> n]]
    BY <1>2 DEF Answer, Ok
  <2>2. reply'.op = op /\ reply'.key = key /\ ~reply'.ret.err /\ reply'.ret.val = n
    BY <2>1
  <2>3. GetInt(key)' = [err |-> FALSE, val |-> n]
    <3>1. GetString(key)' = FormatInt(n)
      BY <1>1, <1>2 DEF GetString, Has
    <3>2. FormatInt(n).form = "int" /\ FormatInt(n).n = n
      BY DEF FormatInt, Text
    <3>. QED  BY <3>1, <3>2 DEF GetInt, ParseInt, Ok
  <2>4. \A df : GetIntOrDefault(key, df)' = n
    BY <2>3 DEF GetIntOrDefault, OrDefault
  <2>5. WrittenIsRead'
    BY <2>2, <2>4 DEF WrittenIsRead
  <2>. QED  BY <1>1, <1>2, <2>2, <2>5 DEF BoltOK, BoltInv, BoltTypeOK, Recorded
<1>. QED  BY <1>2, Rollback DEF Update, b

LEMMA BoolWritten ==
    ASSUME BoltInv, NEW key \in BoltKeys, NEW v \in BOOLEAN, PutBool(key, v)
    PROVE  BoltOK
<1> DEFINE b == With(bucket, key, FormatBool(v))
           n == IF v THEN 1 ELSE 0
<1>1. Recorded(b) /\ b[key] = FormatBool(v) /\ key \in DOMAIN b
  BY WithRecorded DEF BoltTexts
<1>2. FormatBool(v) = [form |-> "bool", n |-> n] /\ n \in {0, 1}
  BY DEF FormatBool, Text
<1>3. Update("PutBool", key, b, Ok(n))
  BY DEF PutBool
<1> HIDE DEF b, n
<1>4. CASE exists /\ bucket' = b /\ Answer("PutBool", key, Ok(n)) /\ UNCHANGED <<exists, sequence, issued>>
  <2>1. reply' = [op |-> "PutBool", key |-> key, ret |-> [err |-> FALSE, val |-> n]]
    BY <1>4 DEF Answer, Ok
  <2>2. reply'.op = "PutBool" /\ reply'.key = key /\ ~reply'.ret.err /\ reply'.ret.val = n
    BY <2>1
  <2>3. GetBool(key)' = Ok(n = 1)
    BY <1>1, <1>2, <1>4 DEF GetBool, GetString, Has, ParseBool
  <2>4. \A df : GetBoolOrDefault(key, df)' = (n = 1)
    BY <2>3 DEF GetBoolOrDefault, OrDefault, Ok
  <2>5. WrittenIsRead'
    BY <2>2, <2>4 DEF WrittenIsRead
  <2>. QED  BY <1>1, <1>4, <2>2, <2>5 DEF BoltOK, BoltInv, BoltTypeOK, Recorded
<1>. QED  BY <1>3, <1>4, Rollback DEF Update

LEMMA IncrOK ==
    ASSUME BoltInv, NEW key \in BoltKeys, NEW n \in BoltInts, Incr(key, n)
    PROVE  BoltOK
<1> DEFINE sum == Wrap(n + GetInt(key).val)
<1>1. CASE Has(key) /\ GetInt(key).err
  BY <1>1, Rollback DEF Incr
<1>2. CASE ~(Has(key) /\ GetInt(key).err)
  <2>1. GetInt(key).val \in Int
    <3>1. GetString(key) \in BoltTexts
      BY DEF GetString, Has, BoltInv, BoltTypeOK, BoltTexts
    <3>2. \A t \in BoltTexts : ParseInt(t).val \in Int
      <4> TAKE t \in BoltTexts
      <4>1. t.form \notin {"int", "padded"} \/ t.n \in Int
        BY StrconvAssumption DEF BoltTexts, FormatInt, FormatBool, Word, Empty, Text, Ints
      <4>. QED  BY <4>1 DEF ParseInt, Ok, Fail
    <3>. QED  BY <3>1, <3>2 DEF GetInt
  <2>2. n \in Int
    BY BoltAssumption, StrconvAssumption DEF Ints
  <2>3. sum \in Ints
    BY <2>1, <2>2, WrapsIntoInts
  <2>4. Update("Incr", key, With(bucket, key, FormatInt(sum)), Ok(sum))
    BY <1>2 DEF Incr
  <2> HIDE DEF sum
  <2>. QED  BY <2>3, <2>4, IntWritten
<1>. QED  BY <1>1, <1>2

LEMMA RecordsOK ==
    ASSUME BoltInv
    PROVE  /\ \A K : Recorded(Without(bucket, K))
           /\ \A K \in SUBSET BoltKeys : \A put \in [K -> {Word, Empty}] : Recorded(Over(put, bucket))
BY DEF Recorded, Without, Over, BoltInv, BoltTypeOK, BoltTexts

LEMMA NextIdOK == ASSUME BoltInv, NextId PROVE BoltOK
<1>1. CASE /\ exists /\ sequence < MaxId
           /\ sequence' = sequence + 1
           /\ issued' = issued \cup {sequence'} /\ Answer("NextId", 0, Ok(sequence'))
           /\ UNCHANGED <<exists, bucket>>
  <2>1. reply' = [op |-> "NextId", key |-> 0, ret |-> [err |-> FALSE, val |-> sequence']]
    BY <1>1 DEF Answer, Ok
  <2>2. reply'.op = "NextId" /\ ~reply'.ret.err /\ reply'.ret.val = sequence + 1
    BY <1>1, <2>1
  <2>3. sequence \in 0 .. MaxId /\ sequence' \in 1 .. MaxId /\ issued' \subseteq 1 .. sequence' /\ sequence + 1 \notin issued
    BY <1>1, BoltAssumption DEF BoltInv, BoltTypeOK
  <2>. QED  BY <1>1, <2>2, <2>3, BoltAssumption DEF BoltOK, BoltInv, BoltTypeOK, WrittenIsRead
<1>. QED  BY <1>1, Rollback DEF NextId

LEMMA NoRecords == DOMAIN <<>> = {}
OBVIOUS

LEMMA BucketOK ==
    ASSUME BoltInv, DelBucket \/ CreateBucketIfNotExists \/ RecreateBucket
    PROVE  BoltOK
<1>1. ASSUME NEW op \in {"DelBucket", "Recreate"}, exists' \in BOOLEAN, bucket' = <<>>, sequence' = 0, issued' = {},
             Answer(op, 0, Ok(0))
      PROVE  BoltOK
  <2>1. reply' = [op |-> op, key |-> 0, ret |-> [err |-> FALSE, val |-> 0]]
    BY <1>1 DEF Answer, Ok
  <2>2. reply'.op = op /\ ~reply'.ret.err
    BY <2>1
  <2>. QED  BY <1>1, <2>2, NoRecords, BoltAssumption DEF BoltOK, BoltInv, BoltTypeOK, WrittenIsRead
<1>2. CASE exists' = TRUE /\ Answer("Create", 0, Ok(0)) /\ UNCHANGED <<bucket, sequence, issued>>
  <2>1. reply' = [op |-> "Create", key |-> 0, ret |-> [err |-> FALSE, val |-> 0]]
    BY <1>2 DEF Answer, Ok
  <2>2. reply'.op = "Create" /\ ~reply'.ret.err
    BY <2>1
  <2>. QED  BY <1>2, <2>2 DEF BoltOK, BoltInv, BoltTypeOK, WrittenIsRead
<1>3. CASE exists /\ bucket' = <<>> /\ sequence' = 0 /\ issued' = {} /\ Answer("Recreate", 0, Ok(0)) /\ UNCHANGED exists
  BY <1>1, <1>3 DEF BoltInv, BoltTypeOK
<1>4. CASE exists' = FALSE /\ bucket' = <<>> /\ sequence' = 0 /\ issued' = {} /\ Answer("DelBucket", 0, Ok(0))
  BY <1>1, <1>4
<1>. QED  BY <1>2, <1>3, <1>4, Rollback DEF DelBucket, CreateBucketIfNotExists, RecreateBucket

LEMMA ViewOK == ASSUME BoltInv, NEW key \in BoltKeys, View(key) PROVE BoltOK
<1>1. /\ UNCHANGED <<exists, bucket, sequence, issued>>
      /\ reply' = [op |-> "View", key |-> key, ret |-> IF exists THEN GetInt(key) ELSE Fail(0)]
  BY DEF View, Answer
<1>2. reply'.op = "View"
  BY <1>1
<1>. QED  BY <1>1, <1>2 DEF BoltOK, BoltInv, BoltTypeOK, WrittenIsRead

LEMMA BoltStep == BoltInv /\ BoltNext => BoltOK
<1> SUFFICES ASSUME BoltInv, BoltNext PROVE BoltOK
  OBVIOUS
<1>1. ASSUME NEW key \in BoltKeys, View(key) \/ BoltDel(key) \/ BoltPut(key) PROVE BoltOK
  <2>1. CASE View(key)
    BY <2>1, ViewOK
  <2>2. CASE BoltDel(key)
    BY <2>2, RecordsOK, Updated0 DEF BoltDel, Plain
  <2>3. CASE BoltPut(key)
    <3>1. PICK t \in {Word, Empty} : Update("Put", key, With(bucket, key, t), Ok(0))
      BY <2>3 DEF BoltPut
    <3>2. t \in BoltTexts
      BY DEF BoltTexts
    <3>. QED  BY <3>1, <3>2, WithRecorded, Updated0 DEF Plain
  <2>. QED  BY <1>1, <2>1, <2>2, <2>3
<1>2. ASSUME NEW key \in BoltKeys, NEW n \in BoltInts, PutInt(key, n) \/ Incr(key, n) PROVE BoltOK
  <2>1. n \in Ints
    BY BoltAssumption
  <2>. QED  BY <1>2, <2>1, IntWritten, IncrOK DEF PutInt
<1>3. ASSUME NEW K \in SUBSET BoltKeys, BatchPut(K) PROVE BoltOK
  BY <1>3, RecordsOK, Updated0 DEF BatchPut, Plain
<1>4. ASSUME NEW P, NEW c, NEW failed \in BOOLEAN, DelEach(P, c, failed) PROVE BoltOK
  BY <1>4, RecordsOK, Updated0, Rollback DEF DelEach, Plain
<1>. QED  BY <1>1, <1>2, <1>3, <1>4, BoolWritten, NextIdOK, BucketOK DEF BoltNext

LEMMA BoltStarts == BoltInit => BoltInv
<1> SUFFICES ASSUME BoltInit PROVE BoltInv
  OBVIOUS
<1>1. exists \in BOOLEAN /\ exists /\ DOMAIN bucket = {} /\ sequence = 0 /\ issued = {}
  BY NoRecords DEF BoltInit
<1>2. reply.op = "Create"
  BY DEF BoltInit
<1>. QED  BY <1>1, <1>2, BoltAssumption DEF BoltInv, BoltTypeOK, WrittenIsRead

LEMMA BoltPreserves == BoltInv /\ [BoltNext]_boltVars => BoltInv'
<1>1. BoltInv /\ UNCHANGED boltVars => BoltInv'
  <2> SUFFICES ASSUME BoltInv, UNCHANGED boltVars PROVE BoltInv'
    OBVIOUS
  <2>1. exists' = exists /\ bucket' = bucket /\ sequence' = sequence /\ issued' = issued /\ reply' = reply
    BY DEF boltVars
  <2>2. WrittenIsRead'
    BY <2>1 DEF BoltInv, WrittenIsRead, GetIntOrDefault, GetBoolOrDefault, GetInt, GetBool, GetString, Has
  <2>. QED  BY <2>1, <2>2 DEF BoltInv, BoltTypeOK
<1>. QED  BY <1>1, BoltStep DEF BoltOK

LEMMA BoltActs ==
    BoltInv /\ [BoltNext]_boltVars =>
        /\ [reply'.ret.err => UNCHANGED <<exists, bucket, sequence>>]_boltVars
        /\ [(reply'.op = "NextId" /\ ~reply'.ret.err) => reply'.ret.val \notin issued]_boltVars
BY BoltStep DEF BoltOK

\* The repository (bolt/repo.go), for any keys, prefixes and integers: what was written is
\* read back, ids are new, and a transaction that fails changes nothing.
THEOREM BoltReportsTruly == BoltSpec => [](BoltTypeOK /\ WrittenIsRead) /\ FailureChangesNothing /\ IdsFresh
<1>1. BoltSpec => []BoltInv
  BY BoltStarts, BoltPreserves, PTL DEF BoltSpec
<1>2. BoltInv => BoltTypeOK /\ WrittenIsRead
  BY DEF BoltInv
<1>. QED  BY <1>1, <1>2, BoltActs, PTL DEF BoltSpec, FailureChangesNothing, IdsFresh

-----------------------------------------------------------------------------
(* The path of an error: what is on the wire is the status made of the      *)
(* cause, so that what the client makes of it is known, and the requests of *)
(* http have been answered by nobody but their handler before Handle.       *)
(* errors.As finds a layer if there is one: the first, as the order of the  *)
(* numbers is well-founded.                                                 *)

LEMMA FirstLayer ==
  ASSUME NEW e \in Seq(Layers), NEW type, Is(e, type)
  PROVE  As(e, type) \in DOMAIN e /\ e[As(e, type)].type = type
<1> DEFINE T == {i \in DOMAIN e : e[i].type = type}
           R == {ss \in Nat \X Nat : ss[1] < ss[2]}
<1>0. Len(e) \in Nat /\ DOMAIN e = 1 .. Len(e)
  BY LenProperties
<1>1. T \subseteq Nat /\ T # {}
  BY <1>0 DEF Is
<1>2. IsWellFoundedOn(R, Nat)
  BY NatLessThanWellFounded DEF OpToRel
<1>3. PICK i \in T : \A j \in T : ~ (<<j, i>> \in R)
  <2> HIDE DEF T, R
  <2> QED BY <1>1, <1>2, WFMin
<1>5. i \in DOMAIN e /\ i \in 1 .. Len(e) /\ e[i].type = type
  BY <1>3, <1>0
<1>4. \A j \in 1 .. i - 1 : e[j].type # type
  <2> TAKE j \in 1 .. i - 1
  <2>1. j \in Nat /\ j < i /\ j \in DOMAIN e /\ i \in Nat
    BY <1>5, <1>0
  <2>2. <<j, i>> \in R
    BY <2>1
  <2>3. j \notin T
    <3> HIDE DEF R
    <3> QED BY <1>3, <2>2
  <2> QED BY <2>1, <2>3
<1> QED BY <1>5, <1>4 DEF As

\* The map of the codes is one to one, and only OK is no failure.
LEMMA CodesMapped ==
  /\ \A c \in DOMAIN codeRpcCodeMap : c \in -1 .. 13 /\ codeRpcCodeMap[c] \in 0 .. 16
  /\ \A c, d \in DOMAIN codeRpcCodeMap : codeRpcCodeMap[c] = codeRpcCodeMap[d] => c = d
  /\ OK \in DOMAIN codeRpcCodeMap /\ codeRpcCodeMap[OK] = 0
<1>1. DOMAIN codeRpcCodeMap = {-1, 0, 2, 4, 5} \cup 7 .. 13
  BY DEF codeRpcCodeMap, Unknown, OK
<1>2. /\ codeRpcCodeMap[-1] = 2 /\ codeRpcCodeMap[0] = 0 /\ codeRpcCodeMap[2] = 13 /\ codeRpcCodeMap[4] = 3
      /\ codeRpcCodeMap[5] = 9 /\ codeRpcCodeMap[7] = 16 /\ codeRpcCodeMap[8] = 7 /\ codeRpcCodeMap[9] = 4
      /\ codeRpcCodeMap[10] = 8 /\ codeRpcCodeMap[11] = 1 /\ codeRpcCodeMap[12] = 10 /\ codeRpcCodeMap[13] = 5
  BY DEF codeRpcCodeMap, Unknown, OK
<1>. QED  BY <1>1, <1>2 DEF OK

\* A code that is converted is in the range of the wire.
LEMMA RpcCode ==
  ASSUME NEW c \in Int
  PROVE  /\ ToRpcErrCode(c) \in 0 .. RpcCodes - 1
         /\ c % RpcCodes # 0 => ToRpcErrCode(c) # 0
         /\ Travels(c) => ToBizErrCode(ToRpcErrCode(c)) = c /\ ToRpcErrCode(c) < RpcCodes \div 2
<1>1. c % RpcCodes \in 0 .. RpcCodes - 1
  BY ErrorAssumption DEF ErrorAssumption
<1>2. CASE c \in DOMAIN codeRpcCodeMap
  <2>1. ToRpcErrCode(c) = codeRpcCodeMap[c]
    BY <1>2 DEF ToRpcErrCode
  <2>2. codeRpcCodeMap[c] \in 0 .. 16 /\ (c # 0 => codeRpcCodeMap[c] # 0)
    BY <1>2, CodesMapped DEF OK
  <2>3. ToBizErrCode(codeRpcCodeMap[c]) = c
    BY <1>2, CodesMapped DEF ToBizErrCode
  <2>4. 0 % RpcCodes = 0 /\ 16 < RpcCodes \div 2
    BY ErrorAssumption DEF ErrorAssumption
  <2>. QED  BY <2>1, <2>2, <2>3, <2>4, ErrorAssumption DEF ErrorAssumption
<1>3. CASE c \notin DOMAIN codeRpcCodeMap
  <2>1. ToRpcErrCode(c) = c % RpcCodes
    BY <1>3 DEF ToRpcErrCode
  <2>2. ASSUME Travels(c) PROVE ToBizErrCode(ToRpcErrCode(c)) = c /\ ToRpcErrCode(c) < RpcCodes \div 2
    <3>1. c \in 0 .. RpcCodes \div 2 - 1 /\ \A k \in DOMAIN codeRpcCodeMap : codeRpcCodeMap[k] # c
      BY <1>3, <2>2 DEF Travels
    <3>2. c % RpcCodes = c
      BY <3>1, ErrorAssumption DEF ErrorAssumption
    <3>3. ToBizErrCode(c) = c
      BY <3>1 DEF ToBizErrCode
    <3>. QED  BY <2>1, <3>1, <3>2, <3>3, ErrorAssumption DEF ErrorAssumption
  <2>. QED  BY <1>1, <2>1, <2>2
<1>. QED  BY <1>2, <1>3

\* A code of a failure is one of a failure when it is converted back.
LEMMA BizCode ==
  ASSUME NEW c \in Nat \ {0} PROVE ToBizErrCode(c) \in Int /\ ToBizErrCode(c) # OK
<1>1. CASE \E k \in DOMAIN codeRpcCodeMap : codeRpcCodeMap[k] = c
  <2>1. ToBizErrCode(c) \in DOMAIN codeRpcCodeMap /\ codeRpcCodeMap[ToBizErrCode(c)] = c
    BY <1>1 DEF ToBizErrCode
  <2>. QED  BY <2>1, CodesMapped
<1>2. CASE ~ \E k \in DOMAIN codeRpcCodeMap : codeRpcCodeMap[k] = c
  BY <1>2 DEF ToBizErrCode, OK
<1>. QED  BY <1>1, <1>2

LEMMA BizErrCode ==
  ASSUME NEW e \in Seq(Layers) PROVE GetBizErrCode(e) \in Int
<1>1. CASE Is(e, "biz")
  BY <1>1, FirstLayer DEF GetBizErrCode, Layers, OK, Unknown
<1>2. CASE ~Is(e, "biz")
  BY <1>2 DEF GetBizErrCode, OK, Unknown
<1>. QED  BY <1>1, <1>2

\* Where the error is, as what of the cause: on the wire it is the status of the cause, and
\* a request has one answer if its handler has written one.
ErrorInv ==
    /\ cause \in Errors \/ (at = "client" /\ cause = Unavailable)
    /\ at \in {"server", "wire", "client", "stream", "handler", "exit", "answered"}
    /\ DOMAIN http = {"status", "responses", "aborted", "panicked", "wrote", "code", "parse"}
    /\ http.status \in 100 .. 999 /\ http.responses \in 0 .. 2 /\ http.code \in Int
    /\ at = "server" => err = cause
    /\ at = "wire" => err = ToRpcErr(cause)
    /\ Returned => err \in Seq(Layers) /\ CodeSurvives /\ FailureArrives
    /\ at \in {"handler", "exit", "answered"} => err \in {<<>>, cause}
    /\ at \in {"handler", "exit"} =>
          http.responses = (IF http.wrote THEN 1 ELSE 0) /\ (http.panicked => cause # <<>>)
    /\ FailureAnswered /\ CodeAnswered

\* An error of a handler is no status with the code OK.
LEMMA SentError ==
  ASSUME NEW e \in Seq(Layers)
  PROVE  ToRpcErr(e) = <<>> \/ \E c \in 1 .. RpcCodes - 1, r \in Seq(Layers) :
            ToRpcErr(e) = r /\ r # <<>> /\ r[1] = Layer("status", c)
<1>0. RpcCodes \in Nat /\ RpcCodes > 33
  BY ErrorAssumption DEF ErrorAssumption
<1>1. CASE e = <<>>
  BY <1>1 DEF ToRpcErr, IsRpcErr
<1>2. CASE e # <<>> /\ e[1].type = "status"
  <2>1. e[1] \in Layers
    BY <1>2
  <2>2. e[1] \in [type : {"status"}, code : 1 .. RpcCodes - 1]
    BY <1>2, <2>1 DEF Layers
  <2>3. e[1] = Layer("status", e[1].code)
    BY <2>2 DEF Layer
  <2>. QED  BY <1>2, <2>2, <2>3 DEF ToRpcErr, IsRpcErr
<1>3. CASE e # <<>> /\ e[1].type # "status"
  <2>1. PICK c \in 0 .. RpcCodes - 1 : ToRpcErr(e) = Status(c)
    <3>1. CASE Is(e, "biz")
      <4>1. e[As(e, "biz")].code \in Int
        BY <3>1, FirstLayer DEF Layers
      <4>. QED  BY <1>3, <3>1, <4>1, RpcCode DEF ToRpcErr, IsRpcErr
    <3>2. CASE ~Is(e, "biz")
      BY <1>0, <1>3, <3>2 DEF ToRpcErr, IsRpcErr
    <3>. QED  BY <3>1, <3>2
  <2>2. CASE c = 0
    BY <2>1, <2>2 DEF Status
  <2>3. CASE c # 0
    <3>1. Layer("status", c) \in Layers
      BY <1>0, <2>3 DEF Layers, Layer
    <3>2. <<Layer("status", c)>> \in Seq(Layers) /\ <<Layer("status", c)>> # <<>> /\ <<Layer("status", c)>>[1] = Layer("status", c)
      BY <3>1
    <3>3. c \in 1 .. RpcCodes - 1 /\ ToRpcErr(e) = <<Layer("status", c)>>
      BY <1>0, <2>1, <2>3 DEF Status
    <3>. QED  BY <3>2, <3>3
  <2>. QED  BY <2>2, <2>3
<1>. QED  BY <1>1, <1>2, <1>3

LEMMA ErrorStarts == ErrorInit => ErrorInv
<1> SUFFICES ASSUME ErrorInit PROVE ErrorInv
    OBVIOUS
<1>1. PICK p \in BOOLEAN :
         http = [status |-> 200, responses |-> 0, aborted |-> FALSE, panicked |-> FALSE, wrote |-> FALSE,
                 code |-> OK, parse |-> p]
  BY DEF ErrorInit
<1>2. /\ DOMAIN http = {"status", "responses", "aborted", "panicked", "wrote", "code", "parse"}
      /\ http.status \in 100 .. 999 /\ http.responses \in 0 .. 2 /\ http.code \in Int
  BY <1>1 DEF OK
<1>3. http.responses = 0 /\ http.wrote = FALSE /\ http.panicked = FALSE
  BY <1>1
<1>4. cause \in Errors /\ ((at = "server" /\ err = cause) \/ (at = "handler" /\ err = <<>>))
  BY DEF ErrorInit
<1>. QED  BY <1>2, <1>3, <1>4 DEF ErrorInv, FailureAnswered, CodeAnswered, Returned

\* A status of a failure becomes a BizError of a failure.
LEMMA BizErrOfStatus ==
  ASSUME NEW c \in 1 .. RpcCodes - 1, NEW e, e # <<>>, e[1] = Layer("status", c)
  PROVE  /\ ToBizErr(e) \in Seq(Layers) /\ ToBizErr(e) # <<>>
         /\ GetBizErrCode(ToBizErr(e)) = ToBizErrCode(c) /\ ToBizErrCode(c) # OK
<1>0. RpcCodes \in Nat /\ RpcCodes > 33
  BY ErrorAssumption DEF ErrorAssumption
<1>1. ToBizErr(e) = NewBizError(ToBizErrCode(c))
  BY DEF ToBizErr, IsRpcErr, Layer
<1>2. ToBizErrCode(c) \in Int /\ ToBizErrCode(c) # OK
  BY <1>0, BizCode
<1> DEFINE n == ToBizErrCode(c)
           b == <<Layer("biz", n)>>
<1>3. ToBizErr(e) = b
  BY <1>1 DEF NewBizError
<1> HIDE DEF n
<1>4. Layer("biz", n) \in Layers
  BY <1>2 DEF n, Layers, Layer
<1>5. b \in Seq(Layers) /\ b # <<>> /\ DOMAIN b = {1} /\ b[1].type = "biz" /\ b[1].code = n
  BY <1>4 DEF Layer
<1>6. Is(b, "biz")
  BY <1>5 DEF Is
<1>7. As(b, "biz") = 1
  BY <1>5, <1>6, FirstLayer
<1>8. GetBizErrCode(b) = n
  BY <1>5, <1>6, <1>7 DEF GetBizErrCode
<1>. QED  BY <1>2, <1>3, <1>5, <1>8 DEF n

LEMMA SentPreserves == ErrorInv /\ serverIntercepts => ErrorInv'
<1> SUFFICES ASSUME ErrorInv, serverIntercepts PROVE ErrorInv'
    OBVIOUS
<1>1. at = "server" /\ at' = "wire" /\ err = cause /\ cause' = cause /\ http' = http /\ cause \in Errors
  BY DEF ErrorInv, serverIntercepts
<1>2. err' = ToRpcErr(cause)
  BY <1>1 DEF serverIntercepts, ToRpcErr, IsRpcErr
<1>3. FailureAnswered' /\ CodeAnswered' /\ ~Returned'
  BY <1>1 DEF FailureAnswered, CodeAnswered, Returned
<1>. QED  BY <1>1, <1>2, <1>3 DEF ErrorInv

\* What the server has sent for a BizError, and that it is nil only for OK.
LEMMA SentCode ==
  ASSUME NEW e \in Seq(Layers), e # <<>>
  PROVE  /\ GetBizErrCode(e) % RpcCodes # 0 => ToRpcErr(e) # <<>>
         /\ (Is(e, "biz") /\ ~IsRpcErr(e)) => ToRpcErr(e) = Status(ToRpcErrCode(GetBizErrCode(e)))
<1>1. (Is(e, "biz") /\ ~IsRpcErr(e)) => ToRpcErr(e) = Status(ToRpcErrCode(GetBizErrCode(e)))
  BY DEF ToRpcErr, GetBizErrCode
<1>2. ASSUME GetBizErrCode(e) % RpcCodes # 0 PROVE ToRpcErr(e) # <<>>
  <2>1. CASE IsRpcErr(e)
    BY <2>1 DEF ToRpcErr
  <2>2. CASE ~IsRpcErr(e) /\ Is(e, "biz")
    <3>1. GetBizErrCode(e) \in Int
      BY BizErrCode
    <3>2. ToRpcErrCode(GetBizErrCode(e)) # 0
      BY <1>2, <3>1, RpcCode
    <3>3. ToRpcErr(e) = Status(ToRpcErrCode(GetBizErrCode(e)))
      BY <1>1, <2>2
    <3>4. \A c : c # 0 => Status(c) # <<>>
      BY DEF Status
    <3>. QED  BY <3>2, <3>3, <3>4
  <2>3. CASE ~IsRpcErr(e) /\ ~Is(e, "biz")
    BY <2>3 DEF ToRpcErr, Status
  <2>. QED  BY <2>1, <2>2, <2>3
<1>. QED  BY <1>1, <1>2

LEMMA ErrorsAreLayers == (\A e \in Errors : e \in Seq(Layers)) /\ <<>> \in Seq(Layers)
BY ErrorAssumption DEF ErrorAssumption

\* What the client makes of what arrives.
LEMMA Received ==
  ASSUME ErrorInv, at = "wire", NEW e \in Transported(err)
  PROVE  LET b == ToBizErr(e)
         IN  /\ e \in Seq(Layers) /\ b \in Seq(Layers) /\ (b = <<>> <=> e = <<>>)
             /\ (Is(cause, "biz") /\ ~IsRpcErr(cause) /\ Travels(GetBizErrCode(cause))) => GetBizErrCode(b) = GetBizErrCode(cause)
             /\ (cause # <<>> /\ GetBizErrCode(cause) % RpcCodes # OK) => (b # <<>> /\ GetBizErrCode(b) # OK)
<1>1. err = ToRpcErr(cause) /\ cause \in Errors
  BY DEF ErrorInv
<1>3. cause \in Seq(Layers) /\ RpcCodes \in Nat /\ RpcCodes > 33
  BY <1>1, ErrorAssumption DEF ErrorAssumption
<1> DEFINE b == ToBizErr(e)
           bizCode == GetBizErrCode(cause)
           survives == (Is(cause, "biz") /\ ~IsRpcErr(cause) /\ Travels(bizCode)) => GetBizErrCode(b) = bizCode
           arrives == (cause # <<>> /\ bizCode % RpcCodes # OK) => (b # <<>> /\ GetBizErrCode(b) # OK)
<1>4. bizCode \in Int
  BY <1>3, BizErrCode
<1>5. (Is(cause, "biz") /\ ~IsRpcErr(cause)) => err = Status(ToRpcErrCode(bizCode))
  BY <1>1, <1>3, SentCode DEF IsRpcErr
<1>6. (cause # <<>> /\ bizCode % RpcCodes # OK) => err # <<>>
  BY <1>1, <1>3, SentCode DEF OK
<1> HIDE DEF bizCode
<1>7. ASSUME err = <<>>
      PROVE  e \in Seq(Layers) /\ b \in Seq(Layers) /\ (b = <<>> <=> e = <<>>) /\ survives /\ arrives
  <2>1. e = <<>> /\ b = <<>>
    BY <1>7 DEF Transported, ToBizErr
  <2>2. e \in Seq(Layers) /\ b \in Seq(Layers)
    BY <2>1, ErrorsAreLayers
  <2>3. ASSUME Is(cause, "biz"), ~IsRpcErr(cause), Travels(bizCode) PROVE GetBizErrCode(b) = bizCode
    <3>1. ToRpcErrCode(bizCode) = 0
      BY <1>5, <1>7, <2>3 DEF Status
    <3>2. ToBizErrCode(0) = bizCode
      BY <1>4, <2>3, <3>1, RpcCode
    <3>3. ToBizErrCode(0) = OK
      BY CodesMapped DEF ToBizErrCode
    <3>. QED  BY <2>1, <3>2, <3>3 DEF GetBizErrCode
  <2>. QED  BY <1>6, <1>7, <2>1, <2>2, <2>3
<1>8. ASSUME err # <<>>
      PROVE  e \in Seq(Layers) /\ b \in Seq(Layers) /\ (b = <<>> <=> e = <<>>) /\ survives /\ arrives
  <2>1. PICK c \in 1 .. RpcCodes - 1 : err \in Seq(Layers) /\ err[1] = Layer("status", c)
    BY <1>1, <1>3, <1>8, SentError
  <2>2. Status(13) # <<>> /\ Status(13)[1] = Layer("status", 13) /\ 13 \in 1 .. RpcCodes - 1 /\ Status(13) \in Seq(Layers)
    BY <1>3 DEF Status, Layer, Layers
  <2>3. PICK d \in 1 .. RpcCodes - 1 : e \in Seq(Layers) /\ e # <<>> /\ e[1] = Layer("status", d) /\ (c < RpcCodes \div 2 => d = c)
    <3>1. e = err \/ (c >= RpcCodes \div 2 /\ e = Status(13))
      BY <1>8, <2>1 DEF Transported, Layer
    <3>. QED  BY <1>3, <1>8, <2>1, <2>2, <3>1
  <2>4. b \in Seq(Layers) /\ b # <<>> /\ GetBizErrCode(b) = ToBizErrCode(d) /\ ToBizErrCode(d) # OK
    BY <2>3, BizErrOfStatus
  <2>5. ASSUME Is(cause, "biz"), ~IsRpcErr(cause), Travels(bizCode) PROVE GetBizErrCode(b) = bizCode
    <3>1. err = Status(ToRpcErrCode(bizCode))
      BY <1>5, <2>5
    <3>2. err[1] = Layer("status", ToRpcErrCode(bizCode))
      BY <1>8, <3>1 DEF Status
    <3>3. c = ToRpcErrCode(bizCode)
      BY <2>1, <3>2 DEF Layer
    <3>. QED  BY <1>4, <2>3, <2>4, <2>5, <3>3, RpcCode
  <2>. QED  BY <2>3, <2>4, <2>5
<1>. QED  BY <1>7, <1>8 DEF bizCode

LEMMA ReceivedPreserves == ErrorInv /\ (clientIntercepts \/ streamReceives) => ErrorInv'
<1> SUFFICES ASSUME ErrorInv, clientIntercepts \/ streamReceives PROVE ErrorInv'
    OBVIOUS
<1>1. at = "wire" /\ at' \in {"client", "stream"} /\ cause' = cause /\ http' = http /\ cause \in Errors
  BY DEF ErrorInv, clientIntercepts, streamReceives
<1>2. PICK e \in Transported(err) : err' = (IF at' = "stream" THEN e ELSE ToBizErr(e)) /\ CallersErr' = ToBizErr(e)
  BY DEF clientIntercepts, streamReceives, CallersErr
<1>3. err' \in Seq(Layers) /\ (err' = <<>> <=> CallersErr' = <<>>)
  BY <1>1, <1>2, Received
<1>4. CodeSurvives' /\ FailureArrives'
  BY <1>1, <1>2, <1>3, Received DEF CodeSurvives, FailureArrives
<1>5. FailureAnswered' /\ CodeAnswered'
  BY <1>1 DEF FailureAnswered, CodeAnswered
<1>. QED  BY <1>1, <1>3, <1>4, <1>5 DEF ErrorInv

\* A call that could not be made is a failure.
LEMMA UnsentPreserves == ErrorInv /\ callFails => ErrorInv'
<1> SUFFICES ASSUME ErrorInv, callFails PROVE ErrorInv'
    OBVIOUS
<1>1. /\ at = "server" /\ at' = "client" /\ http' = http
      /\ cause' = Unavailable /\ err' = ToBizErr(Unavailable) /\ CallersErr' = err'
  BY DEF ErrorInv, callFails, CallersErr
<1>2. Unavailable # <<>> /\ Unavailable[1] = Layer("status", 14) /\ IsRpcErr(Unavailable) /\ 14 \in 1 .. RpcCodes - 1
  BY ErrorAssumption DEF Unavailable, Status, IsRpcErr, Layer, ErrorAssumption
<1>3. err' \in Seq(Layers) /\ err' # <<>> /\ GetBizErrCode(err') # OK
  BY <1>1, <1>2, BizErrOfStatus
<1>4. CodeSurvives' /\ FailureArrives'
  BY <1>1, <1>2, <1>3 DEF CodeSurvives, FailureArrives
<1>5. FailureAnswered' /\ CodeAnswered'
  BY <1>1 DEF FailureAnswered, CodeAnswered
<1>. QED  BY <1>1, <1>3, <1>4, <1>5 DEF ErrorInv

LEMMA InHandlerPreserves == ErrorInv /\ handlerStep => ErrorInv'
<1> SUFFICES ASSUME ErrorInv, handlerStep PROVE ErrorInv'
    OBVIOUS
<1>1. /\ at = "handler" /\ cause' = cause /\ cause \in Errors /\ err \in {<<>>, cause}
      /\ DOMAIN http = {"status", "responses", "aborted", "panicked", "wrote", "code", "parse"}
      /\ http.status \in 100 .. 999 /\ http.responses = (IF http.wrote THEN 1 ELSE 0) /\ http.code \in Int
      /\ http.panicked => cause # <<>>
  BY DEF ErrorInv, handlerStep
<1>2. /\ at' \in {"handler", "exit"} /\ err' \in {<<>>, cause}
      /\ \/ http' = http
         \/ http' = [http EXCEPT !.responses = 1, !.wrote = TRUE]
         \/ http' = [http EXCEPT !.aborted = TRUE]
         \/ cause # <<>> /\ http' = [http EXCEPT !.panicked = TRUE]
  BY <1>1 DEF handlerStep
<1>3. /\ DOMAIN http' = {"status", "responses", "aborted", "panicked", "wrote", "code", "parse"}
      /\ http'.status \in 100 .. 999 /\ http'.responses \in 0 .. 2 /\ http'.code \in Int
  <2>1. DOMAIN http' = DOMAIN http
    BY <1>2
  <2>2. http'.status = http.status /\ http'.code = http.code /\ http'.responses \in {http.responses, 1}
    BY <1>1, <1>2
  <2>. QED  BY <1>1, <2>1, <2>2
<1>4. http'.responses = (IF http'.wrote THEN 1 ELSE 0) /\ (http'.panicked => cause # <<>>)
  BY <1>1, <1>2
<1>5. FailureAnswered' /\ CodeAnswered' /\ ~Returned'
  BY <1>2 DEF FailureAnswered, CodeAnswered, Returned
<1>. QED  BY <1>1, <1>2, <1>3, <1>4, <1>5 DEF ErrorInv

\* The status and the code of the answer to an error.
LEMMA AnswerStatus ==
  ASSUME NEW e \in Errors, e # <<>>
  PROVE  /\ ToHttpErr(e).status \in 100 .. 999
         /\ ToHttpErr(e).code = IF Is(e, "http") THEN e[As(e, "http")].code ELSE GetBizErrCode(e)
         /\ ToHttpErr(e).code \in Int
         /\ \/ ToHttpErr(e).status >= 400
            \/ IF Is(e, "http") THEN ToHttpErr(e).status = e[As(e, "http")].status
               ELSE GetBizErrCode(e) = OK \/ (GetBizErrCode(e) >= 1000 /\ http.parse)
<1>0. e \in Seq(Layers)
  BY ErrorAssumption DEF ErrorAssumption
<1>1. CASE Is(e, "http")
  <2>1. e[As(e, "http")] \in Layers /\ e[As(e, "http")].type = "http"
    BY <1>0, <1>1, FirstLayer
  <2>2. e[As(e, "http")].status \in 100 .. 999 /\ e[As(e, "http")].code \in Int
    <3>1. e[As(e, "http")] \in [type : {"http"}, code : Int, status : 100 .. 999]
      BY <2>1 DEF Layers
    <3>. QED  BY <3>1
  <2>. QED  BY <1>1, <2>2 DEF ToHttpErr
<1>2. CASE ~Is(e, "http") /\ e[1].type = "validation"
  BY <1>0, <1>2, BizErrCode DEF ToHttpErr, IsValidationErr, ToHttpErrCode
<1>3. CASE ~Is(e, "http") /\ e[1].type # "validation"
  <2> DEFINE bizCode == GetBizErrCode(e)
  <2>1. ToHttpErr(e).status = ToHttpErrStatus(bizCode) /\ ToHttpErr(e).code = bizCode /\ bizCode \in Int
    BY <1>0, <1>3, BizErrCode DEF ToHttpErr, IsValidationErr, ToHttpErrCode
  <2>2. bizCode >= 1000 => \E p \in Powers : bizCode \div p \in 100 .. 999
    <3> SUFFICES ASSUME bizCode >= 1000 PROVE \E p \in Powers : bizCode \div p \in 100 .. 999
        OBVIOUS
    <3>1. Is(e, "biz")
      BY DEF GetBizErrCode, OK, Unknown
    <3>2. As(e, "biz") \in DOMAIN e /\ e[As(e, "biz")].type = "biz" /\ bizCode = e[As(e, "biz")].code
      BY <1>0, <3>1, FirstLayer DEF GetBizErrCode
    <3>. QED  BY <3>2, ErrorAssumption DEF ErrorAssumption
  <2> HIDE DEF bizCode
  <2>3. CASE bizCode < 1000 \/ ~http.parse
    <3>1. CASE bizCode \in DOMAIN codeHttpStatusMap
      <4>1. ToHttpErrStatus(bizCode) = codeHttpStatusMap[bizCode]
        BY <2>3, <3>1 DEF ToHttpErrStatus
      <4>2. bizCode \in {0, 4, 5, 7, 8, 10, 13}
        BY <3>1 DEF codeHttpStatusMap
      <4>3. codeHttpStatusMap[bizCode] \in {200, 400, 401, 403, 404, 425, 429} /\ (bizCode # 0 => codeHttpStatusMap[bizCode] # 200)
        BY <4>2 DEF codeHttpStatusMap
      <4>. QED  BY <1>3, <2>1, <4>1, <4>3 DEF OK, bizCode
    <3>2. CASE bizCode \notin DOMAIN codeHttpStatusMap
      BY <1>3, <2>1, <2>3, <3>2 DEF ToHttpErrStatus, bizCode
    <3>. QED  BY <3>1, <3>2
  <2>4. CASE bizCode >= 1000 /\ http.parse
    <3>1. ToHttpErrStatus(bizCode) = FirstThree(bizCode)
      BY <2>1, <2>4 DEF ToHttpErrStatus
    <3>2. FirstThree(bizCode) \in 100 .. 999
      <4>1. \E st \in 100 .. 999 : \E p \in Powers : bizCode \div p = st
        BY <2>2, <2>4
      <4>. QED  BY <4>1, Zenon DEF FirstThree
    <3>. QED  BY <1>3, <2>1, <2>4, <3>1, <3>2 DEF bizCode
  <2>. QED  BY <2>1, <2>3, <2>4
<1>. QED  BY <1>1, <1>2, <1>3

LEMMA AnsweredPreserves == ErrorInv /\ Handle => ErrorInv'
<1> SUFFICES ASSUME ErrorInv, Handle PROVE ErrorInv'
    OBVIOUS
<1> DEFINE Sent(rsp) == [http EXCEPT !.responses = @ + 1, !.status = IF http.responses = 0 THEN rsp.status ELSE @,
                                     !.code = rsp.code]
           Excused(st) ==
               \/ st >= 400
               \/ IF Is(cause, "http") THEN st = cause[As(cause, "http")].status
                  ELSE GetBizErrCode(cause) = OK \/ (GetBizErrCode(cause) >= 1000 /\ http.parse)
           Told(c) == c = IF Is(cause, "http") /\ ~http.panicked THEN cause[As(cause, "http")].code ELSE GetBizErrCode(cause)
<1>1. /\ at = "exit" /\ at' = "answered" /\ err' = err /\ cause' = cause /\ cause \in Errors
      /\ DOMAIN http = {"status", "responses", "aborted", "panicked", "wrote", "code", "parse"}
      /\ http.status \in 100 .. 999 /\ err \in {<<>>, cause} /\ http.responses = (IF http.wrote THEN 1 ELSE 0)
      /\ http.code \in Int /\ (http.panicked => cause # <<>>) /\ ~Returned'
  BY DEF ErrorInv, Handle, Returned
<1>0. cause \in Seq(Layers)
  BY <1>1, ErrorsAreLayers
<1>2. ASSUME NEW rsp, rsp.status \in 100 .. 999, rsp.code \in Int, Excused(rsp.status), Told(rsp.code), cause # <<>>,
             http' = Sent(rsp)
      PROVE  ErrorInv'
  <2>1. /\ http'.responses = http.responses + 1
        /\ http'.status = IF http.responses = 0 THEN rsp.status ELSE http.status
        /\ http'.wrote = http.wrote /\ http'.parse = http.parse /\ http'.code = rsp.code
        /\ http'.panicked = http.panicked /\ http'.aborted = http.aborted
    BY <1>1, <1>2
  <2>2. /\ DOMAIN http' = {"status", "responses", "aborted", "panicked", "wrote", "code", "parse"}
        /\ http'.status \in 100 .. 999 /\ http'.responses \in 0 .. 2 /\ http'.code \in Int
    BY <1>1, <1>2, <2>1
  <2>3. http'.responses = IF http'.wrote THEN 2 ELSE 1
    BY <1>1, <2>1
  <2>4. (http'.responses = 1 /\ ~http'.wrote) => Excused(http'.status)
    <3> HIDE DEF Excused
    <3>. QED  BY <1>1, <1>2, <2>1
  <2>5. FailureAnswered'
    BY <1>1, <2>1, <2>3, <2>4 DEF FailureAnswered
  <2>6. CodeAnswered'
    BY <1>1, <1>2, <2>1 DEF CodeAnswered, GetBizErrCode
  <2>. QED  BY <1>1, <2>2, <2>5, <2>6 DEF ErrorInv
<1>3. CASE http.panicked
  <2> DEFINE rsp == New500Error(GetBizErrCode(cause))
  <2>1. http' = Sent(rsp)
    BY <1>3 DEF Handle, sendErrRsp
  <2>2. rsp.status = 500 /\ rsp.code = GetBizErrCode(cause) /\ rsp.code \in Int
    BY <1>0, BizErrCode DEF New500Error
  <2>3. Excused(rsp.status) /\ Told(rsp.code) /\ cause # <<>> /\ rsp.status \in 100 .. 999
    BY <1>1, <1>3, <2>2
  <2> HIDE DEF Excused, Told, Sent, rsp
  <2>. QED  BY <1>2, <2>1, <2>2, <2>3
<1>4. CASE ~http.panicked /\ ~http.aborted /\ err # <<>>
  <2>1. http' = Sent(ToHttpErr(cause)) /\ cause # <<>>
    BY <1>1, <1>4 DEF Handle, sendErrRsp
  <2>2. /\ ToHttpErr(cause).status \in 100 .. 999 /\ Excused(ToHttpErr(cause).status)
        /\ ToHttpErr(cause).code \in Int /\ Told(ToHttpErr(cause).code)
    BY <1>1, <1>4, <2>1, AnswerStatus
  <2> HIDE DEF Excused, Told, Sent
  <2>. QED  BY <1>2, <2>1, <2>2
<1>5. CASE ~http.panicked /\ ~(~http.aborted /\ err # <<>>)
  <2>1. http' = http
    BY <1>5 DEF Handle
  <2>2. FailureAnswered' /\ CodeAnswered'
    BY <1>1, <1>5, <2>1 DEF FailureAnswered, CodeAnswered
  <2>. QED  BY <1>1, <2>1, <2>2 DEF ErrorInv
<1>. QED  BY <1>3, <1>4, <1>5

LEMMA ErrorPreserves == ErrorInv /\ [ErrorNext]_errorVars => ErrorInv'
<1>1. ErrorInv /\ UNCHANGED errorVars => ErrorInv'
  BY DEF ErrorInv, errorVars, CodeSurvives, FailureArrives, FailureAnswered, CodeAnswered, Returned, CallersErr
<1>. QED  BY <1>1, SentPreserves, ReceivedPreserves, UnsentPreserves, InHandlerPreserves, AnsweredPreserves DEF ErrorNext

LEMMA ErrorMeans == ErrorInv => ErrorsArrive
<1> SUFFICES ASSUME ErrorInv PROVE ErrorsArrive
    OBVIOUS
<1>2. err \in Seq(Layers)
  <2>1. CASE Returned
    BY <2>1 DEF ErrorInv
  <2>2. CASE ~Returned
    <3>0. cause \in Errors
      BY <2>2 DEF ErrorInv, Returned
    <3>1. cause \in Seq(Layers) /\ <<>> \in Seq(Layers)
      BY <3>0, ErrorsAreLayers
    <3>2. ToRpcErr(cause) \in Seq(Layers)
      BY <3>1, SentError
    <3>3. err \in {cause, ToRpcErr(cause), <<>>}
      BY <2>2 DEF ErrorInv, Returned
    <3>4. \A x \in {cause, ToRpcErr(cause), <<>>} : x \in Seq(Layers)
      BY <3>1, <3>2
    <3>. QED  BY <3>3, <3>4
  <2>. QED  BY <2>1, <2>2
<1>3. CodeSurvives /\ FailureArrives
  BY DEF ErrorInv, CodeSurvives, FailureArrives, Returned
<1>4. ErrorTypeOK
  BY <1>2 DEF ErrorInv, ErrorTypeOK
<1>. QED  BY <1>3, <1>4 DEF ErrorInv, ErrorsArrive

\* An error reaches the caller as an error, with its code, over rpc (rpc/error.go,
\* rpc/mw_error.go) and http (http/mw_err_handler.go), for any errors, layers and codes.
THEOREM ErrorsReach == ErrorSpec => []ErrorsArrive
BY ErrorStarts, ErrorPreserves, ErrorMeans, PTL DEF ErrorSpec

-----------------------------------------------------------------------------
(* The composition: a step of PartsSpec is, for each part, a step of its    *)
(* own specification or leaves its variables as they were.                  *)

LEMMA PartsStart ==
    PartsInit => /\ BarrierInit /\ LimiterInit /\ RetryInit /\ RpcStateInit /\ SessInit
                 /\ ResultInit /\ SetInit /\ BoltInit /\ StoreInit /\ CasInit
                 /\ BlockerInit /\ AuthInit /\ CronInit /\ ErrorInit
BY DEF PartsInit

LEMMA PartsStep ==
    [PartsNext]_partVars =>
        /\ [BarrierNext]_barrierVars /\ [LimiterNext]_limiterVars /\ [RetryNext]_retryVars
        /\ [RpcStateNext]_rpcStateVars /\ [SessNext]_sessVars
        /\ [ResultNext]_resultVars /\ [SetNext]_setVars
        /\ [BoltNext]_boltVars /\ [StoreNext]_storeVars /\ [CasNext]_casVars
        /\ [BlockerNext]_blockerVars /\ [AuthNext]_authVars /\ [CronNext]_cronVars /\ [ErrorNext]_errorVars
<1>1. ASSUME UNCHANGED partVars
      PROVE  UNCHANGED <<barrierVars, limiterVars, retryVars, rpcStateVars, sessVars,
                         resultVars, setVars, boltVars, storeVars, casVars,
                         blockerVars, authVars, cronVars, errorVars>>
  BY <1>1 DEF partVars
<1>2. ASSUME PartsNext
      PROVE  /\ [BarrierNext]_barrierVars /\ [LimiterNext]_limiterVars /\ [RetryNext]_retryVars
             /\ [RpcStateNext]_rpcStateVars /\ [SessNext]_sessVars
             /\ [ResultNext]_resultVars /\ [SetNext]_setVars
             /\ [BoltNext]_boltVars /\ [StoreNext]_storeVars /\ [CasNext]_casVars
             /\ [BlockerNext]_blockerVars /\ [AuthNext]_authVars /\ [CronNext]_cronVars /\ [ErrorNext]_errorVars
  BY <1>2 DEF PartsNext, KeepOthers
<1>. QED  BY <1>1, <1>2

\* PeriodBarrier, Limiter and retryCounter keep to their limits when callers interleave
\* (async/barrier.go, rdb/limiter.go, util/retry.go).
THEOREM PartsKeepLimits == PartsSpec => []LimitsKept
<1>1. BarrierInv /\ LimiterInv /\ RetryInv => LimitsKept
  BY BarrierMeans, LimiterMeans, RetryMeans DEF LimitsKept
<1>. QED  BY <1>1, PartsStart, PartsStep, BarrierStarts, BarrierPreserves, LimiterStarts, LimiterPreserves,
             RetryStarts, RetryPreserves, PTL DEF PartsSpec

\* A request finds its own values in the State of its call (rpc/mw_state.go) and in its
\* browser's session (http/mw_session.go).
THEOREM PartsSeeOwnValues == PartsSpec => []OwnValuesSeen
<1>1. StateInv /\ SessInv => OwnValuesSeen
  BY StateMeans, SessMeans DEF OwnValuesSeen
<1>. QED  BY <1>1, PartsStart, PartsStep, StateStarts, StatePreserves, SessStarts, SessPreserves, PTL DEF PartsSpec

\* Whoever shares a collection finds it whole, whoever does not finds it untouched
\* (async/result.go, _set/string_set.go).
THEOREM PartsKeepCollections == PartsSpec => CollectionsKept
<1>1. ResultInv /\ SetInv => /\ ResultTypeOK /\ BatchTogether /\ CopyIsWhole /\ DeletedOnce /\ FailedHasNoValue
                            /\ SetTypeOK /\ EqualIsEqual
  BY ResultMeans, SetMeans
<1>2. PartsSpec => [](ResultInv /\ SetInv) /\ [][SetNext]_setVars
  BY PartsStart, PartsStep, ResultStarts, ResultPreserves, SetStarts, SetPreserves, PTL DEF PartsSpec
<1>. QED  BY <1>1, <1>2, SetActs, PTL DEF CollectionsKept, OnlyReceiverChanges, PopSplits

\* What a store says of an operation is true (bolt/repo.go, store/store.go, rdb/ca.go).
THEOREM PartsReportTruly == PartsSpec => ReportedIsTrue
<1>1. BoltInv /\ StoreInv => BoltTypeOK /\ WrittenIsRead /\ StoreTypeOK /\ HandedBackOnce /\ TextKeepsAnswers
  BY StoreMeans DEF BoltInv
<1>2. PartsSpec => [](BoltInv /\ StoreInv) /\ [](CasTypeOK /\ ReportedIsStored)
                   /\ [][BoltNext]_boltVars /\ [][CasNext]_casVars
  BY PartsStart, PartsStep, BoltStarts, BoltPreserves, StoreStarts, StorePreserves,
     CasStarts, CasPreserves, PTL DEF PartsSpec
<1>. QED  BY <1>1, <1>2, BoltActs, CasActs, PTL
          DEF ReportedIsTrue, FailureChangesNothing, IdsFresh, FailureUntouched

\* The parts of which a property of the composition is one part's own: Blocker
\* (async/blocker.go), the tokens (rpc/mw_auth.go), the cron scheduler
\* (scheduler/scheduler.go) and the path of errors (rpc/error.go, http/mw_err_handler.go).
THEOREM PartsKeepPromises ==
    PartsSpec => BlocksUntilValue /\ []TokensJudged /\ []RunsGuarded /\ []ErrorsArrive
<1>1. BlockerInv => BlockerTypeOK /\ BlocksIffEmpty /\ NobodyLeftWaiting
  BY DEF BlockerInv
<1>2. AuthInv => TokensJudged
  BY DEF AuthInv, TokensJudged
<1>3. PartsSpec => BlocksUntilValue
  BY <1>1, PartsStart, PartsStep, BlockerStarts, BlockerPreserves, BlockerSees, PTL
     DEF PartsSpec, BlocksUntilValue, GetSeesValue
<1>. QED  BY <1>2, <1>3, PartsStart, PartsStep, AuthStarts, AuthPreserves, CronStarts, CronPreserves, CronMeans,
             ErrorStarts, ErrorPreserves, ErrorMeans, PTL DEF PartsSpec
=============================================================================
