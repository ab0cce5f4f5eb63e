---------------------------- MODULE RpcMiddleware -----------------------------
(***************************************************************************)
(* The middlewares of rpc that hand something to the handler.              *)
(*                                                                         *)
(* rpc/mw_state.go: an MWState hands a State to its callback and, in the   *)
(* context, to the next interceptor: the one the context carries, else its *)
(* own.  A context carries the State that the caller has put there, that   *)
(* of another call it was made from, or that of an earlier MWState of the  *)
(* chain.  A BaseState is a map without a lock, so a write that overlaps   *)
(* another access of the same map is a data race (the runtime may stop the *)
(* process): an access has a begin and an end.                             *)
(*                                                                         *)
(* rpc/mw_auth.go with the tokens of util/crypto.go: the client's          *)
(* interceptor appends a token to the metadata of a call, the server's     *)
(* checks the last one and hands its headers to the handler.  One call,    *)
(* delivered after any delay; the two clocks differ.  A signature is a     *)
(* fact of the key and of what was signed; its text is left out, and the   *)
(* handler has no callbacks of its own.                                    *)
(***************************************************************************)
EXTENDS Integers, Sequences

CONSTANTS
    StateRequests,      \* concurrent requests through one chain of interceptors
    StateKeys,
    NumMWs              \* MWState interceptors in the chain

NoState == 0            \* no State in the context
Caller == "caller"      \* who has made a State from values

ASSUME RpcStateAssumption ==
    /\ NumMWs \in Nat \ {0}
    /\ StateRequests \cap 0 .. NumMWs = {} /\ Caller \notin StateRequests

VARIABLES
    carried,    \* the State with which the context of a request came
    objOf,      \* the State that is in it
    entries,    \* the entries of each State; a value is the request that put it, or Caller
    reqPc,      \* "new", "callback", "next", "handler", "done", "refused"
    mwOf,       \* the middleware of the chain that a request has come to
    access,     \* the access of a map that a request is in
    mine,       \* history: the keys that a request's callbacks have put and left
    raced       \* history: two accesses have overlapped, one of them a write

rpcStateVars == <<carried, objOf, entries, reqPc, mwOf, access, mine, raced>>

\* The State of each middleware, and one that the caller makes for a request.
Objects == 1 .. NumMWs \cup StateRequests
NoAccess == [op |-> "none"]
Writes == {"Put", "Del", "Clear"}

RpcStateTypeOK ==
    /\ carried \in [StateRequests -> Objects \cup {NoState}] /\ objOf \in [StateRequests -> Objects \cup {NoState}]
    /\ \A o \in Objects : DOMAIN entries[o] \subseteq StateKeys
          /\ \A k \in DOMAIN entries[o] : entries[o][k] \in StateRequests \cup {Caller}
    /\ \A r \in StateRequests : access[r] # NoAccess => reqPc[r] \in {"callback", "handler"}
    /\ mwOf \in [StateRequests -> 0 .. NumMWs] /\ mine \in [StateRequests -> SUBSET StateKeys]
    /\ raced \in BOOLEAN

-----------------------------------------------------------------------------
(* MWState *)

\* NewStateOf copies the values that it is given; NewState gives it none.
NewStateOf(K) == [k \in K |-> Caller]

\* The caller makes a State for its request, or starts from the context of another one.
StateIntoContext(r) ==
    /\ reqPc[r] = "new" /\ carried[r] = NoState
    /\ \/ \E K \in SUBSET StateKeys :
             carried' = [carried EXCEPT ![r] = r] /\ entries' = [entries EXCEPT ![r] = NewStateOf(K)]
       \/ \E q \in StateRequests :
             objOf[q] # NoState /\ carried' = [carried EXCEPT ![r] = objOf[q]] /\ UNCHANGED entries
    /\ objOf' = [objOf EXCEPT ![r] = carried'[r]]
    /\ UNCHANGED <<reqPc, mwOf, access, mine, raced>>

\* MWState.handle of the next middleware up to its callback.
handle(r) ==
    /\ reqPc[r] \in {"new", "next"} /\ reqPc' = [reqPc EXCEPT ![r] = "callback"]
    /\ mwOf' = [mwOf EXCEPT ![r] = @ + 1]
    /\ objOf' = [objOf EXCEPT ![r] = IF @ = NoState THEN mwOf[r] + 1 ELSE @]
    /\ UNCHANGED <<carried, entries, access, mine, raced>>

Overlaps(r, op) ==
    \E q \in StateRequests \ {r} :
        /\ access[q] # NoAccess /\ objOf[q] = objOf[r]
        /\ op \in Writes \/ access[q].op \in Writes

Begin(r, op, key) ==
    /\ access[r] = NoAccess
    /\ access' = [access EXCEPT ![r] = [op |-> op, key |-> key]]
    /\ raced' = (raced \/ Overlaps(r, op))
    /\ UNCHANGED <<carried, objOf, entries, reqPc, mwOf, mine>>

End(r, op, key, ents, keys) ==
    /\ access[r] = [op |-> op, key |-> key]
    /\ access' = [access EXCEPT ![r] = NoAccess]
    /\ entries' = [entries EXCEPT ![objOf[r]] = ents]
    /\ mine' = [mine EXCEPT ![r] = keys]
    /\ UNCHANGED <<carried, objOf, reqPc, mwOf, raced>>

entriesOf(r) == entries[objOf[r]]

\* A callback reads and changes the State ...
Put(r, key) ==
    End(r, "Put", key, [k \in DOMAIN entriesOf(r) \cup {key} |-> IF k = key THEN r ELSE entriesOf(r)[k]],
        mine[r] \cup {key})
StateDel(r, key) ==
    End(r, "Del", key, [k \in DOMAIN entriesOf(r) \ {key} |-> entriesOf(r)[k]], mine[r] \ {key})
StateClear(r) == End(r, "Clear", "all", <<>>, {})

callback(r) ==
    /\ reqPc[r] = "callback"
    /\ \/ \E key \in StateKeys :
             Begin(r, "Put", key) \/ Begin(r, "Del", key) \/ Put(r, key) \/ StateDel(r, key)
       \/ Begin(r, "Clear", "all") \/ StateClear(r)

\* ... and returns nil or an error.
callbackReturns(r) ==
    /\ reqPc[r] = "callback" /\ access[r] = NoAccess
    /\ \E pc \in {IF mwOf[r] < NumMWs THEN "next" ELSE "handler", "refused"} :
          reqPc' = [reqPc EXCEPT ![r] = pc]
    /\ UNCHANGED <<carried, objOf, entries, mwOf, access, mine, raced>>

\* Callbacks and the handler read values with Get, Has, ToMap or the Must getters, which
\* panic without one.
Get(r, key) == IF key \in DOMAIN entriesOf(r) THEN entriesOf(r)[key] ELSE "missing"

reads(r) ==
    /\ reqPc[r] \in {"callback", "handler"}
    /\ \/ Begin(r, "Get", "any")
       \/ End(r, "Get", "any", entriesOf(r), mine[r])

handlerReturns(r) ==
    /\ reqPc[r] = "handler" /\ access[r] = NoAccess
    /\ reqPc' = [reqPc EXCEPT ![r] = "done"]
    /\ UNCHANGED <<carried, objOf, entries, mwOf, access, mine, raced>>

RpcStateInit ==
    /\ carried = [r \in StateRequests |-> NoState] /\ objOf = carried
    /\ entries = [o \in Objects |-> <<>>]
    /\ reqPc = [r \in StateRequests |-> "new"] /\ mwOf = [r \in StateRequests |-> 0]
    /\ access = [r \in StateRequests |-> NoAccess]
    /\ mine = [r \in StateRequests |-> {}] /\ raced = FALSE

RpcStateNext ==
    \E r \in StateRequests :
        \/ StateIntoContext(r) \/ handle(r) \/ callback(r) \/ callbackReturns(r)
        \/ reads(r) \/ handlerReturns(r)

RpcStateSpec == RpcStateInit /\ [][RpcStateNext]_rpcStateVars

-----------------------------------------------------------------------------
(* Properties *)

\* The State that is meant for a request: the one it came with, else that of the first
\* middleware; and whether no other request that has started is meant to use it.
Given(r) == IF carried[r] = NoState THEN 1 ELSE carried[r]
Started(r) == reqPc[r] # "new"
Alone(r) == \A q \in StateRequests \ {r} : Started(q) => Given(q) # Given(r)

\* A request that shares its State with no other finds there, down the whole chain, what
\* its own callbacks have put and nothing of another request.  (One that came with the
\* State of another call, or without one while another has none, may find the other's.)
OwnPutSeen ==
    \A r \in StateRequests : Started(r) /\ Alone(r) =>
        /\ \A k \in mine[r] : Get(r, k) = r
        /\ \A k \in StateKeys : Get(r, k) \in {r, Caller, "missing"}

\* A map is raced for only if two requests have been given the same State.
RaceNeedsSharing == raced => \E r \in StateRequests : Started(r) /\ ~Alone(r)

-----------------------------------------------------------------------------
(* MWAuth *)

CONSTANTS
    AuthOptions,    \* SimpleAuthOption of a side: disabled, mode, key, ignores, putHeaders, headers
    Skews,          \* server clock minus client clock
    Second,         \* ticks of the clock in a second: a token is dated in seconds
    TTL,            \* 2 minutes, in ticks
    MaxAuthTime     \* bound: the client's clock

ASSUME AuthAssumption ==
    /\ Second \in Nat \ {0} /\ TTL \in Nat /\ MaxAuthTime \in Nat /\ Second <= MaxAuthTime + 1
    /\ Skews \subseteq Int
    /\ \A o \in AuthOptions :
          o.mode \in {"key", "token"} /\ {o.disabled, o.ignores, o.putHeaders} \subseteq BOOLEAN

NoKey == "no key"
Methods == {"health", "ignored", "plain"}
NoValue == "no value"

VARIABLES
    client, server,     \* the options of the two sides
    skew,
    call,               \* its method and md, the authorization values of its metadata
    stage,              \* "client", "wire", "handler", "refused"
    code,               \* the status code of a refused call
    sentAt, checkedAt,  \* client clock when the token was made, server clock when it was checked
    value,              \* the auth value in the handler's context
    clientClock

authVars == <<client, server, skew, call, stage, code, sentAt, checkedAt, value, clientClock>>

\* A token: empty, the key itself, or signed.
EmptyToken == [form |-> "empty"]
KeyToken(key) == IF key = NoKey THEN EmptyToken ELSE [form |-> "key", key |-> key]
SignedToken(key, at, headers) == [form |-> "signed", key |-> key, at |-> at, headers |-> headers]

AuthTypeOK ==
    /\ client \in AuthOptions /\ server \in AuthOptions
    /\ stage \in {"client", "wire", "handler", "refused"}
    /\ (stage = "refused") <=> (code # "OK")
    /\ code \in {"OK", "Internal", "Unauthenticated"}
    /\ value # NoValue => stage = "handler" /\ server.putHeaders
    /\ clientClock \in 0 .. MaxAuthTime

-----------------------------------------------------------------------------
(* util.Token *)

\* time.Unix drops the fraction of the second.
Unix(t) == t - (t % Second)

EncodeToken(key, at, headers) == SignedToken(key, Unix(at), headers)

Abs(n) == IF n < 0 THEN -n ELSE n

Expired(t, now) == Abs(now - t.at) > TTL

\* ParseToken succeeds for what EncodeToken has made.
ParseToken(t) == t.form = "signed"

\* ParseAndCheckToken succeeds.
TokenValid(key, t, now) ==
    /\ key # NoKey
    /\ ParseToken(t)
    /\ ~Expired(t, now)
    /\ t.key = key

-----------------------------------------------------------------------------
(* SimpleAuthHandler *)

ignore(o, method) == o.disabled \/ (o.ignores /\ method = "ignored")

NewTokenFails(o, method) == ~ignore(o, method) /\ o.mode = "token" /\ o.key = NoKey

OnNewToken(o, method, now) ==
    IF ignore(o, method) THEN EmptyToken
    ELSE IF o.mode = "key" THEN KeyToken(o.key) ELSE EncodeToken(o.key, now, o.headers)

\* The token is accepted.
OnCheckToken(o, t, method, now) ==
    \/ ignore(o, method)
    \/ o.mode = "key" /\ t = KeyToken(o.key)
    \/ o.mode = "token" /\ TokenValid(o.key, t, now)

CheckedValue(o, t, method) ==
    IF ~ignore(o, method) /\ o.mode = "token" /\ o.putHeaders THEN t.headers ELSE NoValue

-----------------------------------------------------------------------------
(* The interceptors *)

Refuse(c) == stage' = "refused" /\ code' = c /\ UNCHANGED <<call, value>>

appendTokenToOutgoingContext_OldKept ==
    IF client.disabled
    THEN stage' = "wire" /\ UNCHANGED <<call, code, value>>
    ELSE IF NewTokenFails(client, call.method)
    THEN Refuse("Internal")
    ELSE /\ call' = [call EXCEPT !.md = IF @ = <<>> THEN <<OnNewToken(client, call.method, clientClock)>> ELSE @]
         /\ stage' = "wire" /\ UNCHANGED <<code, value>>
appendTokenToOutgoingContext ==
    IF client.disabled
    THEN stage' = "wire" /\ UNCHANGED <<call, code, value>>
    ELSE IF NewTokenFails(client, call.method)
    THEN Refuse("Internal")
    ELSE /\ call' = [call EXCEPT !.md = Append(@, OnNewToken(client, call.method, clientClock))]
         /\ stage' = "wire" /\ UNCHANGED <<code, value>>

ClientInterceptor ==
    /\ stage = "client"
    /\ appendTokenToOutgoingContext
    /\ sentAt' = clientClock
    /\ UNCHANGED <<client, server, skew, checkedAt, clientClock>>

\* GetMDVal: an index below zero counts from the end.
HasMDVal(vals, idx) == idx \in -Len(vals) .. Len(vals) - 1
GetMDVal(vals, idx) == vals[1 + IF idx < 0 THEN idx + Len(vals) ELSE idx]

checkTokenFromIncomingContext ==
    LET now == clientClock + skew
    IN  IF server.disabled \/ call.method = "health"
        THEN stage' = "handler" /\ UNCHANGED <<call, code, value>>
        ELSE IF ~HasMDVal(call.md, -1) \/ ~OnCheckToken(server, GetMDVal(call.md, -1), call.method, now)
        THEN Refuse("Unauthenticated")
        ELSE /\ value' = CheckedValue(server, GetMDVal(call.md, -1), call.method)
             /\ stage' = "handler" /\ UNCHANGED <<call, code>>

\* A stream is wrapped so that its handler sees the new context.
ServerInterceptor ==
    /\ stage = "wire"
    /\ checkTokenFromIncomingContext
    /\ checkedAt' = clientClock + skew
    /\ UNCHANGED <<client, server, skew, sentAt, clientClock>>

\* Time passes: before the call is sent only the fraction of the second matters.
AuthTick ==
    /\ \/ stage = "client" /\ clientClock < Second - 1
       \/ stage = "wire" /\ clientClock < MaxAuthTime
    /\ clientClock' = clientClock + 1
    /\ UNCHANGED <<client, server, skew, call, stage, code, sentAt, checkedAt, value>>

-----------------------------------------------------------------------------
\* The context of the call may already hold an authorization value: that of a call which is
\* being forwarded, made just now or long ago with the same key.
AuthInit ==
    /\ client \in AuthOptions /\ server \in AuthOptions /\ skew \in Skews
    /\ call \in [method : Methods,
                 md : {<<>>} \cup {<<SignedToken(client.key, at, "forwarded")>> : at \in {0, -(TTL + Second)}}]
    /\ stage = "client" /\ code = "OK" /\ value = NoValue
    /\ sentAt = 0 /\ checkedAt = 0 /\ clientClock = 0

AuthNext == ClientInterceptor \/ ServerInterceptor \/ AuthTick

AuthSpec == AuthInit /\ [][AuthNext]_authVars

-----------------------------------------------------------------------------
(* Properties *)

Delay == checkedAt - sentAt
Checked == stage = "handler" \/ code = "Unauthenticated"

\* The two sides are set up alike.
Alike == ~client.disabled /\ client.mode = server.mode /\ client.key = server.key
         /\ client.key # NoKey /\ client.ignores = server.ignores

\* The server checks a signature, and the client does not leave that to another.
Signed == server.mode = "token" /\ ~ignore(server, call.method) /\ call.method # "health" /\ ~client.disabled

\* A call between two sides that are set up alike reaches the handler when the clocks and
\* the delay leave it inside the two minutes, less the second that the date of the token
\* drops: also when its context held an older token.
AlikeIsAccepted ==
    (Checked /\ Alike /\ -TTL <= Delay /\ Delay <= TTL - (Second - 1)) => stage = "handler"

\* A signed call that reaches the handler was made, by the two clocks, at most two minutes
\* before it was checked, and at most two minutes and a second after.
AcceptedIsRecent ==
    (Signed /\ stage = "handler") => -(TTL + Second - 1) <= Delay /\ Delay <= TTL

\* The auth value that the handler finds is the one this call's client put in its token,
\* not that of a token which the context held before; without EnablePutTokenHeaders, none.
ValueIsCallers ==
    (Signed /\ stage = "handler") => value = IF server.putHeaders THEN client.headers ELSE NoValue

\* Client and server judge tokens alike: what one makes the other accepts, for as long as
\* its date allows, and takes the values from.
TokensJudged == AuthTypeOK /\ AlikeIsAccepted /\ AcceptedIsRecent /\ ValueIsCallers
=============================================================================
