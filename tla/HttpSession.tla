----------------------------- MODULE HttpSession ------------------------------
(***************************************************************************)
(* http/mw_session.go: the session of one browser over concurrent          *)
(* requests.  A request loads the session at its first use and keeps it;   *)
(* Set, Del and Clear save it at once, MWSaveSession saves what is left    *)
(* when the handler has returned.  With the cookie store the values travel *)
(* in the cookie, with the redis store the cookie holds the session's id.  *)
(* gin and its sessions are external: a save without a change does         *)
(* nothing, and a cookie set after the header was sent is lost.            *)
(***************************************************************************)
EXTENDS Naturals, FiniteSets

CONSTANTS
    NumRequests,    \* bound: requests, in the order of their arrival
    SessionKeys,
    SessionStores,  \* subset of {"cookie", "redis"}
    MaxChanges      \* bound: changes that a request makes

ASSUME SessionAssumption == SessionStores \subseteq {"cookie", "redis"} /\ {MaxChanges, NumRequests} \subseteq Nat

SessionRequests == 1 .. NumRequests
NoId == 0
NoValues == <<>>
Values == UNION {[K -> SessionRequests] : K \in SUBSET SessionKeys}

VARIABLES
    sessStore, autoSave,    \* the kind of store; whether MWSaveSession is installed
    jar,                    \* the browser's cookie: id and values
    redisVals,              \* the values redis holds under each id
    req,                    \* the requests
    saved,                  \* history: the values that the next load may find
    overlapped,             \* history: two requests were open at once
    tooLate                 \* history: a cookie was set after the header was sent

sessVars == <<sessStore, autoSave, jar, redisVals, req, saved, overlapped, tooLate>>

NoCookie == [id |-> NoId, vals |-> NoValues]
NewRequest == [pc |-> "new", cookie |-> NoCookie, loaded |-> FALSE, vals |-> NoValues,
               written |-> FALSE, changes |-> 0, headerSent |-> FALSE]

SessTypeOK ==
    /\ jar.vals \in Values /\ jar.id \in SessionRequests \cup {NoId}
    /\ redisVals \in [SessionRequests -> Values]
    /\ \A r \in SessionRequests :
          /\ req[r].vals \in Values
          /\ req[r].written => req[r].loaded /\ req[r].changes > 0
          /\ req[r].changes \in 0 .. MaxChanges
    /\ saved \subseteq Values /\ saved # {}

Open == {r \in SessionRequests : req[r].pc = "open"}

\* The session as the request loads it: from its cookie, or from redis under its id.
Loaded(r) ==
    LET q == req[r]
        vals == IF q.loaded THEN q.vals
                ELSE IF sessStore = "cookie" THEN q.cookie.vals
                ELSE IF q.cookie.id = NoId THEN NoValues ELSE redisVals[q.cookie.id]
    IN  [q EXCEPT !.loaded = TRUE, !.vals = vals]

\* Nobody looks at the session of a request that has ended.
Kept(q) == IF q.pc = "open" THEN q ELSE [NewRequest EXCEPT !.pc = q.pc]

WithKey(vals, key, r) == [k \in DOMAIN vals \cup {key} |-> IF k = key THEN r ELSE vals[k]]

Changed(q, vals) == [q EXCEPT !.vals = vals, !.written = TRUE, !.changes = @ + 1]

-----------------------------------------------------------------------------
Arrive(r) ==
    /\ req[r].pc = "new" /\ \A p \in 1 .. r - 1 : req[p].pc # "new"
    /\ req' = [req EXCEPT ![r].pc = "open", ![r].cookie = jar]
    /\ overlapped' = (overlapped \/ Open # {})
    /\ UNCHANGED <<sessStore, autoSave, jar, redisVals, saved, tooLate>>

\* GetSession and a read.
GetSession(r) ==
    /\ r \in Open /\ ~req[r].loaded
    /\ req' = [req EXCEPT ![r] = Loaded(r)]
    /\ UNCHANGED <<sessStore, autoSave, jar, redisVals, saved, overlapped, tooLate>>

\* save of the request q in place of req[r]: the redis store writes the values under an id
\* (a new one is the request's) and then sets the cookie, which the browser keeps.
save(r, q) ==
    LET id == IF q.cookie.id = NoId THEN r ELSE q.cookie.id
        cookie == IF sessStore = "cookie" THEN [id |-> NoId, vals |-> q.vals] ELSE [id |-> id, vals |-> NoValues]
    IN  /\ req' = [req EXCEPT ![r] = Kept([q EXCEPT !.written = FALSE, !.cookie = cookie])]
        /\ redisVals' = IF sessStore = "redis" THEN [redisVals EXCEPT ![id] = q.vals] ELSE redisVals
        /\ saved' = {q.vals}
        /\ jar' = IF q.headerSent THEN jar ELSE cookie
        /\ tooLate' = (tooLate \/ (q.headerSent /\ cookie # jar))

\* A save that fails: the cookie could not be encoded or is too long, or redis did not
\* answer and holds the values nevertheless.
saveFails(r, q) ==
    /\ \/ UNCHANGED <<redisVals, saved>>
       \/ LET id == IF q.cookie.id = NoId THEN r ELSE q.cookie.id
          IN  /\ sessStore = "redis"
              /\ redisVals' = [redisVals EXCEPT ![id] = q.vals] /\ saved' = saved \cup {q.vals}
    /\ req' = [req EXCEPT ![r] = Kept(q)]
    /\ UNCHANGED <<jar, tooLate>>

Saved(r, q) == (save(r, q) \/ saveFails(r, q)) /\ UNCHANGED <<sessStore, autoSave, overlapped>>

SessSet_NotSaved(r, key) ==
    /\ r \in Open
    /\ req' = [req EXCEPT ![r] = Changed(Loaded(r), WithKey(Loaded(r).vals, key, r))]
    /\ saved' = {WithKey(Loaded(r).vals, key, r)}
    /\ UNCHANGED <<sessStore, autoSave, jar, redisVals, overlapped, tooLate>>
SessSet(r, key) ==
    /\ r \in Open
    /\ LET q == Loaded(r) IN Saved(r, Changed(q, WithKey(q.vals, key, r)))

SessDel(r, key) ==
    /\ r \in Open
    /\ LET q == Loaded(r) IN Saved(r, Changed(q, [k \in DOMAIN q.vals \ {key} |-> q.vals[k]]))

SessClear(r) == r \in Open /\ Saved(r, Changed(Loaded(r), NoValues))

\* A change through GSession, which nobody saves at once.
gsSet(r, key) ==
    /\ r \in Open
    /\ LET q == Loaded(r) IN req' = [req EXCEPT ![r] = Changed(q, WithKey(q.vals, key, r))]
    /\ UNCHANGED <<sessStore, autoSave, jar, redisVals, saved, overlapped, tooLate>>

\* The handler writes the response.
Respond(r) ==
    /\ r \in Open /\ ~req[r].headerSent
    /\ req' = [req EXCEPT ![r].headerSent = TRUE]
    /\ UNCHANGED <<sessStore, autoSave, jar, redisVals, saved, overlapped, tooLate>>

\* MWSaveSession after c.Next(), unless the handler has aborted the chain.
MWSaveSession(r, aborted) ==
    /\ r \in Open
    /\ LET q == [req[r] EXCEPT !.pc = "done"]
       IN  IF autoSave /\ q.written /\ ~aborted
           THEN Saved(r, q)
           ELSE /\ req' = [req EXCEPT ![r] = Kept(q)]
                /\ UNCHANGED <<sessStore, autoSave, jar, redisVals, saved, overlapped, tooLate>>

-----------------------------------------------------------------------------
SessInit ==
    /\ sessStore \in SessionStores /\ autoSave \in BOOLEAN
    /\ jar = NoCookie /\ redisVals = [r \in SessionRequests |-> NoValues]
    /\ req = [r \in SessionRequests |-> NewRequest]
    /\ saved = {NoValues} /\ overlapped = FALSE /\ tooLate = FALSE

SessNext ==
    \E r \in SessionRequests :
        \/ Arrive(r) \/ GetSession(r) \/ Respond(r) \/ \E aborted \in BOOLEAN : MWSaveSession(r, aborted)
        \/ /\ req[r].changes < MaxChanges
           /\ SessClear(r) \/ \E key \in SessionKeys : SessSet(r, key) \/ SessDel(r, key) \/ gsSet(r, key)

SessSpec == SessInit /\ [][SessNext]_sessVars

-----------------------------------------------------------------------------
(* Properties *)

\* What Set, Del, Clear or MWSaveSession has saved without an error is what the browser's
\* next request loads, and a failed save leaves the old values or the new ones: unless
\* requests overlapped, or the cookie was set after the response was under way.
NextLoadSeesSaved ==
    \A r \in Open :
        (req[r].loaded /\ req[r].changes = 0 /\ ~overlapped /\ ~tooLate) => req[r].vals \in saved
=============================================================================
