------------------------------- MODULE ErrorPath ------------------------------
(***************************************************************************)
(* How an error reaches a client: util/error.go (BizError and its codes),  *)
(* rpc/error.go and rpc/mw_error.go (over gRPC, as a status), and          *)
(* http/mw_err_handler.go and http/error.go (as a response).               *)
(* An error is the sequence of its layers, outermost first, as errors.As   *)
(* and Unwrap see it; <<>> is nil.                                         *)
(***************************************************************************)
EXTENDS Integers, Sequences

CONSTANTS
    Errors,     \* the errors handlers return
    RpcCodes,   \* the number of values of codes.Code, a uint32 in the code
    Powers      \* powers of ten, enough for the digits of the codes

\* Codes of BizError.
Unknown == -1
OK == 0

Layer(type, code) == [type |-> type, code |-> code]

\* http.Error: its code and the status of its response.
HttpLayer(status, code) == [type |-> "http", code |-> code, status |-> status]

\* A status with the code OK is no error.  A validation error may carry a number as its
\* code; else it has the code Unknown here.
Layers ==
    [type : {"plain", "biz", "validation"}, code : Int]
        \cup [type : {"status"}, code : 1 .. RpcCodes - 1] \cup [type : {"http"}, code : Int, status : 100 .. 999]

\* gRPC's own codes fit into half of the range.
ASSUME ErrorAssumption ==
    /\ RpcCodes \in Nat /\ RpcCodes > 33
    /\ \A e \in Errors : e \in Seq(Layers)
    /\ Powers \subseteq Nat \ {0}
    /\ \A e \in Errors : \A i \in DOMAIN e :
          (e[i].type = "biz" /\ e[i].code >= 1000) => \E p \in Powers : e[i].code \div p \in 100 .. 999

VARIABLES
    err,        \* the error where it is now
    at,         \* where that is
    cause,      \* history: the error the handler returned
    http        \* the HTTP request: status, responses written, c.Abort called, panicked,
                \* wrote (by the handler), code: in the response of the middleware; parse: the
                \* option to take the status from the code

errorVars == <<err, at, cause, http>>

ErrorTypeOK ==
    /\ at \in {"server", "wire", "client", "stream", "handler", "exit", "answered"}
    /\ http.status \in 100 .. 999 /\ http.responses \in 0 .. 2 /\ http.code \in Int
    /\ err \in Seq(Layers)

\* errors.As: whether there is a layer of a type, and the index of the first one.
Is(e, type) == \E i \in DOMAIN e : e[i].type = type
As(e, type) == CHOOSE i \in DOMAIN e : e[i].type = type /\ \A j \in 1 .. i - 1 : e[j].type # type

-----------------------------------------------------------------------------
(* util *)

GetBizErrCode(e) ==
    IF e = <<>> THEN OK ELSE IF Is(e, "biz") THEN e[As(e, "biz")].code ELSE Unknown

NewBizError(code) == <<Layer("biz", code)>>
ToBizError(e) ==
    IF Is(e, "biz") THEN SubSeq(e, As(e, "biz"), Len(e))
                    ELSE NewBizError(IF e = <<>> THEN OK ELSE Unknown)

codeHttpStatusMap ==
    [c \in {0, 4, 5, 7, 8, 10, 13} |->
        CASE c = 4 -> 400 [] c = 5 -> 425 [] c = 7 -> 401 [] c = 8 -> 403 [] c = 10 -> 429 [] c = 13 -> 404
          [] c = 0 -> 200]

-----------------------------------------------------------------------------
(* rpc *)

\* codeRpcCodeMap: BizError codes to gRPC codes (OK is 0, Unknown 2, ...).
codeRpcCodeMap ==
    [c \in {Unknown, OK, 2, 4, 5} \cup 7 .. 13 |->
        CASE c = 4 -> 3 [] c = 5 -> 9 [] c = 7 -> 16 [] c = 8 -> 7 [] c = 10 -> 8 [] c = 9 -> 4 [] c = 2 -> 13
          [] c = 13 -> 5 [] c = 11 -> 1 [] c = 12 -> 10 [] c = Unknown -> 2 [] c = OK -> 0]

\* Any other code is converted, and keeps what fits.
ToRpcErrCode(code) == IF code \in DOMAIN codeRpcCodeMap THEN codeRpcCodeMap[code] ELSE code % RpcCodes
ToBizErrCode(code) ==
    IF \E c \in DOMAIN codeRpcCodeMap : codeRpcCodeMap[c] = code
    THEN CHOOSE c \in DOMAIN codeRpcCodeMap : codeRpcCodeMap[c] = code
    ELSE code

\* status.Error: a status with the code OK is no error.
Status(code) == IF code = 0 THEN <<>> ELSE <<Layer("status", code)>>

\* status.FromError looks at the outermost layer only.
IsRpcErr(e) == e = <<>> \/ e[1].type = "status"

ToRpcErr(e) ==
    IF IsRpcErr(e) THEN e
    ELSE Status(IF Is(e, "biz") THEN ToRpcErrCode(e[As(e, "biz")].code) ELSE 2)

ToBizErr(e) ==
    IF e = <<>> THEN e
    ELSE IF IsRpcErr(e) THEN NewBizError(ToBizErrCode(e[1].code)) ELSE ToBizError(e)

\* What arrives for a status: a code beyond the positive half of its range may be
\* taken for a malformed one, which is an internal error.
Transported(e) == IF e # <<>> /\ e[1].code >= RpcCodes \div 2 THEN {e, Status(13)} ELSE {e}

\* The interceptors of MWError and the transport between them.
serverIntercepts ==
    /\ at = "server"
    /\ err' = IF err = <<>> THEN err ELSE ToRpcErr(err)
    /\ at' = "wire"
    /\ UNCHANGED <<cause, http>>

\* A unary call: the interceptor converts what invoker returns.
clientIntercepts ==
    /\ at = "wire"
    /\ \E e \in Transported(err) : err' = ToBizErr(e)
    /\ at' = "client"
    /\ UNCHANGED <<cause, http>>

\* A stream: streamer has returned nil, so the interceptor converts nothing, and the
\* caller gets the status when it reads from the stream.
streamReceives ==
    /\ at = "wire"
    /\ err' \in Transported(err)
    /\ at' = "stream"
    /\ UNCHANGED <<cause, http>>

\* The call does not reach the server: invoker or streamer itself fails, and the
\* interceptor of either kind converts the error (Unavailable).
Unavailable == Status(14)
callFails ==
    /\ at = "server"
    /\ cause' = Unavailable /\ err' = ToBizErr(Unavailable)
    /\ at' = "client"
    /\ UNCHANGED http

-----------------------------------------------------------------------------
(* http *)

\* The first three digits of a code of at least four.
FirstThree(n) == CHOOSE s \in 100 .. 999 : \E p \in Powers : n \div p = s

ToHttpErrStatus(code) ==
    IF code < 1000 \/ ~http.parse
    THEN IF code \in DOMAIN codeHttpStatusMap THEN codeHttpStatusMap[code] ELSE 500
    ELSE FirstThree(code)

\* The last error of the request is always a *gin.Error: the first case of the switch takes
\* what it wraps, and those for validation errors are never reached.
ToHttpErrCode(e) == GetBizErrCode(e)

IsValidationErr(e) == e[1].type = "validation"

\* The status and the code of the response.  (An http error carries its own.)
ToHttpErr(e) ==
    IF Is(e, "http") THEN [status |-> e[As(e, "http")].status, code |-> e[As(e, "http")].code]
    ELSE [status |-> IF IsValidationErr(e) THEN 400 ELSE ToHttpErrStatus(ToHttpErrCode(e)),
          code |-> ToHttpErrCode(e)]

\* c.JSON: a status that was written before stays, and the body is appended.
sendErrRsp(rsp) ==
    http' = [http EXCEPT !.responses = @ + 1, !.status = IF http.responses = 0 THEN rsp.status ELSE @,
                         !.code = rsp.code]

\* What a handler may do: answer, record an error, abort, and then return or panic with
\* the error.
handlerStep ==
    /\ at = "handler"
    /\ \/ http.responses = 0 /\ http' = [http EXCEPT !.responses = 1, !.wrote = TRUE] /\ UNCHANGED <<err, at>>
       \/ ~http.aborted /\ http' = [http EXCEPT !.aborted = TRUE] /\ UNCHANGED <<err, at>>
       \/ err = <<>> /\ err' = cause /\ UNCHANGED <<at, http>>
       \/ at' = "exit" /\ UNCHANGED <<err, http>>
       \/ cause # <<>> /\ at' = "exit" /\ http' = [http EXCEPT !.panicked = TRUE] /\ UNCHANGED err
    /\ UNCHANGED cause

\* MWErrorHandler.Handle: its deferred function.
New500Error(code) == [status |-> 500, code |-> code]
Handle_AbortFirst ==
    /\ at = "exit"
    /\ at' = "answered"
    /\ IF http.aborted THEN UNCHANGED http
       ELSE IF http.panicked THEN sendErrRsp(New500Error(GetBizErrCode(cause)))
       ELSE IF err # <<>> THEN sendErrRsp(ToHttpErr(err)) ELSE UNCHANGED http
    /\ UNCHANGED <<err, cause>>
Handle ==
    /\ at = "exit"
    /\ at' = "answered"
    /\ IF http.panicked THEN sendErrRsp(New500Error(GetBizErrCode(cause)))
       ELSE IF ~http.aborted /\ err # <<>> THEN sendErrRsp(ToHttpErr(err)) ELSE UNCHANGED http
    /\ UNCHANGED <<err, cause>>

-----------------------------------------------------------------------------
ErrorInit ==
    /\ cause \in Errors
    /\ \E p \in BOOLEAN :
          http = [status |-> 200, responses |-> 0, aborted |-> FALSE, panicked |-> FALSE, wrote |-> FALSE,
                  code |-> OK, parse |-> p]
    /\ \/ at = "server" /\ err = cause
       \/ at = "handler" /\ err = <<>>

ErrorNext == serverIntercepts \/ clientIntercepts \/ streamReceives \/ callFails \/ handlerStep \/ Handle

ErrorSpec == ErrorInit /\ [][ErrorNext]_errorVars

-----------------------------------------------------------------------------
(* Properties *)

\* A code that is no key of codeRpcCodeMap travels as itself if it is in the range of the
\* wire, and is taken for another one if gRPC gives that number a meaning that the map knows.
Travels(code) ==
    \/ code \in DOMAIN codeRpcCodeMap
    \/ code \in 0 .. RpcCodes \div 2 - 1 /\ \A c \in DOMAIN codeRpcCodeMap : codeRpcCodeMap[c] # code

\* What the caller has as a BizError: a unary call's error as it comes, a stream's once the
\* caller has converted it itself.
CallersErr == IF at = "stream" THEN ToBizErr(err) ELSE err
Returned == at \in {"client", "stream"}

\* The code of a BizError is the same on both sides of a call, the codes of one's own
\* included, unless it is out of range or collides with a gRPC code.  (On a stream the
\* caller itself must convert the error: mw_error.go:54-55.)
CodeSurvives ==
    (Returned /\ Is(cause, "biz") /\ ~IsRpcErr(cause) /\ Travels(GetBizErrCode(cause))) =>
        GetBizErrCode(CallersErr) = GetBizErrCode(cause)

\* A call that failed fails for the client, unless its error says OK, as it does too if
\* what fits of its code is 0.
FailureArrives ==
    (Returned /\ cause # <<>> /\ GetBizErrCode(cause) % RpcCodes # OK) =>
        (err # <<>> /\ GetBizErrCode(CallersErr) # OK)

\* A panic, and an error recorded by a handler that did not abort, is answered: once if
\* the handler had not answered itself, with the status of the error if it has one, and
\* otherwise with a failure unless the code, OK or one of at least four digits that is to
\* be parsed, says another thing.
FailureAnswered ==
    at = "answered" =>
        /\ (http.panicked \/ (err # <<>> /\ ~http.aborted)) => http.responses = IF http.wrote THEN 2 ELSE 1
        /\ (http.responses = 1 /\ ~http.wrote) =>
              \/ http.status >= 400
              \/ IF Is(cause, "http") THEN http.status = cause[As(cause, "http")].status
                 ELSE GetBizErrCode(cause) = OK \/ (GetBizErrCode(cause) >= 1000 /\ http.parse)

\* The response to an error has a code by which the client can tell it: that of the http
\* error, or of the BizError, wherever it is among the layers, also if the handler has
\* panicked with it.  (Any other, a validation error's own code included, is Unknown.)
CodeAnswered ==
    (at = "answered" /\ (http.panicked \/ (err # <<>> /\ ~http.aborted))) =>
        CASE Is(cause, "http") /\ ~http.panicked -> http.code = cause[As(cause, "http")].code
          [] Is(cause, "biz") /\ (~Is(cause, "http") \/ http.panicked) -> http.code = cause[As(cause, "biz")].code
          [] OTHER -> http.code = Unknown

\* An error reaches the caller as an error.  Over gRPC it has the code it had, unless the
\* code is out of range or taken; the error of a stream comes as a status that the caller
\* has to convert.  Over HTTP it has the code that CodeAnswered says.
ErrorsArrive == ErrorTypeOK /\ CodeSurvives /\ FailureArrives /\ FailureAnswered /\ CodeAnswered

\* "InvalidAge1 ... 400, 400900" (test/http/http_test.go:234): the response to a validation
\* error has the number that the error carries as its code.
ValidationSample == {<<Layer("validation", 400900)>>, <<Layer("validation", Unknown)>>}
ValidationCodeAnswered ==
    (at = "answered" /\ ~http.panicked /\ ~http.aborted /\ err # <<>> /\ IsValidationErr(err)) =>
        http.code = err[1].code
=============================================================================
