---------------------------- MODULE HttpRequest -----------------------------
(***************************************************************************)
(* pkg/api/httpserver/server.go: the middleware chain and the two probes,  *)
(* composed with the readiness tracker they read (HealthBridge) and the    *)
(* logger they write to (Logging).                                         *)
(*                                                                         *)
(* A request is a goroutine of fasthttp.  It goes down the chain request   *)
(* context, access log, recovery, body check, route, and up again with a   *)
(* response, an error or a panic.  What the gRPC side does with the same   *)
(* tracker is the subject of HealthBridge.                                 *)
(***************************************************************************)
EXTENDS HealthBridge, Logging, Integers

CONSTANTS
    Requests,     \* the requests: goroutines that log
    Identified,   \* those that carry an acceptable X-Request-ID
    Inputs,       \* what a request may ask for: route, method, and a body or none
    EngineErrors, \* the codes with which fasthttp refuses a request
    HandlerErrors \* the codes of the Fiber errors that handlers return

ASSUME HttpRequestAssumption ==
    /\ Requests \subseteq Goroutines
    /\ Identified \subseteq Requests
    /\ EngineErrors \subseteq 400..599
    /\ HandlerErrors \subseteq Int

(* A request line names a method. *)
ASSUME InputsAssumption == \A i \in Inputs : i.method # ""

VARIABLES
    at,          \* per request: where it is in the chain
    input,       \* per request: what it asks for
    id,          \* per request: its identifier, 0 for the client's own
    requestIDs,  \* the sequence of generated identifiers
    err,         \* per request: the error on its way up, or NoError
    response,    \* per request: status and body, as far as they are set
    contexts,    \* the requests whose context has not been released
    panicked,    \* the requests that panicked, until recovered and as history
    broken,      \* history: those whose error response could not be encoded
    seen         \* history, per request: the tracker's words while it was served

chainVars    == <<at, input, id, requestIDs, err, response, contexts, panicked, broken>>
pipelineVars == <<chainVars, seen>>

(* An error is nil, Fiber's with a code, or any other, which has none. *)
NoError       == [kind |-> "nil", code |-> 0]
OtherError    == [kind |-> "other", code |-> 0]
FiberError(c) == [kind |-> "fiber", code |-> c]
Errors        == [kind : {"nil", "other", "fiber"}, code : Int]

livezPath  == "/livez"
readyzPath == "/readyz"

-----------------------------------------------------------------------------
(* Errors. *)

(* A faulty variant: the code of a Fiber error is taken as it is. *)
errorStatusUnchecked(e) == IF e.kind = "fiber" THEN e.code ELSE 500

errorStatus(e) == IF e.kind = "fiber" /\ e.code \in 400..599 THEN e.code ELSE 500

errorCode(s) ==
    CASE s = 400 -> "invalid_request"
      [] s = 404 -> "not_found"
      [] s = 405 -> "method_not_allowed"
      [] s = 408 -> "request_timeout"
      [] s = 413 -> "request_too_large"
      [] s = 431 -> "request_headers_too_large"
      [] s = 503 -> "service_unavailable"
      [] OTHER   -> "internal_error"

stableError(e) == [status |-> errorStatus(e), body |-> errorCode(errorStatus(e))]

(* ctx.Status sets the status at once; when the JSON encoder fails, the body *)
(* is left as it was.                                                        *)
Unencoded(r, answer) == [status |-> answer.status, body |-> response[r].body]

(* External: Fiber's last resort when its ErrorHandler fails writes the      *)
(* text of the status only where there is no body.                           *)
SendStatus500(r) ==
    [status |-> 500,
     body   |-> IF response[r].body = "" THEN "Internal Server Error" ELSE response[r].body]

(* Fiber calls ErrorHandler, which is stableErrorHandler. *)
FiberAnswers(r, e) ==
    \E answer \in {stableError(e), SendStatus500(r)} :
        response' = [response EXCEPT ![r] = answer]

-----------------------------------------------------------------------------
(* Down the chain. *)

(* External: fasthttp refuses a request that is malformed, too large, too    *)
(* slow or not a GET or HEAD, before any middleware.                         *)
EngineRejects(r) ==
    /\ at[r] = "idle"
    /\ \E c \in EngineErrors : FiberAnswers(r, FiberError(c))
    /\ at' = [at EXCEPT ![r] = "done"]
    /\ UNCHANGED <<healthVars, logVars, input, id, requestIDs, err, contexts, panicked,
                   broken, seen>>

(* Whether the client's own identifier is short and plain enough to be kept. *)
acceptedRequestID(r) == r \in Identified

requestContextMiddleware(r) ==
    /\ at[r] = "idle"
    /\ \E i \in Inputs : input' = [input EXCEPT ![r] = i]
    /\ requestIDs' = IF acceptedRequestID(r) THEN requestIDs ELSE requestIDs + 1
    /\ id' = [id EXCEPT ![r] = IF acceptedRequestID(r) THEN 0 ELSE requestIDs']
    /\ contexts' = contexts \cup {r}
    /\ seen' = [seen EXCEPT ![r] = {tracker}]
    /\ at' = [at EXCEPT ![r] = "probe"]
    /\ UNCHANGED <<healthVars, logVars, err, response, panicked, broken>>

(* A handler's return: its error, and what it set of the response. *)
HandlerReturns(r, e, answer) ==
    /\ err' = [err EXCEPT ![r] = e]
    /\ response' = [response EXCEPT ![r] = answer]
    /\ at' = [at EXCEPT ![r] = "access"]
    /\ UNCHANGED <<healthVars, logVars, input, id, requestIDs, contexts, panicked, broken, seen>>

JSON(r, answer) ==
    \/ HandlerReturns(r, NoError, answer)
    \/ HandlerReturns(r, OtherError, Unencoded(r, answer))

rejectProbeBodyMiddleware(r) ==
    /\ at[r] = "probe"
    /\ input[r].body
    /\ HandlerReturns(r, FiberError(400), response[r])

(* External: Fiber's router, when no GET route takes the request. *)
NoRoute(r) ==
    /\ at[r] = "probe"
    /\ ~input[r].body
    /\ \/ input[r].route \notin {livezPath, readyzPath} /\ HandlerReturns(r, FiberError(404), response[r])
       \/ /\ input[r].route \in {livezPath, readyzPath}
          /\ input[r].method # "GET"
          /\ HandlerReturns(r, FiberError(405), response[r])

Routed(r, path) ==
    at[r] = "probe" /\ ~input[r].body /\ input[r].method = "GET" /\ input[r].route = path

liveHandler(r) ==
    /\ Routed(r, livezPath)
    /\ JSON(r, [status |-> 200, body |-> "live"])

Probe(readiness) ==
    IF readiness.Ready THEN [status |-> 200, body |-> "ready"]
                       ELSE [status |-> 503, body |-> readiness.Reason]

(* A faulty variant: the snapshot is taken once, when the handler is made. *)
readyHandlerCaches(r) ==
    /\ Routed(r, readyzPath)
    /\ JSON(r, Probe([Ready |-> FALSE, Reason |-> ReasonRuntimeUnavailable]))

readyHandler(r) ==
    /\ Routed(r, readyzPath)
    /\ JSON(r, Probe(Snapshot))

(* External: what a handler may have set of the response before it fails.    *)
LeftBehind(r) == {response[r], [status |-> 200, body |-> "live"]}

(* External: a handler panics or returns an error, which may be Fiber's with *)
(* any code; the middlewares above it are written for every handler.         *)
HandlerPanics(r) ==
    /\ Routed(r, livezPath) \/ Routed(r, readyzPath)
    /\ panicked' = panicked \cup {r}
    /\ \E answer \in LeftBehind(r) : response' = [response EXCEPT ![r] = answer]
    /\ at' = [at EXCEPT ![r] = "recover"]
    /\ UNCHANGED <<healthVars, logVars, input, id, requestIDs, err, contexts, broken, seen>>

HandlerFails(r) ==
    /\ Routed(r, livezPath) \/ Routed(r, readyzPath)
    /\ \E e \in {OtherError} \cup {FiberError(c) : c \in HandlerErrors}, answer \in LeftBehind(r) :
           HandlerReturns(r, e, answer)

-----------------------------------------------------------------------------
(* Up the chain. *)

Record(r, what, s) == [event |-> what, id |-> id[r], status |-> s]

recoverMiddlewareSwallows(r) ==   \* a faulty variant: the panic is logged and no error set
    /\ at[r] = "recover"
    /\ Begin(r, "error", Record(r, "http_request_panicked", 0))
    /\ at' = [at EXCEPT ![r] = IF Enabled("error") THEN "panic log" ELSE "access"]
    /\ UNCHANGED <<healthVars, input, id, requestIDs, err, response, contexts, panicked, broken,
                   seen>>

recoverMiddleware(r) ==
    /\ at[r] = "recover"
    /\ Begin(r, "error", Record(r, "http_request_panicked", 0))
    /\ err' = [err EXCEPT ![r] = FiberError(500)]
    /\ at' = [at EXCEPT ![r] = IF Enabled("error") THEN "panic log" ELSE "access"]
    /\ UNCHANGED <<healthVars, input, id, requestIDs, response, contexts, panicked, broken, seen>>

AccessLogged(r, answer) ==
    /\ response' = [response EXCEPT ![r] = answer]
    /\ Begin(r, "info", Record(r, "http_request_completed", answer.status))
    /\ err' = [err EXCEPT ![r] = NoError]
    /\ at' = [at EXCEPT ![r] = IF Enabled("info") THEN "access log" ELSE "return"]
    /\ UNCHANGED broken

(* A faulty variant: the error is logged and left to Fiber. *)
accessLogMiddlewarePassesOn(r) ==
    /\ at[r] = "access"
    /\ Begin(r, "info", Record(r, "http_request_completed", response[r].status))
    /\ at' = [at EXCEPT ![r] = IF Enabled("info") THEN "access log" ELSE "return"]
    /\ UNCHANGED <<healthVars, input, id, requestIDs, err, response, contexts, panicked, broken,
                   seen>>

(* An error becomes the response before the record is written; if it cannot  *)
(* be encoded there is no record.                                            *)
accessLogMiddleware(r) ==
    /\ at[r] = "access"
    /\ \/ err[r] = NoError /\ AccessLogged(r, response[r])
       \/ err[r] # NoError /\ AccessLogged(r, stableError(err[r]))
       \/ /\ err[r] # NoError
          /\ response' = [response EXCEPT ![r] = Unencoded(r, stableError(err[r]))]
          /\ err' = [err EXCEPT ![r] = OtherError]
          /\ broken' = broken \cup {r}
          /\ at' = [at EXCEPT ![r] = "return"]
          /\ UNCHANGED logVars
    /\ UNCHANGED <<healthVars, input, id, requestIDs, contexts, panicked, seen>>

(* Msg, in either middleware: the number, then the line. *)
Msg(r) ==
    /\ at[r] \in {"panic log", "access log"}
    /\ \/ Run(r) /\ UNCHANGED at
       \/ /\ Write(r)
          /\ at' = [at EXCEPT ![r] = IF @ = "panic log" THEN "access" ELSE "return"]
    /\ UNCHANGED <<healthVars, input, id, requestIDs, err, response, contexts, panicked,
                   broken, seen>>

ReturnLeaks(r) ==   \* a faulty variant: cancel is not called when an error comes up
    /\ at[r] = "return"
    /\ IF err[r] = NoError
       THEN contexts' = contexts \ {r} /\ UNCHANGED response
       ELSE FiberAnswers(r, err[r]) /\ UNCHANGED contexts
    /\ at' = [at EXCEPT ![r] = "done"]
    /\ UNCHANGED <<healthVars, logVars, input, id, requestIDs, err, panicked, broken, seen>>

(* The deferred cancel of requestContextMiddleware; an error that comes this *)
(* far goes to Fiber.                                                        *)
Return(r) ==
    /\ at[r] = "return"
    /\ contexts' = contexts \ {r}
    /\ IF err[r] = NoError THEN UNCHANGED response ELSE FiberAnswers(r, err[r])
    /\ at' = [at EXCEPT ![r] = "done"]
    /\ UNCHANGED <<healthVars, logVars, input, id, requestIDs, err, panicked, broken, seen>>

-----------------------------------------------------------------------------
(* Around the requests. *)

(* The runtime owner stores a readiness value. *)
OwnerStores ==
    /\ \E v \in Stored : Store(v)
    /\ seen' = [r \in Requests |->
                   IF at[r] \in {"idle", "done"} THEN seen[r] ELSE seen[r] \cup {tracker'}]
    /\ UNCHANGED <<logVars, chainVars>>

PipelineInit ==
    /\ HealthInit
    /\ LogInit
    /\ at = [r \in Requests |-> "idle"]
    /\ input = [r \in Requests |-> [route |-> "", method |-> "", body |-> FALSE]]
    /\ id = [r \in Requests |-> 0]
    /\ requestIDs = 0
    /\ err = [r \in Requests |-> NoError]
    /\ response = [r \in Requests |-> [status |-> 200, body |-> ""]]
    /\ contexts = {} /\ panicked = {} /\ broken = {}
    /\ seen = [r \in Requests |-> {}]

(* What a request does by itself once it is in the chain. *)
Chain(r) ==
    \/ rejectProbeBodyMiddleware(r) \/ NoRoute(r) \/ liveHandler(r) \/ readyHandler(r)
    \/ HandlerPanics(r) \/ HandlerFails(r) \/ recoverMiddleware(r) \/ accessLogMiddleware(r)
    \/ Msg(r) \/ Return(r)

PipelineNext ==
    \/ OwnerStores
    \/ \E r \in Requests :
           \/ EngineRejects(r) \/ requestContextMiddleware(r) \/ Chain(r)

allVars == <<healthVars, logVars, pipelineVars>>

PipelineSpec == PipelineInit /\ [][PipelineNext]_allVars

(* A goroutine in the chain runs on, and the log writer returns.             *)
FairPipelineSpec == PipelineSpec /\ \A r \in Requests : WF_allVars(Chain(r))

-----------------------------------------------------------------------------
(* Properties. *)

ErrorCodes == {"invalid_request", "not_found", "method_not_allowed", "request_timeout",
               "request_too_large", "request_headers_too_large", "service_unavailable",
               "internal_error"}
Bodies == {"", "live", "ready", "Internal Server Error"} \cup Reasons \cup ErrorCodes

HttpEvents == {"http_request_panicked", "http_request_completed"}

Locations == {"idle", "probe", "recover", "panic log", "access", "access log", "return", "done"}

(* server.go:353-374 and 451-462: the state of the chain keeps its types, and *)
(* no error, Fiber's with any code or another, gives a status outside         *)
(* 400..599.                                                                  *)
PipelineTypeOK ==
    /\ HealthTypeOK
    /\ LogTypeOK
    /\ at \in [Requests -> Locations]
    /\ id \in [Requests -> Nat] /\ requestIDs \in Nat
    /\ err \in [Requests -> Errors]
    /\ response \in [Requests -> [status : {200} \cup 400..599, body : Bodies]]
    /\ contexts \cup panicked \cup broken \subseteq Requests
    /\ seen \in [Requests -> SUBSET StateCodes]

(* server.go:422-433: what /readyz says was true of the tracker at some      *)
(* moment while the request was being served, reason included.               *)
ProbeIsCurrent ==
    \A r \in Requests :
        /\ response[r].body = "ready" => stateReady \in seen[r]
        /\ response[r].body \in Reasons =>
              encode([Ready |-> FALSE, Reason |-> response[r].body]) \in seen[r]

StableResponses ==
    {[status |-> 200, body |-> b] : b \in {"live", "ready"}}
        \cup {[status |-> 503, body |-> reason] : reason \in Reasons}
        \cup {stableError(FiberError(c)) : c \in 400..599}
        \cup {[status |-> 500, body |-> "Internal Server Error"]}

(* server.go:376-416 and 451-483: every answer is a probe's or a stable       *)
(* error, whole, and a panic answers 500.  Of a response that a failing       *)
(* handler had set nothing is left, unless no error response could be         *)
(* encoded: then its body may be, under the status 500.                       *)
StableResponse ==
    \A r \in Requests :
        at[r] = "done" => /\ \/ response[r] \in StableResponses
                             \/ r \in broken /\ response[r].status = 500
                          /\ r \in panicked => response[r].status = 500

(* In the lines written, those of request r hold the records s, in that order. *)
Logged(written, r, s) ==
    \E place \in [DOMAIN s -> DOMAIN written] :
        /\ \A j, k \in DOMAIN s : j < k => place[j] < place[k]
        /\ \A k \in DOMAIN s : written[place[k]].record = s[k]
        /\ \A i \in DOMAIN written : written[i].by = r <=> \E k \in DOMAIN s : place[k] = i

Expected(r) ==
    (IF r \in panicked /\ Enabled("error") THEN <<Record(r, "http_request_panicked", 0)>> ELSE <<>>)
        \o (IF Enabled("info") /\ r \notin broken
            THEN <<Record(r, "http_request_completed", response[r].status)>> ELSE <<>>)

(* server.go:376-416: when nothing was lost by the writer, a request that     *)
(* went through the chain has left its panic record and then one completion   *)
(* record, which names the status the client was sent and its identifier.  A  *)
(* request whose error response could not be encoded has no completion record.*)
RecordsTellResponse ==
    \A r \in Requests :
        at[r] = "done" /\ input[r] \in Inputs /\ lost = {} => Logged(lines, r, Expected(r))

(* server.go:365-372: every request that enters the chain leaves it, and its  *)
(* context does not outlive it.                                               *)
RequestsAnswered ==
    \A r \in Requests : at[r] = "probe" ~> (at[r] = "done" /\ r \notin contexts)
=============================================================================
