---------------------------- MODULE GrpcRequest -----------------------------
(***************************************************************************)
(* pkg/api/grpcserver/interceptors.go: what the unary and the stream       *)
(* interceptor do around a handler, composed with the health bridge that   *)
(* health requests refresh (HealthBridge).                                 *)
(*                                                                         *)
(* A request is a goroutine of grpc-go.  Its context ends when the client  *)
(* leaves, when the unary timeout passes, or when the root context of the  *)
(* process is cancelled: context.AfterFunc starts a goroutine for that,    *)
(* which may run late.                                                     *)
(***************************************************************************)
EXTENDS HealthBridge, Sequences

CONSTANTS
    Unaries, Streams,   \* the requests, by kind
    HealthRequests,     \* those whose method is Check, List or Watch
    Identified,         \* those with one x-request-id, of the accepted characters
    Metadata,           \* the metadata a request may carry: sequences of fields
    MetadataLimit,      \* Config.MaxHeaderListBytes
    WordSize            \* the number of values of the integer type (2^64)

Requests == Unaries \cup Streams

Word  == 0..(WordSize - 1)
Field == [key : Word, value : Word]     \* a name and a value, by their lengths

ASSUME RequestAssumption ==
    /\ Unaries \cap Streams = {}
    /\ HealthRequests \subseteq Requests
    /\ HealthRequests \subseteq Callers
    /\ Identified \subseteq Requests
    /\ WordSize \in Nat /\ 32 \in Word
    /\ MetadataLimit \in 0..(WordSize - 2)
    /\ Metadata \subseteq Seq(Field)

VARIABLES
    root,       \* the root context is cancelled
    watchRoot,  \* the requests with a registered AfterFunc that has not started
    firing,     \* the requests whose AfterFunc goroutine has started
    rpc,        \* per request: program counter
    context,    \* per request: its context, "live" or the reason it ended
    fields,     \* per request: its metadata, once it has been read
    id,         \* per request: RequestID
    requestIDs, \* interceptorSet.requestIDs
    err,        \* per request: the error to return, by its code; "OK" is nil
    records,    \* per request: its log records, in order
    answer,     \* per request: the code grpc-go writes to the stream at last
    late,       \* history: the requests that arrived after the cancellation
    handled,    \* history: the requests whose handler has been called
    panicked,   \* history: the requests whose handler panicked
    overran     \* history: the requests whose context ended before the handler did

requestVars == <<root, watchRoot, firing, rpc, context, fields, id, requestIDs, err,
                 records, answer, late, handled, panicked, overran>>
callVars    == <<fields, id, requestIDs, late>>     \* what the request brought
rootVars    == <<root, watchRoot, firing>>
outVars     == <<records, answer>>
historyVars == <<handled, panicked, overran>>

-----------------------------------------------------------------------------
(* Metadata. *)

saturatingAdd(left, right) ==
    LET result == (left + right) % WordSize
    IN  IF result < left THEN WordSize - 1 ELSE result

fieldSizeBare(field) == saturatingAdd(field.key, field.value)   \* a faulty variant

fieldSize(field) == saturatingAdd(saturatingAdd(field.key, field.value), 32)

(* The sequence is the order in which a Go map happened to be visited. *)
metadataSize(m) ==
    LET size[i \in 0..Len(m)] ==
            IF i = 0 THEN 0 ELSE saturatingAdd(size[i - 1], fieldSize(m[i]))
    IN  size[Len(m)]

acceptedRequestID(r) == r \in Identified

(* The client's identifier if there is one acceptable, or the next number. *)
requestIDFromMetadata(r) ==
    IF acceptedRequestID(r)
    THEN id' = [id EXCEPT ![r] = "client"] /\ UNCHANGED requestIDs
    ELSE id' = [id EXCEPT ![r] = requestIDs + 1] /\ requestIDs' = requestIDs + 1

-----------------------------------------------------------------------------
(* The request context. *)

Ended(r) == context[r] # "live"

(* A context keeps the first reason it ended for. *)
EndContext(r, reason) ==
    context' = [context EXCEPT ![r] = IF @ = "live" THEN reason ELSE @]

(* A faulty variant: no AfterFunc, the root is only looked at once.          *)
ArriveUnregistered(r) ==
    /\ rpc[r] = "idle"
    /\ requestIDFromMetadata(r)
    /\ rpc' = [rpc EXCEPT ![r] = "root check"]
    /\ late' = IF root THEN late \cup {r} ELSE late
    /\ UNCHANGED <<healthVars, rootVars, context, fields, err, outVars, historyVars>>

(* grpc-go calls the interceptor: the identifier, the context derived from   *)
(* the incoming one, and its AfterFunc, registered or started at once.       *)
Arrive(r) ==
    /\ rpc[r] = "idle"
    /\ requestIDFromMetadata(r)
    /\ IF root THEN firing' = firing \cup {r} /\ UNCHANGED watchRoot
               ELSE watchRoot' = watchRoot \cup {r} /\ UNCHANGED firing
    /\ rpc' = [rpc EXCEPT ![r] = "root check"]
    /\ late' = IF root THEN late \cup {r} ELSE late
    /\ UNCHANGED <<healthVars, root, context, fields, err, outVars, historyVars>>

(* A faulty variant: the cancellation is left to the AfterFunc goroutine.    *)
CheckRootSkipped(r) ==
    /\ rpc[r] = "root check"
    /\ rpc' = [rpc EXCEPT ![r] = "header"]
    /\ UNCHANGED <<healthVars, rootVars, callVars, context, err, outVars, historyVars>>

(* root.Err(); the unary timer runs from here on. *)
CheckRoot(r) ==
    /\ rpc[r] = "root check"
    /\ IF root THEN EndContext(r, "Canceled") ELSE UNCHANGED context
    /\ rpc' = [rpc EXCEPT ![r] = "header"]
    /\ UNCHANGED <<healthVars, rootVars, callVars, err, outVars, historyVars>>

-----------------------------------------------------------------------------
(* The interceptor's own steps. *)

(* An early return with a status. *)
Reject(r, c) ==
    /\ err' = [err EXCEPT ![r] = c]
    /\ rpc' = [rpc EXCEPT ![r] = "deferred"]

(* SetHeader may fail; then the budget decides on the request's metadata.    *)
SetHeader(r) ==
    /\ rpc[r] = "header"
    /\ \/ /\ Reject(r, "Internal")
          /\ UNCHANGED fields
       \/ \E m \in Metadata :
             /\ fields' = [fields EXCEPT ![r] = m]
             /\ \/ /\ metadataSize(m) > MetadataLimit
                   /\ Reject(r, "ResourceExhausted")
                \/ /\ metadataSize(m) <= MetadataLimit
                   /\ rpc' = [rpc EXCEPT ![r] = IF r \in HealthRequests THEN "refresh"
                                                ELSE "context check"]
                   /\ UNCHANGED err
    /\ UNCHANGED <<healthVars, rootVars, id, requestIDs, late, context, outVars, historyVars>>

(* healthRefresher: the two halves of healthBridge.refresh. *)
InterceptorLoad(r) ==
    /\ rpc[r] = "refresh"
    /\ RefreshLoad(r)
    /\ rpc' = [rpc EXCEPT ![r] = "publish"]
    /\ UNCHANGED <<rootVars, callVars, context, err, outVars, historyVars>>

InterceptorPublish(r) ==
    /\ rpc[r] = "publish"
    /\ RefreshPublish(r)
    /\ rpc' = [rpc EXCEPT ![r] = "context check"]
    /\ UNCHANGED <<rootVars, callVars, context, err, outVars, historyVars>>

(* A faulty variant: the status is made of err, which is nil here. *)
CheckContextOfErr(r) ==
    /\ rpc[r] = "context check"
    /\ IF Ended(r)
       THEN Reject(r, err[r]) /\ UNCHANGED handled
       ELSE /\ rpc' = [rpc EXCEPT ![r] = "handler"]
            /\ handled' = handled \cup {r}
            /\ UNCHANGED err
    /\ UNCHANGED <<healthVars, rootVars, callVars, context, outVars, panicked, overran>>

CheckContext(r) ==
    /\ rpc[r] = "context check"
    /\ IF Ended(r)
       THEN Reject(r, context[r]) /\ UNCHANGED handled
       ELSE /\ rpc' = [rpc EXCEPT ![r] = "handler"]
            /\ handled' = handled \cup {r}
            /\ UNCHANGED err
    /\ UNCHANGED <<healthVars, rootVars, callVars, context, outVars, panicked, overran>>

(* The errors of package context, which carry no status of their own. *)
ContextErrors == {"context.Canceled", "context.DeadlineExceeded"}

(* External: the handler returns a response, an error of its own (for all of *)
(* which "Unknown" stands), the bare error of some context, or panics.       *)
(* A unary success has the context checked once more.                        *)
HandlerReturns(r) ==
    /\ rpc[r] = "handler"
    /\ \E e \in {"OK", "Unknown"} \cup ContextErrors :
           /\ err' = [err EXCEPT ![r] = e]
           /\ rpc' = [rpc EXCEPT ![r] = IF r \in Unaries /\ e = "OK" THEN "recheck"
                                        ELSE "deferred"]
    /\ overran' = IF Ended(r) THEN overran \cup {r} ELSE overran
    /\ UNCHANGED <<healthVars, rootVars, callVars, context, outVars, handled, panicked>>

HandlerPanics(r) ==
    /\ rpc[r] = "handler"
    /\ panicked' = panicked \cup {r}
    /\ rpc' = [rpc EXCEPT ![r] = "deferred"]
    /\ UNCHANGED <<healthVars, rootVars, callVars, context, err, outVars, handled, overran>>

RecheckSkipped(r) ==   \* a faulty variant: a late success is passed on
    /\ rpc[r] = "recheck"
    /\ rpc' = [rpc EXCEPT ![r] = "deferred"]
    /\ UNCHANGED <<healthVars, rootVars, callVars, context, err, outVars, historyVars>>

Recheck(r) ==
    /\ rpc[r] = "recheck"
    /\ err' = [err EXCEPT ![r] = IF Ended(r) THEN context[r] ELSE @]
    /\ rpc' = [rpc EXCEPT ![r] = "deferred"]
    /\ UNCHANGED <<healthVars, rootVars, callVars, context, outVars, historyVars>>

-----------------------------------------------------------------------------
(* The deferred functions: recover and log, then clean the contexts up. *)

(* External: status.Code, which knows no context errors. *)
StatusCode(e) == IF e \in ContextErrors THEN "Unknown" ELSE e

logPanic(r) == [event |-> "panic", id |-> id[r], code |-> "none"]

logCompletion(r, e) == [event |-> "completed", id |-> id[r], code |-> StatusCode(e)]

DeferredForgetsPanic(r) ==   \* a faulty variant: the code is read before the recovery
    /\ rpc[r] = "deferred"
    /\ err' = [err EXCEPT ![r] = IF r \in panicked THEN "Internal" ELSE @]
    /\ records' = [records EXCEPT ![r] =
                       @ \o (IF r \in panicked THEN <<logPanic(r)>> ELSE <<>>)
                         \o <<logCompletion(r, err[r])>>]
    /\ rpc' = [rpc EXCEPT ![r] = "cleanup"]
    /\ UNCHANGED <<healthVars, rootVars, callVars, context, answer, historyVars>>

Deferred(r) ==
    /\ rpc[r] = "deferred"
    /\ err' = [err EXCEPT ![r] = IF r \in panicked THEN "Internal" ELSE @]
    /\ records' = [records EXCEPT ![r] =
                       @ \o (IF r \in panicked THEN <<logPanic(r)>> ELSE <<>>)
                         \o <<logCompletion(r, err'[r])>>]
    /\ rpc' = [rpc EXCEPT ![r] = "cleanup"]
    /\ UNCHANGED <<healthVars, rootVars, callVars, context, answer, historyVars>>

CleanupLeaks(r) ==   \* a faulty variant: stopRoot is not called
    /\ rpc[r] = "cleanup"
    /\ EndContext(r, "Canceled")
    /\ rpc' = [rpc EXCEPT ![r] = "done"]
    /\ UNCHANGED <<healthVars, rootVars, callVars, err, outVars, historyVars>>

(* stopRoot removes the AfterFunc unless its goroutine has started. *)
Cleanup(r) ==
    /\ rpc[r] = "cleanup"
    /\ EndContext(r, "Canceled")
    /\ watchRoot' = watchRoot \ {r}
    /\ rpc' = [rpc EXCEPT ![r] = "done"]
    /\ UNCHANGED <<healthVars, root, firing, callVars, err, outVars, historyVars>>

(* External: what status.FromError and status.FromContextError, which        *)
(* grpc-go applies to an error without a status, make of err.                *)
FromError(e) ==
    CASE e = "context.Canceled"         -> "Canceled"
      [] e = "context.DeadlineExceeded" -> "DeadlineExceeded"
      [] OTHER                          -> e

(* External: grpc-go ends the stream with the interceptor's error, or, for a *)
(* unary response that is too large to send or cannot be encoded, with       *)
(* another one, which nothing logs.                                          *)
GrpcAnswers(r) ==
    /\ rpc[r] = "done" /\ answer[r] = "none"
    /\ \/ answer' = [answer EXCEPT ![r] = FromError(err[r])]
       \/ /\ r \in Unaries /\ err[r] = "OK"
          /\ \E c \in {"ResourceExhausted", "Internal"} : answer' = [answer EXCEPT ![r] = c]
    /\ UNCHANGED <<healthVars, rootVars, callVars, rpc, context, err, records, historyVars>>

-----------------------------------------------------------------------------
(* What ends a context. *)

(* The owner of the process cancels the root: every AfterFunc is started. *)
CancelRoot ==
    /\ ~root
    /\ root' = TRUE
    /\ firing' = firing \cup watchRoot
    /\ watchRoot' = {}
    /\ UNCHANGED <<healthVars, callVars, rpc, context, err, outVars, historyVars>>

(* The goroutine of context.AfterFunc calls cancelRoot. *)
AfterFuncRuns(r) ==
    /\ r \in firing
    /\ EndContext(r, "Canceled")
    /\ firing' = firing \ {r}
    /\ UNCHANGED <<healthVars, root, watchRoot, callVars, rpc, err, outVars, historyVars>>

TimerRuns == {"header", "refresh", "publish", "context check", "handler", "recheck", "deferred",
              "cleanup"}

(* context.WithTimeout of a unary request; streams have none. *)
TimeoutExpires(r) ==
    /\ r \in Unaries
    /\ rpc[r] \in TimerRuns
    /\ context[r] = "live"
    /\ EndContext(r, "DeadlineExceeded")
    /\ UNCHANGED <<healthVars, rootVars, callVars, rpc, err, outVars, historyVars>>

(* External: the client cancels, disconnects or reaches its own deadline. *)
ClientLeaves(r) ==
    /\ rpc[r] \notin {"idle", "done"}
    /\ context[r] = "live"
    /\ \E reason \in {"Canceled", "DeadlineExceeded"} : EndContext(r, reason)
    /\ UNCHANGED <<healthVars, rootVars, callVars, rpc, err, outVars, historyVars>>

-----------------------------------------------------------------------------

RequestInit ==
    /\ HealthInit
    /\ root = FALSE
    /\ watchRoot = {} /\ firing = {}
    /\ rpc = [r \in Requests |-> "idle"]
    /\ context = [r \in Requests |-> "live"]
    /\ fields = [r \in Requests |-> <<>>]
    /\ id = [r \in Requests |-> "unset"]
    /\ requestIDs = 0
    /\ err = [r \in Requests |-> "OK"]
    /\ records = [r \in Requests |-> <<>>]
    /\ answer = [r \in Requests |-> "none"]
    /\ late = {} /\ handled = {} /\ panicked = {} /\ overran = {}

(* What the interceptor does by itself, from its call to its return. *)
Interceptor(r) ==
    \/ CheckRoot(r) \/ SetHeader(r)
    \/ InterceptorLoad(r) \/ InterceptorPublish(r) \/ CheckContext(r)
    \/ Recheck(r) \/ Deferred(r) \/ Cleanup(r)

HandlerEnds(r) == HandlerReturns(r) \/ HandlerPanics(r)

(* The bridge moves by itself too.  Refreshes of other goroutines are the    *)
(* subject of HealthBridge and left out here.                                *)
BridgeMoves ==
    /\ \/ \E v \in Stored : Store(v)
       \/ HealthShutdown
    /\ UNCHANGED requestVars

RequestNext ==
    \/ BridgeMoves
    \/ CancelRoot
    \/ \E r \in Requests :
           \/ Arrive(r) \/ Interceptor(r) \/ HandlerEnds(r) \/ GrpcAnswers(r)
           \/ AfterFuncRuns(r) \/ TimeoutExpires(r) \/ ClientLeaves(r)

allVars == <<healthVars, requestVars>>

RequestSpec == RequestInit /\ [][RequestNext]_allVars

(* Goroutines that can run do run, timers fire, and a handler whose context  *)
(* has ended returns.  Nothing is assumed of other handlers, of clients or   *)
(* of the owner of the root context.                                         *)
RequestFairness ==
    \A r \in Requests :
        /\ WF_allVars(Interceptor(r))
        /\ WF_allVars(AfterFuncRuns(r))
        /\ WF_allVars(TimeoutExpires(r))
        /\ WF_allVars(Ended(r) /\ HandlerEnds(r))

FairRequestSpec == RequestSpec /\ RequestFairness

-----------------------------------------------------------------------------
(* Properties. *)

RequestPCs == {"idle", "root check", "header", "refresh", "publish",
               "context check", "handler", "recheck", "deferred", "cleanup", "done"}

Codes == {"OK", "Unknown", "Internal", "ResourceExhausted", "Canceled", "DeadlineExceeded"}

(* interceptors.go:36-43 and 45-69: the state of the interceptors and of the *)
(* requests in them keeps its types.                                         *)
RequestTypeOK ==
    /\ HealthTypeOK
    /\ root \in BOOLEAN
    /\ watchRoot \subseteq Requests /\ firing \subseteq Requests
    /\ rpc \in [Requests -> RequestPCs]
    /\ context \in [Requests -> {"live", "Canceled", "DeadlineExceeded"}]
    /\ fields \in [Requests -> Seq(Field)]
    /\ err \in [Requests -> Codes \cup ContextErrors]
    /\ answer \in [Requests -> {"none"} \cup Codes]
    /\ late \cup handled \cup panicked \cup overran \subseteq Requests

(* interceptors.go:176-179: a request that arrives after the root context    *)
(* was cancelled never reaches its handler, however late the AfterFunc       *)
(* goroutine runs.                                                           *)
DeadRootStopsRequests == late \cap handled = {}

SumOfFields(m) ==
    LET sum[i \in 0..Len(m)] == IF i = 0 THEN 0 ELSE sum[i - 1] + m[i].key + m[i].value + 32
    IN  sum[Len(m)]

(* interceptors.go:217-219, "Counting each repeated value prevents empty or   *)
(* repeated metadata from bypassing the application budget": no request whose *)
(* fields exceed the limit, counted without any word size, is handled or      *)
(* refreshes the health service.                                              *)
OverBudgetNeverHandled ==
    \A r \in Requests :
        r \in handled \/ rpc[r] \in {"refresh", "publish"} =>
            SumOfFields(fields[r]) <= MetadataLimit

(* interceptors.go:62-69 and 113-119: whatever the way out, a finished        *)
(* request has one completion record, with the status code of the error the   *)
(* interceptor returns to grpc-go (what its client is told may still differ); *)
(* a panic stays inside, is recorded before it and becomes Internal.          *)
OneCompletionPerRequest ==
    \A r \in Requests :
        rpc[r] = "done" =>
            /\ records[r] = (IF r \in panicked THEN <<logPanic(r)>> ELSE <<>>)
                                \o <<logCompletion(r, err[r])>>
            /\ r \in panicked => err[r] = "Internal"

(* interceptors.go:88-92: a unary handler that outlived its context never     *)
(* yields a success.                                                          *)
NoLateSuccess ==
    \A r \in overran \cap Unaries : rpc[r] \in {"cleanup", "done"} => err[r] # "OK"

(* interceptors.go:60-95 and 111-134: a client is told OK only of a request   *)
(* whose handler ran, within the metadata budget and on a live root, did not  *)
(* panic and, if unary, was in time; and its completion record says OK too.   *)
SuccessIsEarned ==
    \A r \in Requests :
        answer[r] = "OK" =>
            /\ r \in handled \ (panicked \cup late)
            /\ r \in Unaries => r \notin overran
            /\ SumOfFields(fields[r]) <= MetadataLimit
            /\ records[r] = <<logCompletion(r, "OK")>>

(* interceptors.go:182-194: a finished request leaves no live context and no  *)
(* callback registered with the root, which would live as long as the process.*)
NothingLeaks ==
    \A r \in Requests : rpc[r] = "done" => Ended(r) /\ r \notin watchRoot

(* interceptors.go:169-195: a unary request ends, and once the root context   *)
(* is cancelled every request ends, if only handlers heed their context.      *)
RequestsEnd ==
    \A r \in Requests :
        (rpc[r] # "idle" /\ (root \/ r \in Unaries)) ~> (rpc[r] = "done")
=============================================================================
