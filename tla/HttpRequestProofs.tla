-------------------------- MODULE HttpRequestProofs -------------------------
(***************************************************************************)
(* The HTTP chain, proved for any number of requests.  Every step is, for  *)
(* the tracker, a step of HealthBridge and, for the logger, a step of      *)
(* Logging, so what is proved of those holds in the chain.                 *)
(***************************************************************************)
EXTENDS HttpRequest, HealthBridgeProofs, LoggingProofs

(* The records of the chain are among those the logger is used for. *)
HttpRecords == [event : HttpEvents, id : Nat, status : Nat]

AllStatuses  == {200} \cup 400..599
ResponseType == [status : AllStatuses, body : Bodies]

ChainTypeOK ==
    /\ at \in [Requests -> Locations]
    /\ id \in [Requests -> Nat] /\ requestIDs \in Nat
    /\ err \in [Requests -> Errors]
    /\ response \in [Requests -> ResponseType]
    /\ contexts \cup panicked \cup broken \subseteq Requests
    /\ seen \in [Requests -> SUBSET StateCodes]

-----------------------------------------------------------------------------
(* The answers. *)

LEMMA ErrorTypes ==
    /\ NoError \in Errors /\ OtherError \in Errors /\ NoError # OtherError
    /\ \A c \in Int : /\ FiberError(c) \in Errors
                       /\ FiberError(c) # NoError /\ FiberError(c) # OtherError
                       /\ FiberError(c).kind = "fiber" /\ FiberError(c).code = c
BY DEF NoError, OtherError, FiberError, Errors

(* server.go:456-483: every error has a status of its own class and a code.  *)
LEMMA ErrorFacts ==
    ASSUME NEW e \in Errors
    PROVE  /\ errorStatus(e) \in 400..599
           /\ e \in {OtherError, FiberError(500)} => errorStatus(e) = 500
           /\ errorStatus(FiberError(errorStatus(e))) = errorStatus(e)
           /\ errorCode(errorStatus(e)) \in ErrorCodes
<1>1. errorStatus(e) \in 400..599
    BY DEF errorStatus
<1>2. e \in {OtherError, FiberError(500)} => errorStatus(e) = 500
    BY DEF errorStatus, OtherError, FiberError
<1> DEFINE s == errorStatus(e)
<1>3. errorStatus(FiberError(s)) = s
    <2>1. s \in 400..599
        BY <1>1
    <2> HIDE DEF s
    <2>2. FiberError(s).kind = "fiber" /\ FiberError(s).code = s
        BY <2>1, ErrorTypes
    <2> QED
        BY <2>1, <2>2 DEF errorStatus
<1>4. errorCode(s) \in ErrorCodes
    BY DEF errorCode, ErrorCodes
<1> QED
    BY <1>1, <1>2, <1>3, <1>4

LEMMA Answers ==
    ASSUME NEW a, NEW s \in AllStatuses, NEW b \in Bodies, a = [status |-> s, body |-> b]
    PROVE  a \in ResponseType /\ a.status = s /\ a.body = b
BY DEF ResponseType

LEMMA StableErrorType ==
    ASSUME NEW e \in Errors
    PROVE  /\ stableError(e) \in ResponseType
           /\ stableError(e).body \in ErrorCodes
           /\ stableError(e).status = errorStatus(e)
<1> DEFINE s == errorStatus(e)
           c == errorCode(errorStatus(e))
<1>1. s \in 400..599 /\ c \in ErrorCodes
    BY ErrorFacts
<1>2. stableError(e) = [status |-> s, body |-> c]
    BY DEF stableError
<1>3. s \in AllStatuses /\ c \in Bodies
    BY <1>1 DEF AllStatuses, Bodies
<1> HIDE DEF s, c
<1>4. /\ stableError(e) \in ResponseType
      /\ stableError(e).body = c
      /\ stableError(e).status = s
    BY <1>2, <1>3, Answers
<1> QED
    BY <1>1, <1>4 DEF s

Refusal(reason) == [status |-> 503, body |-> reason]

LEMMA StableKinds ==
    /\ [status |-> 200, body |-> "live"] \in StableResponses
    /\ [status |-> 200, body |-> "ready"] \in StableResponses
    /\ \A reason \in Reasons : Refusal(reason) \in StableResponses
    /\ \A c \in 400..599 : stableError(FiberError(c)) \in StableResponses
    /\ [status |-> 500, body |-> "Internal Server Error"] \in StableResponses
<1> DEFINE Probes == {[status |-> 200, body |-> b] : b \in {"live", "ready"}}
           Refusals == {Refusal(reason) : reason \in Reasons}
           Stable == {stableError(FiberError(c)) : c \in 400..599}
           Last == {[status |-> 500, body |-> "Internal Server Error"]}
<1>1. \A b \in {"live", "ready"} : [status |-> 200, body |-> b] \in Probes
    OBVIOUS
<1>2. \A reason \in Reasons : Refusal(reason) \in Refusals
    OBVIOUS
<1>3. \A c \in 400..599 : stableError(FiberError(c)) \in Stable
    OBVIOUS
<1>4. [status |-> 500, body |-> "Internal Server Error"] \in Last
    OBVIOUS
<1>5. StableResponses = Probes \cup Refusals \cup Stable \cup Last
    BY DEF StableResponses, Refusal
<1> HIDE DEF Probes, Refusals, Stable, Last
<1> QED
    <2>1. [status |-> 200, body |-> "live"] \in Probes
        BY <1>1
    <2>2. [status |-> 200, body |-> "ready"] \in Probes
        BY <1>1
    <2>3. /\ Probes \subseteq StableResponses /\ Refusals \subseteq StableResponses
          /\ Stable \subseteq StableResponses /\ Last \subseteq StableResponses
        BY <1>5
    <2>4. \A reason \in Reasons : Refusal(reason) \in StableResponses
        BY <1>2, <2>3
    <2>5. \A c \in 400..599 : stableError(FiberError(c)) \in StableResponses
        BY <1>3, <2>3
    <2>6. [status |-> 200, body |-> "live"] \in StableResponses
        BY <2>1, <2>3
    <2>7. [status |-> 200, body |-> "ready"] \in StableResponses
        BY <2>2, <2>3
    <2>8. [status |-> 500, body |-> "Internal Server Error"] \in StableResponses
        BY <1>4, <2>3
    <2> QED
        BY <2>4, <2>5, <2>6, <2>7, <2>8, Zenon

(* Fiber's last resort, with and without a body set before. *)
LEMMA LastResort ==
    ASSUME NEW r, response[r].body \in Bodies
    PROVE  /\ SendStatus500(r) \in ResponseType
           /\ SendStatus500(r).status = 500
           /\ SendStatus500(r).body \in {response[r].body, "Internal Server Error"}
           /\ response[r].body = "" => SendStatus500(r).body = "Internal Server Error"
           /\ response[r].body = "" => SendStatus500(r) \in StableResponses
<1> DEFINE s == 500
           b == IF response[r].body = "" THEN "Internal Server Error" ELSE response[r].body
<1>1. /\ SendStatus500(r) = [status |-> s, body |-> b]
      /\ b \in {response[r].body, "Internal Server Error"}
      /\ response[r].body = "" => b = "Internal Server Error"
    BY DEF SendStatus500
<1>2. s \in AllStatuses /\ b \in Bodies
    <2>1. "Internal Server Error" \in Bodies
        BY DEF Bodies
    <2>2. s \in AllStatuses
        BY DEF AllStatuses
    <2> QED
        BY <1>1, <2>1, <2>2
<1> HIDE DEF s, b
<1>3. /\ SendStatus500(r) \in ResponseType
      /\ SendStatus500(r).status = s
      /\ SendStatus500(r).body = b
    BY <1>1, <1>2, Answers
<1>4. response[r].body = "" => SendStatus500(r) \in StableResponses
    <2>1. [status |-> 500, body |-> "Internal Server Error"] \in StableResponses
        BY StableKinds, Zenon
    <2> QED
        BY <1>1, <2>1 DEF s
<1> QED
    BY <1>1, <1>3, <1>4 DEF s

LEMMA BodyTyped ==
    ASSUME ChainTypeOK, NEW r \in Requests
    PROVE  response[r].body \in Bodies
BY DEF ChainTypeOK, ResponseType

(* What the encoder leaves of an answer it fails on. *)
LEMMA KeptBody ==
    ASSUME ChainTypeOK, NEW r \in Requests, NEW answer \in ResponseType
    PROVE  /\ Unencoded(r, answer) \in ResponseType
           /\ Unencoded(r, answer).body = response[r].body
<1>1. response[r].body \in Bodies /\ answer.status \in AllStatuses
    BY DEF ChainTypeOK, ResponseType
<1> QED
    BY <1>1, Answers DEF Unencoded

LEMMA FixedAnswers ==
    /\ [status |-> 200, body |-> ""] \in ResponseType
    /\ [status |-> 200, body |-> "live"] \in ResponseType
    /\ [status |-> 200, body |-> "ready"] \in ResponseType
    /\ \A reason \in Reasons : [status |-> 503, body |-> reason] \in ResponseType
<1>1. 200 \in AllStatuses /\ 503 \in AllStatuses
    BY DEF AllStatuses
<1>2. "" \in Bodies /\ "live" \in Bodies /\ "ready" \in Bodies
    BY DEF Bodies
<1>3. \A reason \in Reasons : reason \in Bodies
    BY DEF Bodies
<1>4. [status |-> 200, body |-> ""] \in ResponseType
    BY <1>1, <1>2 DEF ResponseType
<1>5. [status |-> 200, body |-> "live"] \in ResponseType
    BY <1>1, <1>2 DEF ResponseType
<1>6. [status |-> 200, body |-> "ready"] \in ResponseType
    BY <1>1, <1>2 DEF ResponseType
<1>7. \A reason \in Reasons : [status |-> 503, body |-> reason] \in ResponseType
    BY <1>1, <1>3 DEF ResponseType
<1> QED
    BY <1>4, <1>5, <1>6, <1>7

(* What Fiber's error path may leave in the response. *)
LEMMA FiberAnswer ==
    ASSUME NEW e \in Errors, NEW r \in Requests, ChainTypeOK, FiberAnswers(r, e)
    PROVE  /\ response' \in [Requests -> ResponseType]
           /\ response'[r] \in {stableError(e), SendStatus500(r)}
           /\ \A q \in Requests : q # r => response'[q] = response[q]
<1>0. SendStatus500(r) \in ResponseType
    BY BodyTyped, LastResort
<1>1. stableError(e) \in ResponseType /\ SendStatus500(r) \in ResponseType
    BY <1>0, StableErrorType
<1>2. PICK answer \in {stableError(e), SendStatus500(r)} :
          response' = [response EXCEPT ![r] = answer]
    BY DEF FiberAnswers
<1> QED
    BY <1>1, <1>2 DEF ChainTypeOK

(* readiness.go:88-103 and server.go:425-431: the probe of any code, whose   *)
(* reason encodes to the code again.                                         *)
LEMMA ProbeFacts ==
    ASSUME HealthTypeOK
    PROVE  /\ Probe(Snapshot) \in ResponseType
           /\ \/ Probe(Snapshot) = [status |-> 200, body |-> "ready"] /\ tracker = stateReady
              \/ \E reason \in Reasons :
                     /\ Probe(Snapshot) = [status |-> 503, body |-> reason]
                     /\ encode([Ready |-> FALSE, Reason |-> reason]) = tracker
<1>1. CASE tracker = stateReady
    <2>1. Probe(Snapshot) = [status |-> 200, body |-> "ready"]
        BY <1>1, DecodeTable DEF Snapshot, Probe
    <2> QED
        BY <1>1, <2>1, FixedAnswers
<1>2. ASSUME NEW reason \in Reasons, decode(tracker) = [Ready |-> FALSE, Reason |-> reason],
             encode([Ready |-> FALSE, Reason |-> reason]) = tracker
      PROVE  /\ Probe(Snapshot) \in ResponseType
             /\ Probe(Snapshot) = [status |-> 503, body |-> reason]
    <2>1. Probe(Snapshot) = [status |-> 503, body |-> reason]
        BY <1>2 DEF Snapshot, Probe
    <2>2. reason \in Bodies
        BY DEF Bodies
    <2>3. 503 \in AllStatuses
        BY DEF AllStatuses
    <2> QED
        BY <2>1, <2>2, <2>3 DEF ResponseType
<1>3. CASE tracker # stateReady
    <2>1. PICK reason \in Reasons : /\ decode(tracker) = [Ready |-> FALSE, Reason |-> reason]
                                    /\ encode([Ready |-> FALSE, Reason |-> reason]) = tracker
        <3>1. tracker \in {stateUnavailable, stateRuntimeUnavailable, stateRecovering,
                           stateDraining, stateFailed}
            BY <1>3 DEF HealthTypeOK, StateCodes, stateUnavailable, stateRuntimeUnavailable,
               stateRecovering, stateDraining, stateFailed, stateReady
        <3>2. \A reason \in Reasons :
                  LET v == [Ready |-> FALSE, Reason |-> reason]
                  IN  encode(v) = CASE reason = ReasonRuntimeUnavailable -> stateRuntimeUnavailable
                                    [] reason = ReasonRecovering -> stateRecovering
                                    [] reason = ReasonDraining -> stateDraining
                                    [] reason = ReasonFailed -> stateFailed
                                    [] OTHER -> stateUnavailable
            BY DEF encode
        <3> QED
            BY <3>1, <3>2, DecodeTable DEF Reasons, ReasonUnavailable, ReasonRuntimeUnavailable,
               ReasonRecovering, ReasonDraining, ReasonFailed
    <2> QED
        BY <1>2, <2>1
<1> QED
    BY <1>1, <1>3

-----------------------------------------------------------------------------
(* Types. *)

LEMMA HandlerType ==
    ASSUME ChainTypeOK, NEW r \in Requests, NEW e \in Errors, NEW answer \in ResponseType,
           HandlerReturns(r, e, answer)
    PROVE  ChainTypeOK'
BY DEF ChainTypeOK, HandlerReturns, Locations

LEMMA JSONType ==
    ASSUME ChainTypeOK, NEW r \in Requests, NEW answer \in ResponseType, JSON(r, answer)
    PROVE  ChainTypeOK'
<1>1. Unencoded(r, answer) \in ResponseType
    BY KeptBody
<1>2. NoError \in Errors /\ OtherError \in Errors
    BY ErrorTypes
<1> QED
    BY <1>1, <1>2, HandlerType DEF JSON

LEMMA ChainTypeStep == ChainTypeOK /\ HealthTypeOK /\ HealthTypeOK' /\ PipelineNext => ChainTypeOK'
<1> SUFFICES ASSUME ChainTypeOK, HealthTypeOK, HealthTypeOK', PipelineNext PROVE ChainTypeOK'
    OBVIOUS
<1>0. tracker \in StateCodes /\ tracker' \in StateCodes
    BY DEF HealthTypeOK
<1>1. CASE OwnerStores
    BY <1>0, <1>1 DEF OwnerStores, ChainTypeOK, chainVars
<1>2. ASSUME NEW r \in Requests, EngineRejects(r) PROVE ChainTypeOK'
    <2>1. PICK c \in EngineErrors : FiberAnswers(r, FiberError(c))
        BY <1>2 DEF EngineRejects
    <2>2. c \in Int
        BY HttpRequestAssumption
    <2>3. response' \in [Requests -> ResponseType]
        BY <2>1, <2>2, ErrorTypes, FiberAnswer
    <2> QED
        BY <1>2, <2>3 DEF EngineRejects, ChainTypeOK, Locations
<1>3. ASSUME NEW r \in Requests, requestContextMiddleware(r) PROVE ChainTypeOK'
    <2>1. requestIDs' \in Nat /\ id' \in [Requests -> Nat]
        BY <1>3 DEF requestContextMiddleware, ChainTypeOK
    <2>2. {tracker} \subseteq StateCodes /\ "probe" \in Locations
        BY <1>0 DEF Locations
    <2>3. seen' \in [Requests -> SUBSET StateCodes] /\ at' \in [Requests -> Locations]
        BY <1>3, <2>2 DEF requestContextMiddleware, ChainTypeOK
    <2> QED
        BY <1>3, <2>1, <2>3 DEF requestContextMiddleware, ChainTypeOK
<1>4. ASSUME NEW r \in Requests, rejectProbeBodyMiddleware(r) \/ NoRoute(r) PROVE ChainTypeOK'
    <2>1. response[r] \in ResponseType
        BY DEF ChainTypeOK
    <2>2. \A c \in {400, 404, 405} : FiberError(c) \in Errors
        BY ErrorTypes
    <2> QED
        BY <1>4, <2>1, <2>2, HandlerType DEF rejectProbeBodyMiddleware, NoRoute
<1>5. ASSUME NEW r \in Requests, liveHandler(r) \/ readyHandler(r) PROVE ChainTypeOK'
    <2>1. CASE liveHandler(r)
        BY <2>1, FixedAnswers, JSONType DEF liveHandler
    <2>2. CASE readyHandler(r)
        <3>1. Probe(Snapshot) \in ResponseType
            BY ProbeFacts
        <3> QED
            BY <2>2, <3>1, JSONType DEF readyHandler
    <2> QED
        BY <1>5, <2>1, <2>2
<1>6. ASSUME NEW r \in Requests, HandlerPanics(r) PROVE ChainTypeOK'
    <2>1. [status |-> 200, body |-> "live"] \in ResponseType /\ response[r] \in ResponseType
        BY FixedAnswers DEF ChainTypeOK
    <2>2. response' \in [Requests -> ResponseType]
        BY <1>6, <2>1 DEF HandlerPanics, LeftBehind, ChainTypeOK
    <2>3. at' \in [Requests -> Locations] /\ panicked' \subseteq Requests
        BY <1>6 DEF HandlerPanics, ChainTypeOK, Locations
    <2> QED
        BY <1>6, <2>2, <2>3 DEF HandlerPanics, ChainTypeOK
<1>7. ASSUME NEW r \in Requests, recoverMiddleware(r) PROVE ChainTypeOK'
    <2>1. FiberError(500) \in Errors
        BY ErrorTypes
    <2> QED
        BY <1>7, <2>1 DEF recoverMiddleware, ChainTypeOK, Locations
<1>8. ASSUME NEW r \in Requests, accessLogMiddleware(r) PROVE ChainTypeOK'
    <2>1. err[r] \in Errors /\ response[r] \in ResponseType
        BY DEF ChainTypeOK
    <2>2. stableError(err[r]) \in ResponseType /\ Unencoded(r, stableError(err[r])) \in ResponseType
        BY <2>1, StableErrorType, KeptBody
    <2>3. NoError \in Errors /\ OtherError \in Errors
        BY ErrorTypes
    <2>4. \E answer \in ResponseType : response' = [response EXCEPT ![r] = answer]
        BY <1>8, <2>1, <2>2 DEF accessLogMiddleware, AccessLogged
    <2>5. response' \in [Requests -> ResponseType]
        BY <2>4 DEF ChainTypeOK
    <2>6. err' \in [Requests -> Errors]
        BY <1>8, <2>3 DEF accessLogMiddleware, AccessLogged, ChainTypeOK
    <2>8. broken' \subseteq Requests
        BY <1>8 DEF accessLogMiddleware, AccessLogged, ChainTypeOK
    <2>7. at' \in [Requests -> Locations]
        BY <1>8 DEF accessLogMiddleware, AccessLogged, ChainTypeOK, Locations
    <2> QED
        BY <1>8, <2>5, <2>6, <2>7, <2>8 DEF accessLogMiddleware, ChainTypeOK
<1>9. ASSUME NEW r \in Requests, Msg(r) PROVE ChainTypeOK'
    BY <1>9 DEF Msg, ChainTypeOK, Locations
<1>10. ASSUME NEW r \in Requests, Return(r) PROVE ChainTypeOK'
    <2>1. response' \in [Requests -> ResponseType]
        <3>1. err[r] \in Errors
            BY DEF ChainTypeOK
        <3> QED
            BY <1>10, <3>1, FiberAnswer DEF Return, ChainTypeOK
    <2> QED
        BY <1>10, <2>1 DEF Return, ChainTypeOK, Locations
<1>11. ASSUME NEW r \in Requests, HandlerFails(r) PROVE ChainTypeOK'
    <2>1. PICK e \in {OtherError} \cup {FiberError(c) : c \in HandlerErrors},
               answer \in LeftBehind(r) : HandlerReturns(r, e, answer)
        BY <1>11 DEF HandlerFails
    <2>2. e \in Errors
        BY ErrorTypes, HttpRequestAssumption
    <2>3. answer \in ResponseType
        <3>1. response[r] \in ResponseType
            BY DEF ChainTypeOK
        <3>2. answer = response[r] \/ answer = [status |-> 200, body |-> "live"]
            BY DEF LeftBehind
        <3> QED
            BY <3>1, <3>2, FixedAnswers
    <2> QED
        BY <2>1, <2>2, <2>3, HandlerType
<1> QED
    BY <1>1, <1>2, <1>3, <1>4, <1>5, <1>6, <1>7, <1>8, <1>9, <1>10, <1>11 DEF PipelineNext, Chain

LEMMA ChainTypeInit == PipelineInit => ChainTypeOK
<1> SUFFICES ASSUME PipelineInit PROVE ChainTypeOK
    OBVIOUS
<1>1. response \in [Requests -> ResponseType] /\ err \in [Requests -> Errors]
    <2>1. /\ response = [r \in Requests |-> [status |-> 200, body |-> ""]]
          /\ err = [r \in Requests |-> NoError]
        BY DEF PipelineInit
    <2>2. [status |-> 200, body |-> ""] \in ResponseType /\ NoError \in Errors
        BY FixedAnswers, ErrorTypes
    <2> QED
        BY <2>1, <2>2
<1>2. at \in [Requests -> Locations]
    BY DEF PipelineInit, Locations
<1> QED
    BY <1>1, <1>2 DEF PipelineInit, ChainTypeOK

(* For the tracker and the gRPC health service, the chain is a reader. *)
LEMMA ChainReadsHealth == PipelineSpec => HealthSpec
<1>1. PipelineInit => HealthInit
    BY DEF PipelineInit
<1>2. [PipelineNext]_allVars => [HealthNext]_healthVars
    <2> SUFFICES ASSUME [PipelineNext]_allVars, ~UNCHANGED healthVars PROVE HealthNext
        OBVIOUS
    <2>1. ASSUME NEW r \in Requests PROVE ~EngineRejects(r) /\ ~requestContextMiddleware(r)
        BY DEF EngineRejects, requestContextMiddleware
    <2>2. ASSUME NEW r \in Requests PROVE ~Chain(r)
        <3>1. ASSUME NEW e, NEW answer PROVE ~HandlerReturns(r, e, answer)
            BY DEF HandlerReturns
        <3>2. ~rejectProbeBodyMiddleware(r) /\ ~NoRoute(r)
            BY <3>1 DEF rejectProbeBodyMiddleware, NoRoute
        <3>3. ~liveHandler(r) /\ ~readyHandler(r)
            BY <3>1 DEF liveHandler, readyHandler, JSON
        <3>4. ~HandlerPanics(r) /\ ~recoverMiddleware(r) /\ ~accessLogMiddleware(r)
            BY DEF HandlerPanics, recoverMiddleware, accessLogMiddleware
        <3>6. ~HandlerFails(r)
            BY <3>1 DEF HandlerFails
        <3>5. ~Msg(r) /\ ~Return(r)
            BY DEF Msg, Return
        <3> QED
            BY <3>2, <3>3, <3>4, <3>5, <3>6 DEF Chain
    <2>3. ~UNCHANGED allVars
        BY DEF allVars
    <2>4. OwnerStores
        BY <2>1, <2>2, <2>3 DEF PipelineNext
    <2> QED
        BY <2>4 DEF OwnerStores, HealthNext, HealthStep
<1> QED
    BY <1>1, <1>2, PTL DEF PipelineSpec, HealthSpec

LEMMA ChainTypeCorrect == PipelineSpec => [](ChainTypeOK /\ HealthTypeOK)
<1>1. PipelineSpec => []HealthTypeOK
    BY ChainReadsHealth, HealthTypeCorrect, PTL
<1>2. ChainTypeOK /\ HealthTypeOK /\ HealthTypeOK' /\ [PipelineNext]_allVars => ChainTypeOK'
    <2>1. ChainTypeOK /\ UNCHANGED allVars => ChainTypeOK'
        BY DEF ChainTypeOK, allVars, pipelineVars, chainVars
    <2> QED
        BY <2>1, ChainTypeStep
<1> QED
    BY <1>1, <1>2, ChainTypeInit, PTL DEF PipelineSpec

(* logging.go:69-72 and server.go:386-410: for the logger, every request is  *)
(* one of its goroutines, so the numbering proved of the logger holds of the *)
(* chain.                                                                    *)
THEOREM ChainUsesLogger ==
    ASSUME HttpRecords \subseteq Records
    PROVE  PipelineSpec => LogSpec
<1>1. PipelineInit => LogInit
    BY DEF PipelineInit
<1>2. ChainTypeOK /\ [PipelineNext]_allVars => [LogNext]_logVars
    <2> SUFFICES ASSUME ChainTypeOK, [PipelineNext]_allVars, ~UNCHANGED logVars PROVE LogNext
        OBVIOUS
    <2>1. PICK r \in Requests : recoverMiddleware(r) \/ accessLogMiddleware(r) \/ Msg(r)
        BY DEF allVars, PipelineNext, Chain, EngineRejects, requestContextMiddleware,
           rejectProbeBodyMiddleware, NoRoute, liveHandler, readyHandler, JSON, HandlerReturns,
           HandlerPanics, HandlerFails, Return, OwnerStores
    <2>2. r \in Goroutines /\ id[r] \in Nat /\ "error" \in Methods /\ "info" \in Methods
        BY HttpRequestAssumption DEF ChainTypeOK, Methods, Levels, zerologLevels
    <2>3. \A what \in HttpEvents, s \in Nat : Record(r, what, s) \in Records
        BY <2>2 DEF Record, HttpRecords
    <2>4. CASE recoverMiddleware(r)
        <3>1. Record(r, "http_request_panicked", 0) \in Records
            BY <2>3 DEF HttpEvents
        <3> QED
            BY <2>2, <2>4, <3>1 DEF recoverMiddleware, LogNext
    <2>5. CASE accessLogMiddleware(r)
        <3>1. PICK answer \in {response[r], stableError(err[r])} : AccessLogged(r, answer)
            BY <2>5 DEF accessLogMiddleware
        <3>2. answer \in ResponseType
            BY StableErrorType DEF ChainTypeOK
        <3>3. answer.status \in Nat
            BY <3>2 DEF ResponseType, AllStatuses
        <3>4. Record(r, "http_request_completed", answer.status) \in Records
            BY <2>3, <3>3 DEF HttpEvents
        <3> QED
            BY <2>2, <3>1, <3>4 DEF AccessLogged, LogNext
    <2>6. CASE Msg(r)
        BY <2>2, <2>6 DEF Msg, LogNext
    <2> QED
        BY <2>1, <2>4, <2>5, <2>6
<1> QED
    BY <1>1, <1>2, ChainTypeCorrect, PTL DEF PipelineSpec, LogSpec

(* server.go:353-374 and 451-462: the chain keeps its types, and no error     *)
(* becomes a status outside 400..599.                                         *)
THEOREM PipelineTypeCorrect ==
    ASSUME HttpRecords \subseteq Records
    PROVE  PipelineSpec => []PipelineTypeOK
<1>1. ChainTypeOK /\ HealthTypeOK /\ LogTypeOK => PipelineTypeOK
    BY DEF ChainTypeOK, PipelineTypeOK, ResponseType, AllStatuses
<1> QED
    BY <1>1, ChainTypeCorrect, ChainUsesLogger, LogTypeCorrect, PTL

-----------------------------------------------------------------------------
(* What the client is told. *)

(* A body that speaks of readiness says one of the given words. *)
Told(body, words) ==
    /\ body = "ready" => stateReady \in words
    /\ body \in Reasons => encode([Ready |-> FALSE, Reason |-> body]) \in words

Final(r) ==
    /\ response[r] \in StableResponses \/ (r \in broken /\ response[r].status = 500)
    /\ r \in panicked => response[r].status = 500

(* A request that is being served has seen the tracker's word, and one that  *)
(* has not reached its handler has no body and has not panicked.             *)
FreshInv(r) ==
    /\ at[r] \notin {"idle", "done"} => tracker \in seen[r]
    /\ at[r] \in {"idle", "probe"} => response[r].body = "" /\ r \notin panicked
    /\ Told(response[r].body, seen[r])

(* What is settled of the answer at each place on the way up. *)
WholeInv(r) ==
    /\ at[r] \in {"recover", "panic log"} => r \in panicked
    /\ at[r] \in {"panic log", "access"} /\ r \in panicked => err[r] = FiberError(500)
    /\ at[r] = "access" /\ err[r] = NoError => response[r] \in StableResponses
    /\ at[r] = "access log" => err[r] = NoError /\ Final(r)
    /\ at[r] = "return" => \/ err[r] = OtherError /\ r \in broken
                           \/ err[r] = NoError /\ Final(r)
    /\ at[r] = "done" => Final(r)

AnswerInv == \A r \in Requests : FreshInv(r) /\ WholeInv(r)

(* No answer but a probe's can be taken for a statement about readiness. *)
LEMMA SilentBodies ==
    ASSUME NEW b \in ErrorCodes \cup {"", "live", "Internal Server Error"}, NEW words
    PROVE  Told(b, words)
BY DEF Told, ErrorCodes, Reasons, ReasonUnavailable, ReasonRuntimeUnavailable, ReasonRecovering,
       ReasonDraining, ReasonFailed

LEMMA ErrorAnswers ==
    ASSUME NEW e \in Errors, NEW words
    PROVE  /\ stableError(e) \in StableResponses
           /\ e \in {OtherError, FiberError(500)} => stableError(e).status = 500
           /\ Told(stableError(e).body, words)
<1>1. stableError(e) = stableError(FiberError(errorStatus(e))) /\ errorStatus(e) \in 400..599
    BY ErrorFacts DEF stableError
<1>2. stableError(e) \in StableResponses
    BY <1>1, StableKinds
<1>3. e \in {OtherError, FiberError(500)} => stableError(e).status = 500
    BY ErrorFacts, StableErrorType
<1>4. Told(stableError(e).body, words)
    BY StableErrorType, SilentBodies
<1> QED
    BY <1>2, <1>3, <1>4

LEMMA ProbeAnswers ==
    ASSUME HealthTypeOK
    PROVE  /\ [status |-> 200, body |-> "live"] \in StableResponses
           /\ Probe(Snapshot) \in StableResponses
           /\ \A words : tracker \in words => Told(Probe(Snapshot).body, words)
<1>1. [status |-> 200, body |-> "live"] \in StableResponses
    BY DEF StableResponses
<1>2. CASE Probe(Snapshot) = [status |-> 200, body |-> "ready"] /\ tracker = stateReady
    <2>1. "ready" \notin Reasons
        BY DEF Reasons, ReasonUnavailable, ReasonRuntimeUnavailable, ReasonRecovering,
           ReasonDraining, ReasonFailed
    <2> QED
        BY <1>1, <1>2, <2>1 DEF StableResponses, Told
<1>3. CASE \E reason \in Reasons :
               /\ Probe(Snapshot) = [status |-> 503, body |-> reason]
               /\ encode([Ready |-> FALSE, Reason |-> reason]) = tracker
    <2>1. PICK reason \in Reasons :
              /\ Probe(Snapshot) = [status |-> 503, body |-> reason]
              /\ encode([Ready |-> FALSE, Reason |-> reason]) = tracker
        BY <1>3
    <2>2. reason # "ready"
        BY DEF Reasons, ReasonUnavailable, ReasonRuntimeUnavailable, ReasonRecovering,
           ReasonDraining, ReasonFailed
    <2>3. Probe(Snapshot).body = reason
        BY <2>1
    <2>4. Probe(Snapshot) \in StableResponses
        <3>1. Probe(Snapshot) = Refusal(reason)
            BY <2>1 DEF Refusal
        <3> QED
            BY <3>1, StableKinds, Zenon
    <2> QED
        <3>1. ASSUME NEW words, tracker \in words PROVE Told(reason, words)
            BY <2>1, <2>2, <3>1 DEF Told
        <3>2. \A words : tracker \in words => Told(reason, words)
            BY <3>1
        <3> QED
            BY <1>1, <2>3, <2>4, <3>2
<1> QED
    BY <1>2, <1>3, ProbeFacts

(* A step of one request leaves the others, and the tracker, as they are. *)
LEMMA OneRequestMoves ==
    ASSUME ChainTypeOK, NEW r \in Requests,
           EngineRejects(r) \/ requestContextMiddleware(r) \/ Chain(r),
           NEW q \in Requests, q # r
    PROVE  /\ at'[q] = at[q]
           /\ err'[q] = err[q]
           /\ response'[q] = response[q]
           /\ seen'[q] = seen[q]
           /\ q \in panicked' <=> q \in panicked
           /\ q \in broken' <=> q \in broken
           /\ tracker' = tracker
<1> DEFINE Frame == /\ at'[q] = at[q]
                    /\ err'[q] = err[q]
                    /\ response'[q] = response[q]
                    /\ seen'[q] = seen[q]
                    /\ q \in panicked' <=> q \in panicked
                    /\ q \in broken' <=> q \in broken
                    /\ tracker' = tracker
<1>1. ASSUME NEW e, FiberAnswers(r, e) PROVE response'[q] = response[q]
    <2>1. PICK answer : response' = [response EXCEPT ![r] = answer]
        BY <1>1 DEF FiberAnswers
    <2> QED
        BY <2>1 DEF ChainTypeOK
<1>2. ASSUME NEW e, NEW answer, HandlerReturns(r, e, answer) PROVE Frame
    <2>1. /\ err' = [err EXCEPT ![r] = e]
          /\ response' = [response EXCEPT ![r] = answer]
          /\ at' = [at EXCEPT ![r] = "access"]
          /\ panicked' = panicked /\ broken' = broken /\ seen' = seen /\ tracker' = tracker
        BY <1>2 DEF HandlerReturns, healthVars
    <2> QED
        BY <2>1 DEF ChainTypeOK
<1>3. ASSUME NEW answer, JSON(r, answer) PROVE Frame
    BY <1>2, <1>3 DEF JSON
<1>4. CASE EngineRejects(r)
    <2>1. response'[q] = response[q]
        BY <1>1, <1>4 DEF EngineRejects
    <2>2. /\ at' = [at EXCEPT ![r] = "done"]
          /\ err' = err /\ panicked' = panicked /\ broken' = broken /\ seen' = seen
          /\ tracker' = tracker
        BY <1>4 DEF EngineRejects, healthVars
    <2> QED
        BY <2>1, <2>2 DEF ChainTypeOK
<1>5. CASE requestContextMiddleware(r)
    <2>1. /\ at' = [at EXCEPT ![r] = "probe"]
          /\ seen' = [seen EXCEPT ![r] = {tracker}]
          /\ err' = err /\ panicked' = panicked /\ broken' = broken /\ response' = response
          /\ tracker' = tracker
        BY <1>5 DEF requestContextMiddleware, healthVars
    <2> QED
        BY <2>1 DEF ChainTypeOK
<1>6. CASE rejectProbeBodyMiddleware(r)
    BY <1>2, <1>6 DEF rejectProbeBodyMiddleware
<1>7. CASE NoRoute(r)
    BY <1>2, <1>7 DEF NoRoute
<1>8. CASE liveHandler(r)
    BY <1>3, <1>8 DEF liveHandler
<1>9. CASE readyHandler(r)
    BY <1>3, <1>9 DEF readyHandler
<1>10. CASE HandlerPanics(r)
    <2>1. PICK answer : response' = [response EXCEPT ![r] = answer]
        BY <1>10 DEF HandlerPanics
    <2>2. /\ at' = [at EXCEPT ![r] = "recover"]
          /\ panicked' = panicked \cup {r}
          /\ err' = err /\ broken' = broken /\ seen' = seen /\ tracker' = tracker
        BY <1>10 DEF HandlerPanics, healthVars
    <2> QED
        BY <2>1, <2>2 DEF ChainTypeOK
<1>11. CASE recoverMiddleware(r)
    <2>1. PICK l : at' = [at EXCEPT ![r] = l]
        BY <1>11 DEF recoverMiddleware
    <2>2. /\ err' = [err EXCEPT ![r] = FiberError(500)]
          /\ response' = response /\ panicked' = panicked /\ broken' = broken /\ seen' = seen
          /\ tracker' = tracker
        BY <1>11 DEF recoverMiddleware, healthVars
    <2> QED
        BY <2>1, <2>2 DEF ChainTypeOK
<1>12. CASE accessLogMiddleware(r)
    <2>1. panicked' = panicked /\ seen' = seen /\ tracker' = tracker
        BY <1>12 DEF accessLogMiddleware, healthVars
    <2>2. ASSUME NEW answer, AccessLogged(r, answer)
          PROVE  at'[q] = at[q] /\ err'[q] = err[q] /\ response'[q] = response[q]
        <3>1. PICK l : at' = [at EXCEPT ![r] = l]
            BY <2>2 DEF AccessLogged
        <3>2. /\ err' = [err EXCEPT ![r] = NoError]
              /\ response' = [response EXCEPT ![r] = answer]
            BY <2>2 DEF AccessLogged
        <3> QED
            BY <3>1, <3>2 DEF ChainTypeOK
    <2>4. q \in broken' <=> q \in broken
        BY <1>12 DEF accessLogMiddleware, AccessLogged
    <2>3. ASSUME response' = [response EXCEPT ![r] = Unencoded(r, stableError(err[r]))],
                 err' = [err EXCEPT ![r] = OtherError], at' = [at EXCEPT ![r] = "return"]
          PROVE  at'[q] = at[q] /\ err'[q] = err[q] /\ response'[q] = response[q]
        BY <2>3 DEF ChainTypeOK
    <2> QED
        BY <1>12, <2>1, <2>2, <2>3, <2>4 DEF accessLogMiddleware
<1>13. CASE Msg(r)
    <2>1. /\ err' = err /\ response' = response /\ panicked' = panicked /\ broken' = broken
          /\ seen' = seen
          /\ tracker' = tracker
        BY <1>13 DEF Msg, healthVars
    <2>2. at' = at \/ \E l : at' = [at EXCEPT ![r] = l]
        BY <1>13 DEF Msg
    <2> QED
        BY <2>1, <2>2 DEF ChainTypeOK
<1>14. CASE Return(r)
    <2>1. response'[q] = response[q]
        BY <1>1, <1>14 DEF Return
    <2>2. /\ at' = [at EXCEPT ![r] = "done"]
          /\ err' = err /\ panicked' = panicked /\ broken' = broken /\ seen' = seen
          /\ tracker' = tracker
        BY <1>14 DEF Return, healthVars
    <2> QED
        BY <2>1, <2>2 DEF ChainTypeOK
<1>15. CASE HandlerFails(r)
    BY <1>2, <1>15 DEF HandlerFails
<1> QED
    BY <1>4, <1>5, <1>6, <1>7, <1>8, <1>9, <1>10, <1>11, <1>12, <1>13, <1>14, <1>15, Zenon
    DEF Chain

LEMMA OthersStay ==
    ASSUME ChainTypeOK, NEW r \in Requests,
           EngineRejects(r) \/ requestContextMiddleware(r) \/ Chain(r),
           NEW q \in Requests, q # r, FreshInv(q), WholeInv(q)
    PROVE  FreshInv(q)' /\ WholeInv(q)'
<1>1. /\ at'[q] = at[q] /\ err'[q] = err[q] /\ response'[q] = response[q]
      /\ seen'[q] = seen[q] /\ (q \in panicked' <=> q \in panicked) /\ tracker' = tracker
      /\ q \in broken' <=> q \in broken
    BY OneRequestMoves
<1>2. FreshInv(q)'
    BY <1>1 DEF FreshInv, Told
<1>3. WholeInv(q)'
    <2>1. Final(q)' <=> Final(q)
        BY <1>1 DEF Final
    <2>2. /\ at'[q] \in {"recover", "panic log"} => q \in panicked'
          /\ at'[q] \in {"panic log", "access"} /\ q \in panicked' => err'[q] = FiberError(500)
        BY <1>1 DEF WholeInv
    <2>3. at'[q] = "access" /\ err'[q] = NoError => response'[q] \in StableResponses
        BY <1>1 DEF WholeInv
    <2>4. /\ at'[q] = "access log" => err'[q] = NoError /\ Final(q)'
          /\ at'[q] = "return" => \/ err'[q] = OtherError /\ q \in broken'
                                  \/ err'[q] = NoError /\ Final(q)'
          /\ at'[q] = "done" => Final(q)'
        <3>1. at'[q] = "access log" => err'[q] = NoError /\ Final(q)'
            BY <1>1, <2>1 DEF WholeInv
        <3>2. at'[q] = "return" => \/ err'[q] = OtherError /\ q \in broken'
                                   \/ err'[q] = NoError /\ Final(q)'
            <4>1. at[q] = "return" => \/ err[q] = OtherError /\ q \in broken
                                      \/ err[q] = NoError /\ Final(q)
                BY Zenon DEF WholeInv
            <4> QED
                BY <1>1, <2>1, <4>1
        <3>3. at'[q] = "done" => Final(q)'
            BY <1>1, <2>1 DEF WholeInv
        <3> QED
            BY <3>1, <3>2, <3>3
    <2>5. /\ StableResponses' = StableResponses
          /\ NoError' = NoError /\ OtherError' = OtherError /\ FiberError(500)' = FiberError(500)
        BY DEF StableResponses, NoError, OtherError, FiberError
    <2> QED
        BY <2>2, <2>3, <2>4, <2>5, Zenon DEF WholeInv
<1> QED
    BY <1>2, <1>3

(* A handler's answer, returned with an error or whole. *)
LEMMA HandlerAnswer ==
    ASSUME ChainTypeOK, NEW r \in Requests, FreshInv(r), WholeInv(r), at[r] = "probe",
           NEW e \in Errors, NEW answer, HandlerReturns(r, e, answer),
           Told(answer.body, seen[r]), e = NoError => answer \in StableResponses
    PROVE  FreshInv(r)' /\ WholeInv(r)'
<1>1. /\ at'[r] = "access" /\ err'[r] = e /\ response'[r] = answer
      /\ seen' = seen /\ panicked' = panicked /\ tracker' = tracker
    BY DEF HandlerReturns, ChainTypeOK, healthVars
<1>2. tracker \in seen[r] /\ r \notin panicked
    BY DEF FreshInv
<1>3. FreshInv(r)'
    BY <1>1, <1>2 DEF FreshInv, Told
<1>4. WholeInv(r)'
    BY <1>1, <1>2 DEF WholeInv
<1> QED
    BY <1>3, <1>4

LEMMA JSONAnswer ==
    ASSUME ChainTypeOK, NEW r \in Requests, FreshInv(r), WholeInv(r), at[r] = "probe",
           NEW answer \in StableResponses, JSON(r, answer), Told(answer.body, seen[r])
    PROVE  FreshInv(r)' /\ WholeInv(r)'
<1>1. CASE HandlerReturns(r, NoError, answer)
    BY <1>1, ErrorTypes, HandlerAnswer
<1>2. CASE HandlerReturns(r, OtherError, Unencoded(r, answer))
    <2>1. Unencoded(r, answer).body = response[r].body
        BY DEF Unencoded
    <2>2. Told(Unencoded(r, answer).body, seen[r])
        BY <2>1 DEF FreshInv
    <2> QED
        BY <1>2, <2>2, ErrorTypes, HandlerAnswer
<1> QED
    BY <1>1, <1>2 DEF JSON

(* One step of a request, by the action it takes. *)
LEMMA OwnStep ==
    ASSUME ChainTypeOK, HealthTypeOK, NEW r \in Requests, FreshInv(r), WholeInv(r),
           EngineRejects(r) \/ requestContextMiddleware(r) \/ Chain(r)
    PROVE  FreshInv(r)' /\ WholeInv(r)'
<1>0. /\ err[r] \in Errors
      /\ NoError # OtherError /\ NoError # FiberError(500)
    BY ErrorTypes DEF ChainTypeOK
<1>1. CASE EngineRejects(r)
    <2>1. PICK c \in EngineErrors : FiberAnswers(r, FiberError(c))
        BY <1>1 DEF EngineRejects
    <2>2. c \in Int /\ FiberError(c) \in Errors /\ response[r].body = ""
        <3>1. c \in Int
            BY HttpRequestAssumption
        <3>2. response[r].body = ""
            BY <1>1 DEF EngineRejects, FreshInv
        <3> QED
            BY <3>1, <3>2, ErrorTypes
    <2>3. ASSUME response'[r] = stableError(FiberError(c))
          PROVE  response'[r] \in StableResponses /\ Told(response'[r].body, seen[r])
        <3> DEFINE e == FiberError(c)
        <3>1. e \in Errors
            BY <2>2
        <3> HIDE DEF e
        <3>2. stableError(e) \in StableResponses /\ Told(stableError(e).body, seen[r])
            BY <3>1, ErrorAnswers
        <3> QED
            BY <2>3, <3>2 DEF e
    <2>8. ASSUME response'[r] = SendStatus500(r)
          PROVE  response'[r] \in StableResponses /\ Told(response'[r].body, seen[r])
        <3>2. response[r].body \in Bodies
            BY BodyTyped
        <3>4. /\ SendStatus500(r) \in StableResponses
              /\ SendStatus500(r).body = "Internal Server Error"
            BY <2>2, <3>2, LastResort
        <3>3. Told("Internal Server Error", seen[r])
            BY SilentBodies
        <3> QED
            BY <2>8, <3>3, <3>4
    <2>4. response'[r] \in StableResponses /\ Told(response'[r].body, seen[r])
        <3>1. response'[r] \in {stableError(FiberError(c)), SendStatus500(r)}
            BY <2>1, <2>2, FiberAnswer
        <3> QED
            BY <2>3, <2>8, <3>1
    <2>5. at'[r] = "done" /\ seen' = seen /\ panicked' = panicked /\ r \notin panicked
        BY <1>1 DEF EngineRejects, ChainTypeOK, FreshInv
    <2>6. FreshInv(r)'
        BY <2>4, <2>5 DEF FreshInv, Told
    <2>7. WholeInv(r)'
        BY <2>4, <2>5 DEF WholeInv, Final
    <2> QED
        BY <2>6, <2>7
<1>2. CASE requestContextMiddleware(r)
    <2>1. /\ at'[r] = "probe" /\ response'[r].body = "" /\ panicked' = panicked
          /\ seen'[r] = {tracker} /\ tracker' = tracker /\ r \notin panicked
        BY <1>2 DEF requestContextMiddleware, ChainTypeOK, FreshInv, healthVars
    <2>2. Told("", seen'[r])
        BY SilentBodies
    <2>3. FreshInv(r)'
        BY <2>1, <2>2 DEF FreshInv, Told
    <2>4. WholeInv(r)'
        BY <2>1 DEF WholeInv
    <2> QED
        BY <2>3, <2>4
<1>3. CASE rejectProbeBodyMiddleware(r) \/ NoRoute(r)
    <2>1. at[r] = "probe" /\ Told(response[r].body, seen[r])
        BY <1>3 DEF rejectProbeBodyMiddleware, NoRoute, FreshInv
    <2>2. PICK c \in {400, 404, 405} : HandlerReturns(r, FiberError(c), response[r])
        BY <1>3 DEF rejectProbeBodyMiddleware, NoRoute
    <2>3. FiberError(c) \in Errors /\ FiberError(c) # NoError
        BY ErrorTypes
    <2> QED
        BY <2>1, <2>2, <2>3, HandlerAnswer
<1>4. CASE liveHandler(r)
    <2>1. /\ at[r] = "probe" /\ JSON(r, [status |-> 200, body |-> "live"])
          /\ [status |-> 200, body |-> "live"].body = "live"
        BY <1>4 DEF liveHandler, Routed
    <2>2. Told("live", seen[r])
        BY SilentBodies
    <2> QED
        BY <2>1, <2>2, ProbeAnswers, JSONAnswer
<1>5. CASE readyHandler(r)
    <2>1. at[r] = "probe" /\ JSON(r, Probe(Snapshot)) /\ tracker \in seen[r]
        BY <1>5 DEF readyHandler, Routed, FreshInv
    <2>2. Told(Probe(Snapshot).body, seen[r]) /\ Probe(Snapshot) \in StableResponses
        BY <2>1, ProbeAnswers
    <2> QED
        BY <2>1, <2>2, JSONAnswer
<1>6. CASE HandlerPanics(r)
    <2>1. /\ at'[r] = "recover" /\ panicked' = panicked \cup {r} /\ seen' = seen
          /\ tracker' = tracker /\ tracker \in seen[r] /\ response[r].body = ""
        BY <1>6 DEF HandlerPanics, Routed, ChainTypeOK, FreshInv, healthVars
    <2>2. Told(response'[r].body, seen[r])
        <3>1. CASE response'[r] = response[r]
            BY <2>1, <3>1, SilentBodies
        <3>2. CASE response'[r] = [status |-> 200, body |-> "live"]
            <4>1. response'[r].body = "live"
                BY <3>2
            <4> QED
                BY <4>1, SilentBodies
        <3> QED
            BY <1>6, <3>1, <3>2 DEF HandlerPanics, LeftBehind, ChainTypeOK
    <2>3. FreshInv(r)'
        BY <2>1, <2>2 DEF FreshInv, Told
    <2>4. WholeInv(r)'
        BY <2>1 DEF WholeInv
    <2> QED
        BY <2>3, <2>4
<1>7. CASE recoverMiddleware(r)
    <2>1. /\ at'[r] \in {"panic log", "access"} /\ err'[r] = FiberError(500)
          /\ UNCHANGED <<tracker, seen, panicked, response>>
          /\ at[r] = "recover"
        BY <1>7 DEF recoverMiddleware, ChainTypeOK, healthVars
    <2>2. FreshInv(r)'
        BY <2>1 DEF FreshInv, Told
    <2>3. WholeInv(r)'
        BY <1>0, <2>1 DEF WholeInv
    <2> QED
        BY <2>2, <2>3
<1>8. CASE accessLogMiddleware(r)
    <2>1. /\ at[r] = "access" /\ UNCHANGED <<tracker, seen, panicked>>
          /\ at'[r] \in {"access log", "return"}
        BY <1>8 DEF accessLogMiddleware, AccessLogged, ChainTypeOK, healthVars
    <2>2. ASSUME NEW answer, response'[r] = answer, Told(answer.body, seen[r]) PROVE FreshInv(r)'
        BY <2>1, <2>2 DEF FreshInv, Told
    <2>3. ASSUME NEW answer, response'[r] = answer, err'[r] = NoError, answer \in StableResponses,
                 r \in panicked => answer.status = 500
          PROVE  WholeInv(r)'
        <3>1. Final(r)'
            BY <2>1, <2>3 DEF Final
        <3> QED
            BY <2>1, <2>3, <3>1 DEF WholeInv
    <2>4. CASE err[r] = NoError /\ AccessLogged(r, response[r])
        <3>1. response'[r] = response[r] /\ err'[r] = NoError
            BY <2>4 DEF AccessLogged, ChainTypeOK
        <3>2. response[r] \in StableResponses /\ r \notin panicked
            BY <1>0, <2>1, <2>4 DEF WholeInv
        <3> QED
            BY <2>2, <2>3, <3>1, <3>2 DEF FreshInv
    <2>5. CASE err[r] # NoError /\ AccessLogged(r, stableError(err[r]))
        <3>1. response'[r] = stableError(err[r]) /\ err'[r] = NoError
            BY <2>5 DEF AccessLogged, ChainTypeOK
        <3>2. /\ stableError(err[r]) \in StableResponses
              /\ Told(stableError(err[r]).body, seen[r])
              /\ err[r] = FiberError(500) => stableError(err[r]).status = 500
            BY <1>0, <2>5, ErrorAnswers
        <3>3. r \in panicked => err[r] = FiberError(500)
            BY <2>1 DEF WholeInv
        <3> QED
            BY <2>2, <2>3, <3>1, <3>2, <3>3
    <2>6. CASE /\ err[r] # NoError
               /\ response' = [response EXCEPT ![r] = Unencoded(r, stableError(err[r]))]
               /\ err' = [err EXCEPT ![r] = OtherError]
               /\ broken' = broken \cup {r}
               /\ at' = [at EXCEPT ![r] = "return"]
        <3>1. /\ response'[r] = Unencoded(r, stableError(err[r])) /\ err'[r] = OtherError
              /\ at'[r] = "return" /\ r \in broken'
            BY <2>6 DEF ChainTypeOK
        <3>2. Told(Unencoded(r, stableError(err[r])).body, seen[r])
            <4>1. Unencoded(r, stableError(err[r])).body = response[r].body
                BY DEF Unencoded
            <4> QED
                BY <4>1 DEF FreshInv
        <3>3. FreshInv(r)'
            BY <2>2, <3>1, <3>2
        <3>4. WholeInv(r)'
            BY <2>1, <3>1 DEF WholeInv
        <3> QED
            BY <3>3, <3>4
    <2> QED
        BY <1>8, <2>4, <2>5, <2>6 DEF accessLogMiddleware
<1>9. CASE Msg(r)
    <2>1. /\ at[r] \in {"panic log", "access log"}
          /\ at'[r] = at[r] \/ at'[r] = (IF at[r] = "panic log" THEN "access" ELSE "return")
          /\ UNCHANGED <<tracker, seen, panicked, response, err, broken>>
        BY <1>9 DEF Msg, ChainTypeOK, healthVars
    <2>2. FreshInv(r)'
        BY <2>1 DEF FreshInv, Told
    <2>3. WholeInv(r)'
        <3>1. Final(r)' <=> Final(r)
            BY <2>1 DEF Final
        <3> QED
            <4>1. CASE at'[r] = at[r]
                BY <2>1, <3>1, <4>1 DEF WholeInv
            <4>2. CASE at[r] = "panic log" /\ at'[r] = "access"
                BY <1>0, <2>1, <4>2 DEF WholeInv
            <4>3. CASE at[r] = "access log" /\ at'[r] = "return"
                BY <2>1, <3>1, <4>3 DEF WholeInv
            <4> QED
                BY <2>1, <4>1, <4>2, <4>3
    <2> QED
        BY <2>2, <2>3
<1>10. CASE Return(r)
    <2>1. /\ at[r] = "return" /\ at'[r] = "done" /\ UNCHANGED <<tracker, seen, panicked, broken>>
        BY <1>10 DEF Return, ChainTypeOK, healthVars
    <2>2. CASE err[r] = NoError
        <3>1. response' = response /\ Final(r)
            BY <1>0, <1>10, <2>1, <2>2 DEF Return, WholeInv
        <3>2. FreshInv(r)'
            BY <2>1, <3>1 DEF FreshInv, Told
        <3>3. Final(r)'
            BY <2>1, <3>1 DEF Final
        <3>4. WholeInv(r)'
            BY <2>1, <3>3 DEF WholeInv
        <3> QED
            BY <3>2, <3>4
    <2>3. CASE err[r] # NoError
        <3>1. err[r] = OtherError /\ r \in broken /\ FiberAnswers(r, err[r])
            BY <1>10, <2>1, <2>3 DEF Return, WholeInv
        <3>2. response'[r] \in {stableError(err[r]), SendStatus500(r)}
            BY <1>0, <3>1, FiberAnswer
        <3>3. response'[r].status = 500 /\ Told(response'[r].body, seen[r])
            <4>1. CASE response'[r] = stableError(err[r])
                <5>1. stableError(err[r]).status = 500
                    BY <1>0, <3>1, ErrorAnswers
                <5>2. Told(stableError(err[r]).body, seen[r])
                    BY <1>0, ErrorAnswers
                <5> QED
                    BY <4>1, <5>1, <5>2
            <4>2. CASE response'[r] = SendStatus500(r)
                <5>1. response[r].body \in Bodies
                    BY BodyTyped
                <5>2. /\ SendStatus500(r).status = 500
                      /\ SendStatus500(r).body \in {response[r].body, "Internal Server Error"}
                    <6>1. SendStatus500(r).status = 500
                        BY DEF SendStatus500
                    <6>2. SendStatus500(r).body \in {response[r].body, "Internal Server Error"}
                        BY <5>1, LastResort
                    <6> QED
                        BY <6>1, <6>2
                <5>3. Told(SendStatus500(r).body, seen[r])
                    <6>1. Told("Internal Server Error", seen[r])
                        BY SilentBodies
                    <6>2. Told(response[r].body, seen[r])
                        BY DEF FreshInv
                    <6> QED
                        BY <5>2, <6>1, <6>2
                <5> QED
                    BY <4>2, <5>2, <5>3
            <4> QED
                BY <3>2, <4>1, <4>2
        <3>4. FreshInv(r)'
            BY <2>1, <3>3 DEF FreshInv, Told
        <3>5. Final(r)'
            BY <2>1, <3>1, <3>3 DEF Final
        <3>6. WholeInv(r)'
            BY <2>1, <3>5 DEF WholeInv
        <3> QED
            BY <3>4, <3>6
    <2> QED
        BY <2>2, <2>3
<1>11. CASE HandlerFails(r)
    <2>1. PICK e \in {OtherError} \cup {FiberError(c) : c \in HandlerErrors},
               answer \in LeftBehind(r) : HandlerReturns(r, e, answer)
        BY <1>11 DEF HandlerFails
    <2>2. e \in Errors /\ e # NoError /\ at[r] = "probe"
        BY <1>11, ErrorTypes, HttpRequestAssumption DEF HandlerFails, Routed
    <2>3. answer.body \in {response[r].body, "live"}
        BY DEF LeftBehind
    <2>4. Told(answer.body, seen[r])
        BY <2>3, SilentBodies DEF FreshInv
    <2> QED
        BY <2>1, <2>2, <2>4, HandlerAnswer
<1> QED
    BY <1>1, <1>2, <1>3, <1>4, <1>5, <1>6, <1>7, <1>8, <1>9, <1>10, <1>11 DEF Chain

LEMMA AnswersHold == PipelineSpec => []AnswerInv
<1>1. PipelineInit => AnswerInv
    <2> SUFFICES ASSUME PipelineInit, NEW r \in Requests PROVE FreshInv(r) /\ WholeInv(r)
        BY DEF AnswerInv
    <2>1. at[r] = "idle" /\ response[r].body = "" /\ r \notin panicked
        BY DEF PipelineInit
    <2>2. Told("", seen[r])
        BY SilentBodies
    <2> QED
        BY <2>1, <2>2 DEF FreshInv, WholeInv
<1>2. ChainTypeOK /\ HealthTypeOK /\ AnswerInv /\ [PipelineNext]_allVars => AnswerInv'
    <2> SUFFICES ASSUME ChainTypeOK, HealthTypeOK, AnswerInv, [PipelineNext]_allVars,
                        NEW q \in Requests
                 PROVE  FreshInv(q)' /\ WholeInv(q)'
        BY DEF AnswerInv
    <2>1. FreshInv(q) /\ WholeInv(q)
        BY DEF AnswerInv
    <2>2. ASSUME UNCHANGED <<at, response, err, panicked, broken>>, seen[q] \subseteq seen'[q],
                 at[q] \notin {"idle", "done"} => tracker' \in seen'[q]
          PROVE  FreshInv(q)' /\ WholeInv(q)'
        <3>1. FreshInv(q)'
            BY <2>1, <2>2 DEF FreshInv, Told
        <3>2. Final(q)' <=> Final(q)
            BY <2>2 DEF Final
        <3>3. WholeInv(q)'
            BY <2>1, <2>2, <3>2 DEF WholeInv
        <3> QED
            BY <3>1, <3>3
    <2>3. CASE OwnerStores
        BY <2>2, <2>3 DEF OwnerStores, chainVars
    <2>4. CASE UNCHANGED allVars
        BY <2>1, <2>2, <2>4 DEF allVars, pipelineVars, chainVars, healthVars, FreshInv
    <2>5. ASSUME NEW r \in Requests,
                 EngineRejects(r) \/ requestContextMiddleware(r) \/ Chain(r)
          PROVE  FreshInv(q)' /\ WholeInv(q)'
        <3>1. CASE r = q
            BY <2>1, <2>5, <3>1, OwnStep
        <3>2. CASE r # q
            BY <2>1, <2>5, <3>2, OthersStay
        <3> QED
            BY <3>1, <3>2
    <2> QED
        BY <2>3, <2>4, <2>5 DEF PipelineNext
<1> QED
    BY <1>1, <1>2, ChainTypeCorrect, PTL DEF PipelineSpec

(* server.go:422-433: whatever the stores and the other requests do, what a  *)
(* probe says was true while it was served.                                  *)
THEOREM ProbesAreCurrent == PipelineSpec => []ProbeIsCurrent
<1>1. AnswerInv => ProbeIsCurrent
    BY DEF AnswerInv, FreshInv, Told, ProbeIsCurrent
<1> QED
    BY <1>1, AnswersHold, PTL

(* server.go:376-416 and 451-483: every answer is whole, and a panic's is a   *)
(* 500, whatever the handler had set; a body it had set reaches the client    *)
(* only under a 500 for which no error response could be encoded.             *)
THEOREM AnswersAreWhole == PipelineSpec => []StableResponse
<1>1. AnswerInv => StableResponse
    <2> SUFFICES ASSUME AnswerInv, NEW r \in Requests, at[r] = "done"
                 PROVE  /\ \/ response[r] \in StableResponses
                           \/ r \in broken /\ response[r].status = 500
                        /\ r \in panicked => response[r].status = 500
        BY Zenon DEF StableResponse
    <2>1. WholeInv(r)
        BY DEF AnswerInv
    <2>2. Final(r)
        BY <2>1 DEF WholeInv
    <2> QED
        BY <2>2 DEF Final
<1> QED
    BY <1>1, AnswersHold, PTL

(* logging.go:201 and server.go:386-410: the numbers of the chain's records. *)
THEOREM ChainLogsNumbered ==
    ASSUME HttpRecords \subseteq Records
    PROVE  PipelineSpec => [](NumbersAccounted /\ ReorderWindow)
BY ChainUsesLogger, EveryNumberAccounted, BoundedReordering, PTL

-----------------------------------------------------------------------------
(* What the log says. *)

PanicRecord(r)      == Record(r, "http_request_panicked", 0)
CompletionRecord(r) == Record(r, "http_request_completed", response[r].status)

Panics(r) == IF r \in panicked /\ Enabled("error") THEN <<PanicRecord(r)>> ELSE <<>>

(* The event a request is building, and which responses went without one. *)
DuringInv(r) ==
    /\ at[r] = "idle" => input[r] \notin Inputs
    /\ at[r] = "panic log" => event[r] = PanicRecord(r) /\ Enabled("error")
    /\ at[r] = "access log" => event[r] = CompletionRecord(r) /\ Enabled("info")
    /\ at[r] \notin {"return", "done"} => r \notin broken
    /\ at[r] = "return" /\ err[r] # NoError => r \in broken

(* While nothing is lost, the lines a request has written at each place. *)
TraceInv(r) ==
    lost = {} =>
        /\ at[r] \in {"idle", "probe", "recover", "panic log"} => Logged(lines, r, <<>>)
        /\ at[r] \in {"access", "access log"} => Logged(lines, r, Panics(r))
        /\ at[r] = "return" \/ (at[r] = "done" /\ input[r] \in Inputs) =>
               Logged(lines, r, Expected(r))

TellingInv == DOMAIN input = Requests /\ \A r \in Requests : DuringInv(r) /\ TraceInv(r)

(* A line of another goroutine does not change what a request has logged. *)
LEMMA OthersLine ==
    ASSUME NEW T, NEW written \in Seq(T), NEW line \in T, NEW r, NEW s,
           line.by # r, Logged(written, r, s)
    PROVE  Logged(Append(written, line), r, s)
<1> DEFINE longer == Append(written, line)
<1>1. /\ Len(written) \in Nat
      /\ DOMAIN written = 1..Len(written) /\ DOMAIN longer = 1..(Len(written) + 1)
      /\ \A i \in 1..Len(written) : longer[i] = written[i]
      /\ longer[Len(written) + 1] = line
    BY AppendFacts
<1>2. PICK place \in [DOMAIN s -> DOMAIN written] :
          /\ \A j, k \in DOMAIN s : j < k => place[j] < place[k]
          /\ \A k \in DOMAIN s : written[place[k]].record = s[k]
          /\ \A i \in DOMAIN written : written[i].by = r <=> \E k \in DOMAIN s : place[k] = i
    BY DEF Logged
<1> HIDE DEF longer
<1>3. place \in [DOMAIN s -> DOMAIN longer]
    BY <1>1, <1>2
<1>4. \A k \in DOMAIN s : longer[place[k]].record = s[k]
    BY <1>1, <1>2
<1>5. ASSUME NEW i \in DOMAIN longer
      PROVE  longer[i].by = r <=> \E k \in DOMAIN s : place[k] = i
    <2>1. CASE i \in DOMAIN written
        BY <1>1, <1>2, <2>1
    <2>2. CASE i = Len(written) + 1
        BY <1>1, <1>2, <2>2
    <2> QED
        BY <1>1, <2>1, <2>2
<1>6. Logged(longer, r, s)
    BY <1>2, <1>3, <1>4, <1>5 DEF Logged
<1> QED
    BY <1>6 DEF longer

(* A line of its own is its next record. *)
LEMMA OwnLine ==
    ASSUME NEW T, NEW written \in Seq(T), NEW line \in T, NEW r, NEW U, NEW s \in Seq(U),
           line.by = r, line.record \in U, Logged(written, r, s)
    PROVE  Logged(Append(written, line), r, Append(s, line.record))
<1> DEFINE longer == Append(written, line)
           more   == Append(s, line.record)
           n      == Len(written)
           m      == Len(s)
<1>1. /\ n \in Nat
      /\ DOMAIN written = 1..n /\ DOMAIN longer = 1..(n + 1)
      /\ \A i \in 1..n : longer[i] = written[i]
      /\ longer[n + 1] = line
    BY AppendFacts
<1>2. /\ m \in Nat
      /\ DOMAIN s = 1..m /\ DOMAIN more = 1..(m + 1)
      /\ \A i \in 1..m : more[i] = s[i]
      /\ more[m + 1] = line.record
    BY AppendFacts
<1>3. PICK old \in [DOMAIN s -> DOMAIN written] :
          /\ \A j, k \in DOMAIN s : j < k => old[j] < old[k]
          /\ \A k \in DOMAIN s : written[old[k]].record = s[k]
          /\ \A i \in DOMAIN written : written[i].by = r <=> \E k \in DOMAIN s : old[k] = i
    BY DEF Logged
<1> HIDE DEF longer, more, n, m
<1> DEFINE place == [k \in 1..(m + 1) |-> IF k = m + 1 THEN n + 1 ELSE old[k]]
<1>4. /\ place[m + 1] = n + 1
      /\ \A k \in 1..m : place[k] = old[k] /\ old[k] \in 1..n
    BY <1>1, <1>2, <1>3
<1>5. place \in [DOMAIN more -> DOMAIN longer]
    BY <1>1, <1>2, <1>4
<1> HIDE DEF place
<1>6. ASSUME NEW j \in DOMAIN more, NEW k \in DOMAIN more, j < k
      PROVE  place[j] < place[k]
    <2>1. j \in 1..m
        BY <1>2, <1>6
    <2>2. CASE k \in 1..m
        BY <1>2, <1>3, <1>4, <1>6, <2>1, <2>2
    <2>3. CASE k = m + 1
        BY <1>1, <1>4, <2>1, <2>3
    <2> QED
        BY <1>2, <2>2, <2>3
<1>7. ASSUME NEW k \in DOMAIN more
      PROVE  longer[place[k]].record = more[k]
    <2>1. CASE k \in 1..m
        BY <1>1, <1>2, <1>3, <1>4, <2>1
    <2>2. CASE k = m + 1
        BY <1>1, <1>2, <1>4, <2>2
    <2> QED
        BY <1>2, <2>1, <2>2
<1>8. ASSUME NEW i \in DOMAIN longer
      PROVE  longer[i].by = r <=> \E k \in DOMAIN more : place[k] = i
    <2>1. CASE i \in 1..n
        <3>1. i # n + 1
            BY <1>1, <2>1
        <3>2. longer[i] = written[i] /\ i \in DOMAIN written
            BY <1>1, <2>1
        <3>3. ASSUME longer[i].by = r PROVE \E k \in DOMAIN more : place[k] = i
            <4>1. PICK k \in DOMAIN s : old[k] = i
                BY <1>3, <3>2, <3>3
            <4>2. k \in 1..(m + 1) /\ place[k] = i
                BY <1>2, <1>4, <4>1
            <4> QED
                BY <1>2, <4>2
        <3>4. ASSUME NEW k \in DOMAIN more, place[k] = i PROVE longer[i].by = r
            <4>1. k \in DOMAIN s /\ old[k] = i
                BY <1>2, <1>4, <3>1, <3>4
            <4> QED
                BY <1>3, <3>2, <4>1
        <3> QED
            BY <3>3, <3>4
    <2>2. CASE i = n + 1
        <3>1. m + 1 \in DOMAIN more
            BY <1>2
        <3> QED
            BY <1>1, <1>4, <2>2, <3>1
    <2> QED
        BY <1>1, <2>1, <2>2
<1>9. Logged(longer, r, more)
    BY <1>5, <1>6, <1>7, <1>8 DEF Logged
<1> QED
    BY <1>9 DEF longer, more

LEMMA NothingLogged == ASSUME NEW r PROVE Logged(<<>>, r, <<>>)
<1>1. DOMAIN <<>> = {} /\ <<>> \in [DOMAIN <<>> -> DOMAIN <<>>]
    OBVIOUS
<1> QED
    BY <1>1 DEF Logged

LEMMA ShortTraces ==
    ASSUME NEW a, NEW b, NEW s \in {<<>>, <<a>>}
    PROVE  /\ s \in Seq({a, b})
           /\ s \o <<>> = s
           /\ s \o <<b>> = Append(s, b)
<1>1. CASE s = <<>>
    BY <1>1
<1>2. CASE s = <<a>>
    BY <1>2
<1> QED
    BY <1>1, <1>2

(* A step of one request, for the records of another. *)
LEMMA OneRequestLogs ==
    ASSUME ChainTypeOK, LogTypeOK, DOMAIN input = Requests, NEW r \in Requests,
           EngineRejects(r) \/ requestContextMiddleware(r) \/ Chain(r),
           NEW q \in Requests, q # r
    PROVE  /\ id'[q] = id[q] /\ input'[q] = input[q]
           /\ q \in broken' <=> q \in broken
           /\ event'[q] = event[q] /\ threshold' = threshold
           /\ lost' = {} => lost = {}
           /\ lines' = lines \/ (lines' = Append(lines, Line(r)) /\ number[r] # 0)
<1> DEFINE Frame == /\ id'[q] = id[q] /\ input'[q] = input[q]
                    /\ q \in broken' <=> q \in broken
                    /\ event'[q] = event[q] /\ threshold' = threshold
                    /\ lost' = {} => lost = {}
                    /\ lines' = lines \/ (lines' = Append(lines, Line(r)) /\ number[r] # 0)
<1>0. q \in DOMAIN event /\ r \in DOMAIN event /\ q \in DOMAIN id
    BY HttpRequestAssumption DEF LogTypeOK, ChainTypeOK
<1>1. ASSUME UNCHANGED <<logVars, id, input, broken>> PROVE Frame
    BY <1>1 DEF logVars
<1>2. ASSUME NEW e, NEW answer, HandlerReturns(r, e, answer) PROVE Frame
    BY <1>1, <1>2 DEF HandlerReturns
<1>3. ASSUME NEW level, NEW record, Begin(r, level, record)
      PROVE  /\ event'[q] = event[q]
             /\ UNCHANGED <<threshold, lines, lost>>
    BY <1>0, <1>3 DEF Begin
<1>4. CASE EngineRejects(r) \/ HandlerPanics(r) \/ Return(r)
    BY <1>1, <1>4 DEF EngineRejects, HandlerPanics, Return
<1>5. CASE requestContextMiddleware(r)
    <2>1. id'[q] = id[q]
        BY <1>0, <1>5 DEF requestContextMiddleware
    <2>2. input'[q] = input[q]
        BY <1>5 DEF requestContextMiddleware
    <2>3. UNCHANGED <<broken, logVars>>
        BY <1>5 DEF requestContextMiddleware
    <2> QED
        BY <2>1, <2>2, <2>3 DEF logVars
<1>6. CASE rejectProbeBodyMiddleware(r) \/ NoRoute(r)
    BY <1>2, <1>6 DEF rejectProbeBodyMiddleware, NoRoute
<1>7. CASE liveHandler(r) \/ readyHandler(r)
    BY <1>2, <1>7 DEF liveHandler, readyHandler, JSON
<1>8. CASE recoverMiddleware(r)
    <2>1. UNCHANGED <<id, input, broken>>
        BY <1>8 DEF recoverMiddleware
    <2>2. event'[q] = event[q] /\ UNCHANGED <<threshold, lines, lost>>
        BY <1>3, <1>8 DEF recoverMiddleware
    <2> QED
        BY <2>1, <2>2
<1>9. CASE accessLogMiddleware(r)
    <2>1. UNCHANGED <<id, input>>
        BY <1>9 DEF accessLogMiddleware
    <2>2. q \in broken' <=> q \in broken
        BY <1>9 DEF accessLogMiddleware, AccessLogged
    <2>3. event'[q] = event[q] /\ UNCHANGED <<threshold, lines, lost>>
        <3>1. CASE \E answer : AccessLogged(r, answer)
            BY <1>3, <3>1 DEF AccessLogged
        <3>2. CASE UNCHANGED logVars
            BY <3>2 DEF logVars
        <3> QED
            BY <1>9, <3>1, <3>2 DEF accessLogMiddleware
    <2> QED
        BY <2>1, <2>2, <2>3
<1>10. CASE Msg(r)
    <2>1. UNCHANGED <<id, input, broken>>
        BY <1>10 DEF Msg
    <2>2. CASE Run(r)
        BY <2>1, <2>2 DEF Run
    <2>3. CASE Write(r)
        <3>1. event'[q] = event[q] /\ threshold' = threshold
            BY <1>0, <2>3 DEF Write
        <3>2. lost' = {} => lost = {}
            BY <2>3 DEF Write
        <3>3. lines' = lines \/ (lines' = Append(lines, Line(r)) /\ number[r] # 0)
            BY <2>3 DEF Write
        <3> QED
            BY <2>1, <3>1, <3>2, <3>3
    <2> QED
        BY <1>10, <2>2, <2>3 DEF Msg
<1>11. CASE HandlerFails(r)
    BY <1>2, <1>11 DEF HandlerFails
<1> QED
    BY <1>4, <1>5, <1>6, <1>7, <1>8, <1>9, <1>10, <1>11, Zenon DEF Chain

LEMMA OthersTell ==
    ASSUME ChainTypeOK, LogTypeOK, DOMAIN input = Requests, NEW r \in Requests,
           EngineRejects(r) \/ requestContextMiddleware(r) \/ Chain(r),
           NEW q \in Requests, q # r, DuringInv(q), TraceInv(q)
    PROVE  DuringInv(q)' /\ TraceInv(q)'
<1>1. /\ at'[q] = at[q] /\ err'[q] = err[q] /\ response'[q] = response[q]
      /\ q \in panicked' <=> q \in panicked
    BY OneRequestMoves
<1>2. /\ id'[q] = id[q] /\ input'[q] = input[q]
      /\ q \in broken' <=> q \in broken
      /\ event'[q] = event[q] /\ threshold' = threshold
      /\ lost' = {} => lost = {}
    BY OneRequestLogs
<1>3. ASSUME NEW s, Logged(lines, q, s) PROVE Logged(lines', q, s)
    <2>1. CASE lines' = lines
        BY <1>3, <2>1
    <2>2. CASE lines' = Append(lines, Line(r)) /\ number[r] # 0
        <3>1. r \in Goroutines
            BY HttpRequestAssumption
        <3>2. lines \in Seq(LineType) /\ Line(r) \in LineType
            BY <2>2, <3>1, LineTyped DEF LogTypeOK, LineType
        <3>3. Line(r).by # q
            BY DEF Line
        <3> QED
            BY <1>3, <2>2, <3>2, <3>3, OthersLine
    <2> QED
        BY <2>1, <2>2, OneRequestLogs
<1>4. \A level : Enabled(level)' <=> Enabled(level)
    BY <1>2 DEF Enabled
<1>5. PanicRecord(q)' = PanicRecord(q) /\ CompletionRecord(q)' = CompletionRecord(q)
    BY <1>1, <1>2 DEF PanicRecord, CompletionRecord, Record
<1>6. Panics(q)' = Panics(q)
    BY <1>1, <1>4, <1>5 DEF Panics
<1>7. Expected(q)' = Expected(q)
    BY <1>1, <1>2, <1>4, <1>5 DEF Expected, PanicRecord, CompletionRecord
<1>8. DuringInv(q)'
    BY <1>1, <1>2, <1>4, <1>5 DEF DuringInv
<1>9. TraceInv(q)'
    BY <1>1, <1>2, <1>3, <1>6, <1>7 DEF TraceInv
<1> QED
    BY <1>8, <1>9

(* A request's whole trace is its panic record, if any, and its completion. *)
TraceFacts(r) ==
    /\ Panics(r) \in Seq({PanicRecord(r), CompletionRecord(r)})
    /\ ~Enabled("info") \/ r \in broken => Expected(r) = Panics(r)
    /\ Enabled("info") /\ r \notin broken => Expected(r) = Append(Panics(r), CompletionRecord(r))

LEMMA ExpectedFacts == ASSUME NEW r PROVE TraceFacts(r) /\ TraceFacts(r)'
<1>1. TraceFacts(r)
    <2> DEFINE a == PanicRecord(r)
               b == CompletionRecord(r)
               s == Panics(r)
    <2>1. s \in {<<>>, <<a>>}
        BY DEF Panics
    <2>2. Expected(r) = s \o (IF Enabled("info") /\ r \notin broken THEN <<b>> ELSE <<>>)
        BY DEF Expected, Panics, PanicRecord, CompletionRecord
    <2> HIDE DEF a, b, s
    <2>3. s \in Seq({a, b}) /\ s \o <<>> = s /\ s \o <<b>> = Append(s, b)
        BY <2>1, ShortTraces
    <2>4. ~Enabled("info") \/ r \in broken => Expected(r) = s
        BY <2>2, <2>3
    <2>5. Enabled("info") /\ r \notin broken => Expected(r) = Append(s, b)
        BY <2>2, <2>3
    <2> QED
        BY <2>3, <2>4, <2>5 DEF TraceFacts, a, b, s
<1>2. TraceFacts(r)'
    BY <1>1, PTL
<1> QED
    BY <1>1, <1>2

LEMMA HandlerTells ==
    ASSUME ChainTypeOK, NEW r \in Requests, FreshInv(r), DuringInv(r), TraceInv(r),
           at[r] = "probe", NEW e, NEW answer, HandlerReturns(r, e, answer)
    PROVE  DuringInv(r)' /\ TraceInv(r)'
<1>1. at'[r] = "access" /\ UNCHANGED <<broken, panicked, lines, lost>>
    BY DEF HandlerReturns, ChainTypeOK, logVars
<1>2. r \notin panicked /\ r \notin broken
    BY DEF FreshInv, DuringInv
<1>3. Panics(r)' = <<>>
    BY <1>1, <1>2 DEF Panics
<1>4. DuringInv(r)'
    BY <1>1, <1>2 DEF DuringInv
<1>5. TraceInv(r)'
    BY <1>1, <1>3 DEF TraceInv
<1> QED
    BY <1>4, <1>5

(* One step of a request, for its own records, by the action it takes. *)
LEMMA OwnTell ==
    ASSUME ChainTypeOK, LogTypeOK, DOMAIN input = Requests, NEW r \in Requests,
           FreshInv(r), WholeInv(r), DuringInv(r), TraceInv(r),
           EngineRejects(r) \/ requestContextMiddleware(r) \/ Chain(r)
    PROVE  DuringInv(r)' /\ TraceInv(r)'
<1>0. r \in Goroutines /\ r \in DOMAIN event /\ r \in DOMAIN at
    BY HttpRequestAssumption DEF LogTypeOK, ChainTypeOK
<1>1. CASE EngineRejects(r)
    <2>1. at[r] = "idle" /\ at'[r] = "done" /\ input' = input
        BY <1>1 DEF EngineRejects, ChainTypeOK
    <2>2. input'[r] \notin Inputs
        BY <2>1 DEF DuringInv
    <2> QED
        BY <2>1, <2>2 DEF DuringInv, TraceInv
<1>2. CASE requestContextMiddleware(r)
    <2>1. /\ at[r] = "idle" /\ at'[r] = "probe"
          /\ UNCHANGED <<broken, lines, lost>>
        BY <1>2 DEF requestContextMiddleware, ChainTypeOK, logVars
    <2> QED
        BY <2>1 DEF DuringInv, TraceInv
<1>3. CASE rejectProbeBodyMiddleware(r) \/ NoRoute(r)
    BY <1>3, HandlerTells DEF rejectProbeBodyMiddleware, NoRoute
<1>4. CASE liveHandler(r) \/ readyHandler(r)
    BY <1>4, HandlerTells DEF liveHandler, readyHandler, Routed, JSON
<1>10. CASE HandlerFails(r)
    BY <1>10, HandlerTells DEF HandlerFails, Routed
<1>5. CASE HandlerPanics(r)
    <2>1. /\ at[r] = "probe" /\ at'[r] = "recover"
          /\ UNCHANGED <<broken, lines, lost>>
        BY <1>5 DEF HandlerPanics, Routed, ChainTypeOK, logVars
    <2> QED
        BY <2>1 DEF DuringInv, TraceInv
<1>6. CASE recoverMiddleware(r)
    <2>1. /\ at[r] = "recover"
          /\ UNCHANGED <<broken, panicked, id, lines, lost, threshold>>
        BY <1>6 DEF recoverMiddleware, Begin
    <2>2. Enabled("error")' <=> Enabled("error")
        BY <2>1 DEF Enabled
    <2>3. PanicRecord(r)' = PanicRecord(r)
        BY <2>1 DEF PanicRecord, Record
    <2>4. r \notin broken /\ (lost = {} => Logged(lines, r, <<>>))
        BY <2>1 DEF DuringInv, TraceInv
    <2>5. CASE Enabled("error")
        <3>1. at'[r] = "panic log" /\ event'[r] = PanicRecord(r)
            BY <1>0, <1>6, <2>5 DEF recoverMiddleware, Begin, PanicRecord
        <3> QED
            BY <2>1, <2>2, <2>3, <2>4, <2>5, <3>1 DEF DuringInv, TraceInv
    <2>6. CASE ~Enabled("error")
        <3>1. at'[r] = "access"
            BY <1>0, <1>6, <2>6 DEF recoverMiddleware
        <3>2. Panics(r)' = <<>>
            BY <2>2, <2>6 DEF Panics
        <3> QED
            BY <2>1, <2>4, <3>1, <3>2 DEF DuringInv, TraceInv
    <2> QED
        BY <2>5, <2>6
<1>7. CASE accessLogMiddleware(r)
    <2>1. /\ at[r] = "access"
          /\ UNCHANGED <<panicked, id, input, lines, lost, threshold>>
        BY <1>7 DEF accessLogMiddleware, AccessLogged, Begin, logVars
    <2>2. \A level : Enabled(level)' <=> Enabled(level)
        BY <2>1 DEF Enabled
    <2>3. Panics(r)' = Panics(r)
        BY <2>1, <2>2 DEF Panics, PanicRecord, Record
    <2>4. r \notin broken /\ (lost = {} => Logged(lines, r, Panics(r)))
        BY <2>1 DEF DuringInv, TraceInv
    <2>5. ASSUME NEW answer, AccessLogged(r, answer) PROVE DuringInv(r)' /\ TraceInv(r)'
        <3>1. response'[r] = answer /\ broken' = broken
            BY <2>5 DEF AccessLogged, ChainTypeOK
        <3>2. err'[r] = NoError
            BY <2>5 DEF AccessLogged, ChainTypeOK
        <3>3. CASE Enabled("info")
            <4>1. at'[r] = "access log"
                BY <1>0, <2>5, <3>3 DEF AccessLogged
            <4>2. event'[r] = CompletionRecord(r)'
                BY <1>0, <2>1, <2>5, <3>1, <3>3 DEF AccessLogged, Begin, CompletionRecord, Record
            <4>3. DuringInv(r)'
                BY <2>2, <2>4, <3>1, <3>3, <4>1, <4>2 DEF DuringInv
            <4>4. TraceInv(r)'
                BY <2>1, <2>3, <2>4, <4>1 DEF TraceInv
            <4> QED
                BY <4>3, <4>4
        <3>4. CASE ~Enabled("info")
            <4>1. at'[r] = "return"
                BY <1>0, <2>5, <3>4 DEF AccessLogged
            <4>2. Expected(r)' = Panics(r)'
                BY <2>2, <3>4, ExpectedFacts DEF TraceFacts
            <4>3. DuringInv(r)'
                BY <3>2, <4>1 DEF DuringInv
            <4>4. TraceInv(r)'
                BY <2>1, <2>3, <2>4, <4>1, <4>2 DEF TraceInv
            <4> QED
                BY <4>3, <4>4
        <3> QED
            BY <3>3, <3>4
    <2>6. ASSUME broken' = broken \cup {r}, at' = [at EXCEPT ![r] = "return"]
          PROVE  DuringInv(r)' /\ TraceInv(r)'
        <3>1. at'[r] = "return" /\ r \in broken'
            BY <1>0, <2>6
        <3>2. Expected(r)' = Panics(r)'
            BY <3>1, ExpectedFacts DEF TraceFacts
        <3>3. DuringInv(r)'
            BY <3>1 DEF DuringInv
        <3>4. TraceInv(r)'
            BY <2>1, <2>3, <2>4, <3>1, <3>2 DEF TraceInv
        <3> QED
            BY <3>3, <3>4
    <2> QED
        BY <1>7, <2>5, <2>6 DEF accessLogMiddleware
<1>8. CASE Msg(r)
    <2>1. /\ at[r] \in {"panic log", "access log"}
          /\ UNCHANGED <<panicked, broken, id, input, response, err>>
        BY <1>8 DEF Msg
    <2>2. threshold' = threshold
        BY <1>8 DEF Msg, Run, Write
    <2>3. \A level : Enabled(level)' <=> Enabled(level)
        BY <2>2 DEF Enabled
    <2>4. PanicRecord(r)' = PanicRecord(r) /\ CompletionRecord(r)' = CompletionRecord(r)
        BY <2>1 DEF PanicRecord, CompletionRecord, Record
    <2>5. Panics(r)' = Panics(r)
        BY <2>1, <2>3, <2>4 DEF Panics
    <2>6. CASE Run(r) /\ UNCHANGED at
        <3>1. UNCHANGED <<at, event, lines, lost>>
            BY <2>6 DEF Run
        <3>2. DuringInv(r)'
            BY <2>1, <2>3, <2>4, <3>1 DEF DuringInv
        <3>3. TraceInv(r)'
            BY <2>1, <2>5, <3>1 DEF TraceInv
        <3> QED
            BY <3>2, <3>3
    <2>7. CASE /\ Write(r)
               /\ at' = [at EXCEPT ![r] = IF @ = "panic log" THEN "access" ELSE "return"]
        <3>1. \/ at[r] = "panic log" /\ at'[r] = "access"
              \/ at[r] = "access log" /\ at'[r] = "return"
            BY <1>0, <2>1, <2>7
        <3>2. DuringInv(r)'
            <4>1. CASE at[r] = "panic log" /\ at'[r] = "access"
                BY <2>1, <4>1 DEF DuringInv
            <4>2. CASE at[r] = "access log" /\ at'[r] = "return"
                <5>1. err'[r] = NoError
                    BY <2>1, <4>2 DEF WholeInv
                <5> QED
                    BY <4>2, <5>1 DEF DuringInv
            <4> QED
                BY <3>1, <4>1, <4>2
        <3>3. CASE lost' # {}
            BY <3>2, <3>3 DEF TraceInv
        <3>4. CASE lost' = {}
            <4>1. lines' = Append(lines, Line(r)) /\ lost = {}
                BY <2>7, <3>4 DEF Write
            <4>2. lines \in Seq(LineType) /\ Line(r) \in LineType
                BY <1>0, <2>7, LineTyped DEF Write, LogTypeOK, LineType
            <4>3. Line(r).by = r /\ Line(r).record = event[r]
                BY DEF Line
            <4>4. CASE at[r] = "panic log" /\ at'[r] = "access"
                <5>1. event[r] = PanicRecord(r) /\ Logged(lines, r, <<>>)
                    BY <4>1, <4>4 DEF DuringInv, TraceInv
                <5>2. Panics(r) = <<PanicRecord(r)>>
                    BY <4>4 DEF Panics, WholeInv, DuringInv
                <5>3. <<>> \in Seq({event[r]}) /\ Append(<<>>, event[r]) = <<event[r]>>
                    OBVIOUS
                <5>4. Logged(Append(lines, Line(r)), r, Append(<<>>, event[r]))
                    BY <4>2, <4>3, <5>1, <5>3, OwnLine
                <5>5. Logged(lines', r, Panics(r)')
                    BY <2>5, <4>1, <5>1, <5>2, <5>3, <5>4
                <5>6. TraceInv(r)'
                    BY <4>4, <5>5 DEF TraceInv
                <5> QED
                    BY <3>2, <5>6
            <4>5. CASE at[r] = "access log" /\ at'[r] = "return"
                <5>1. event[r] = CompletionRecord(r) /\ Logged(lines, r, Panics(r))
                    BY <4>1, <4>5 DEF DuringInv, TraceInv
                <5>2. Enabled("info") /\ r \notin broken
                    BY <4>5 DEF DuringInv
                <5>3. Expected(r)' = Append(Panics(r), event[r])
                    BY <2>1, <2>3, <2>4, <2>5, <5>1, <5>2, ExpectedFacts DEF TraceFacts
                <5>4. Panics(r) \in Seq({PanicRecord(r), CompletionRecord(r)})
                    BY ExpectedFacts DEF TraceFacts
                <5>5. Logged(Append(lines, Line(r)), r, Append(Panics(r), event[r]))
                    BY <4>2, <4>3, <5>1, <5>4, OwnLine
                <5>6. Logged(lines', r, Expected(r)')
                    BY <4>1, <5>3, <5>5
                <5>7. TraceInv(r)'
                    BY <4>5, <5>6 DEF TraceInv
                <5> QED
                    BY <3>2, <5>7
            <4> QED
                BY <3>1, <4>4, <4>5
        <3> QED
            BY <3>3, <3>4
    <2> QED
        BY <1>8, <2>6, <2>7 DEF Msg
<1>9. CASE Return(r)
    <2>1. /\ at[r] = "return" /\ at'[r] = "done"
          /\ UNCHANGED <<panicked, broken, id, lines, lost, threshold>>
        BY <1>9 DEF Return, ChainTypeOK, logVars
    <2>2. \A level : Enabled(level)' <=> Enabled(level)
        BY <2>1 DEF Enabled
    <2>3. Panics(r)' = Panics(r)
        BY <2>1, <2>2 DEF Panics, PanicRecord, Record
    <2>4. Expected(r)' = Expected(r)
        <3>1. CASE err[r] = NoError
            <4>1. response' = response
                BY <1>9, <3>1 DEF Return
            <4> QED
                BY <2>1, <2>2, <4>1 DEF Expected, Record
        <3>2. CASE err[r] # NoError
            <4>1. r \in broken /\ r \in broken'
                BY <2>1, <3>2 DEF DuringInv
            <4> QED
                BY <2>3, <4>1, ExpectedFacts DEF TraceFacts
        <3> QED
            BY <3>1, <3>2
    <2>5. TraceInv(r)'
        BY <2>1, <2>4 DEF TraceInv
    <2>6. DuringInv(r)'
        BY <2>1 DEF DuringInv
    <2> QED
        BY <2>5, <2>6
<1> QED
    BY <1>1, <1>2, <1>3, <1>4, <1>5, <1>6, <1>7, <1>8, <1>9, <1>10, Zenon DEF Chain

LEMMA TellingHolds ==
    ASSUME HttpRecords \subseteq Records
    PROVE  PipelineSpec => []TellingInv
<1>1. PipelineInit => TellingInv
    <2> SUFFICES ASSUME PipelineInit PROVE TellingInv
        OBVIOUS
    <2>1. DOMAIN input = Requests /\ lines = <<>>
        BY DEF PipelineInit, LogInit
    <2>2. ASSUME NEW r \in Requests PROVE DuringInv(r) /\ TraceInv(r)
        <3>1. at[r] = "idle" /\ r \notin broken
            BY DEF PipelineInit
        <3>2. input[r].method = ""
            BY DEF PipelineInit
        <3>3. input[r] \notin Inputs
            BY <3>2, InputsAssumption
        <3>4. Logged(lines, r, <<>>)
            BY <2>1, NothingLogged
        <3> QED
            BY <3>1, <3>3, <3>4 DEF DuringInv, TraceInv
    <2> QED
        BY <2>1, <2>2 DEF TellingInv
<1>2. ChainTypeOK /\ LogTypeOK /\ AnswerInv /\ TellingInv /\ [PipelineNext]_allVars => TellingInv'
    <2> SUFFICES ASSUME ChainTypeOK, LogTypeOK, AnswerInv, TellingInv, [PipelineNext]_allVars
                 PROVE  TellingInv'
        OBVIOUS
    <2>0. DOMAIN input = Requests
        BY DEF TellingInv
    <2>1. ASSUME UNCHANGED <<logVars, chainVars>> PROVE TellingInv'
        <3> SUFFICES ASSUME NEW r \in Requests PROVE DuringInv(r)' /\ TraceInv(r)'
            BY <2>0, <2>1 DEF TellingInv, chainVars
        <3>1. DuringInv(r) /\ TraceInv(r)
            BY DEF TellingInv
        <3>2. /\ UNCHANGED <<at, input, id, err, response, panicked, broken>>
              /\ UNCHANGED <<event, threshold, lines, lost>>
            BY <2>1 DEF logVars, chainVars
        <3>3. /\ PanicRecord(r)' = PanicRecord(r) /\ CompletionRecord(r)' = CompletionRecord(r)
              /\ Panics(r)' = Panics(r) /\ Expected(r)' = Expected(r)
              /\ Enabled("error")' = Enabled("error") /\ Enabled("info")' = Enabled("info")
            BY <3>2 DEF PanicRecord, CompletionRecord, Panics, Expected, Record, Enabled
        <3>4. DuringInv(r)'
            BY <3>1, <3>2, <3>3 DEF DuringInv
        <3>5. TraceInv(r)'
            BY <3>1, <3>2, <3>3 DEF TraceInv
        <3> QED
            BY <3>4, <3>5
    <2>2. CASE OwnerStores \/ UNCHANGED allVars
        BY <2>1, <2>2 DEF OwnerStores, allVars, pipelineVars
    <2>3. ASSUME NEW r \in Requests,
                 EngineRejects(r) \/ requestContextMiddleware(r) \/ Chain(r)
          PROVE  TellingInv'
        <3>1. DOMAIN input' = Requests
            <4>1. CASE requestContextMiddleware(r)
                BY <2>0, <4>1 DEF requestContextMiddleware
            <4>2. CASE EngineRejects(r) \/ Chain(r)
                BY <2>0, <4>2 DEF EngineRejects, Chain, rejectProbeBodyMiddleware, NoRoute,
                   liveHandler, readyHandler, JSON, HandlerReturns, HandlerPanics, HandlerFails,
                   recoverMiddleware, accessLogMiddleware, Msg, Return
            <4> QED
                BY <2>3, <4>1, <4>2
        <3>2. ASSUME NEW q \in Requests PROVE DuringInv(q)' /\ TraceInv(q)'
            <4>1. DuringInv(q) /\ TraceInv(q) /\ FreshInv(q) /\ WholeInv(q)
                BY DEF TellingInv, AnswerInv
            <4>2. CASE q = r
                BY <2>0, <2>3, <4>1, <4>2, OwnTell
            <4>3. CASE q # r
                BY <2>0, <2>3, <4>1, <4>3, OthersTell
            <4> QED
                BY <4>2, <4>3
        <3> QED
            BY <3>1, <3>2 DEF TellingInv
    <2> QED
        BY <2>2, <2>3 DEF PipelineNext
<1> QED
    BY <1>1, <1>2, ChainTypeCorrect, ChainUsesLogger, LogTypeCorrect, AnswersHold, PTL
    DEF PipelineSpec

(* server.go:376-416: whatever the requests around it log, a request that    *)
(* went through the chain leaves its panic record and then one completion    *)
(* record with the status its client was sent, if the writer lost nothing.   *)
THEOREM RecordsAreTrue ==
    ASSUME HttpRecords \subseteq Records
    PROVE  PipelineSpec => []RecordsTellResponse
<1>1. TellingInv => RecordsTellResponse
    BY DEF TellingInv, TraceInv, RecordsTellResponse
<1> QED
    BY <1>1, TellingHolds, PTL
=============================================================================
