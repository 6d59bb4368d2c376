# FinalWeave: TLA+ specifications of the node's transport core

FinalWeave is the repository of a node whose protocol (consensus, data
availability, execution) is documented but not yet written. What exists as Go
code, and what these modules are about, is the part every later component will
stand on: the quorum arithmetic of a validator set, the readiness tracker, the
two transport adapters (gRPC and HTTP) with their start, stop and drain, their
request pipelines, their configuration, and structured logging. The protocol
documents under `doc/` are not modelled: nothing under `pkg/`, `internal/` or
`cmd/` implements them yet.

Paths below are relative to the repository root.

## 1. Inventory

| Component | Code | State it keeps | Operations | Hard part | What makes it correct |
|---|---|---|---|---|---|
| Quorum parameters | `pkg/types/quorum.go` | one immutable tuple n, f, q, k; the zero value is invalid | `NewQuorumParameters`, five accessors, `mustBeValid` | bounds 4 and 253, counts that are not 3f+1, the zero value | any two quorums share an honest member; honest members form a quorum; an invalid value never yields a threshold |
| Readiness tracker | `pkg/api/health/readiness.go` | one atomic word | `NewTracker`, `Store`, `Snapshot` | stray or free-text reasons | readers only see normalised values |
| gRPC health bridge | `pkg/api/grpcserver/health.go` | `stopped` and the status the gRPC health service publishes | `refresh`, `shutdown` | the snapshot is taken before the mutex; `Watch` streams are asynchronous | never SERVING after a stop; no stream misses a publication; the status follows the tracker |
| gRPC adapter lifecycle | `pkg/api/grpcserver/server.go` | `state`, `listener`, `serveDone`, `shutdownDone`, `shutdownErr` under `mu` | `Serve`, `Shutdown`, `RefreshHealth`, the `GracefulStop` goroutine | any number of concurrent calls, a deadline racing a drain, a `Serve` that fails by itself | one `Serve` at a time, one stop, one shared result, nothing left running, every call returns |
| HTTP adapter lifecycle | `pkg/api/httpserver/server.go` | the same fields, and a state `starting` | `Serve` with its `BeforeServeFunc`, `Shutdown`, `waitForServeExit` | a stop in each of the windows of the startup | as above; a stop during startup prevents serving |
| gRPC request interceptors | `pkg/api/grpcserver/interceptors.go` | per request: identifier, derived context, log records; a counter of identifiers | unary and stream interceptors, metadata limit, panic recovery, completion log | root cancellation racing the start of a handler | requests end with the root and their timeout, no late success, panics stay inside, one completion record, nothing leaks |
| HTTP request pipeline | `pkg/api/httpserver/server.go` | per request: identifier, timeout context, response so far; a counter of identifiers | middleware chain, error mapping, `/livez`, `/readyz` | a panic, an error or an encoding failure in each layer; the tracker changes meanwhile | every answer is whole and was true while the request was served; one record that agrees with it; no context left |
| Transport configuration | `pkg/api/grpcserver/config.go`, `pkg/api/httpserver/server.go`, `New` of both | none | `DefaultConfig`, `validate`, `New` | products checked by unsigned divisions; a transport limit that is not the configured one | exactly the bounded configurations are accepted, and accepted ones bound the memory of a connection |
| Structured logging | `pkg/observability/logging.go` | a sequence counter, a locked writer | `NewLogger`, `NopLogger`, `Component`, the level methods, `metadataHook.Run` | the counter and the write are separate steps, and the write may fail | every number is accounted for, and lines are displaced within a known window |
| Command line, build info | `internal/`, `cmd/` | none | argument parsing, printing | none | not modelled: no state |

How they interact. The runtime owner stores readiness in the tracker and calls
`RefreshHealth`; the bridge projects the tracker into the gRPC health service,
and so does the interceptor of every health `Check`, `List` or `Watch` before the
handler runs. `Server.Serve` and
`Server.Shutdown` of the gRPC adapter call the bridge's `shutdown` with
`Server.mu` held. The HTTP adapter reads the tracker on `/readyz`. Every
request of either transport writes its records through loggers derived from one
`Logger`, so requests meet in its sequence and its writer. Both
adapters are driven by goroutines of the caller (`Serve` in one, `Shutdown` in
others), drive a third-party engine (grpc-go, Fiber on fasthttp) whose own
goroutines run the requests, and share the two channels `serveDone` and
`shutdownDone` between the calls.

## 2. Modules

| Module | What it is |
|---|---|
| `QuorumParams` | `quorum.go`: constructor, accessors, validity, over one caller's value |
| `Readiness` | the readiness codes, `encode` and `decode` (no state) |
| `HealthBridge` | EXTENDS `Readiness`: tracker, bridge, gRPC health service with `Watch` streams |
| `GrpcServer` | EXTENDS `HealthBridge`: the gRPC adapter composed with the bridge it owns and with grpc-go |
| `GrpcRequest` | EXTENDS `HealthBridge`: the unary and the stream interceptor around their handlers, with the bridge they refresh |
| `HttpServer` | the HTTP adapter composed with Fiber |
| `Logging` | the logger: construction, and events of any number of goroutines |
| `HttpRequest` | EXTENDS `HealthBridge` and `Logging`: the middleware chain and the probes, with the tracker they read and the logger they write to |
| `Config` | the configurations of both adapters and what `New` makes of them |
| `Lifecycle` | the abstract lifecycle that both adapters implement |
| `QuorumProofs`, `HealthBridgeProofs`, `GrpcServerProofs`, `HttpServerProofs`, `LoggingProofs`, `HttpRequestProofs`, `GrpcRequestProofs`, `ConfigProofs` | the theorems |
| `MC*` | the instances TLC checks |

Conventions. A goroutine is an element of a constant set (`Servers`,
`Stoppers`, `Callers`) with a program counter; a critical section of a mutex is
one step, and everything between two critical sections that another goroutine
can observe is a step of its own. An error is the set of its causes, `{}` is a
nil error and `errors.Join` is union. A channel is `"nil"`, `"open"` or
`"closed"`; closing one that is not open makes it `"panic"`, which the type
invariants exclude. Operators whose comment says *a faulty variant* are
plausible bugs of the operator that follows them; no specification uses them,
they exist to show that each property can fail.

### 2.1 QuorumParams

`params` is the value a caller holds, `err` and `out` the outcomes of the last
constructor and accessor call. `NewQuorumParameters` is an action with the three
exits of the code; `Access` reads a field or panics according to `mustBeValid`.
The properties quantify over validator sets drawn from `Validators`, so
`QuorumsIntersect` is a statement about sets of members, not about numbers.

### 2.2 HealthBridge

`refresh` is two actions: `RefreshLoad` (the atomic load, before the lock) and
`RefreshPublish` (the critical section). `bridgeShutdown` is an action formula
used by `HealthShutdown` and by `GrpcServer`. External: the health service of
grpc-go. `SetServingStatus` overwrites the unread update of every open stream;
`WatchOpen` enqueues the current status; `WatchReceive` takes the update from the
channel into `received` and `WatchSend` sends it, so an update taken before a stop
may be sent after it; `WatchEnd` removes the stream. The service's own shutdown
flag, which would also refuse later updates, is left out: the bridge must not need
it. The history variables `stored`, `fresh` and `settled` record
the last `Store`, the refreshes whose load came after it, and whether one of
those has completed; no action reads them.

### 2.3 GrpcServer

| Code | Actions |
|---|---|
| `Serve`, entry switch | `ServeNil`, `ServeFirst`, `ServeDuplicate`, `ServeTooLate` then `ServeCloseRefused` |
| `Serve`, after the engine returned | `ServeEpilogue` |
| `Shutdown`, argument checks and switch | `ShutdownInvalid`, `ShutdownIdle`, `ShutdownStopped`, `ShutdownJoin`, `ShutdownServing` |
| `Shutdown`, expired context | `ShutdownExpired`, then `StopFiresQuit`, `StopReturns`, `AwaitServe` |
| `Shutdown`, graceful | `ShutdownGraceful`, `SelectGracefulDone` or `SelectContextDone`, `AwaitGraceful`, `AwaitServe` |
| `finishShutdown`, `waitForShutdown` | the actions of those names; `ShutdownReturn` is the return to the caller |
| the goroutine that runs `GracefulStop` | `GracefulFiresQuit`, `GracefulDrains`, `GracefulReturns` |

External, from how the adapter uses grpc-go: `Serve` on a stopped server closes
the listener and returns `ErrServerStopped`; otherwise it accepts until the quit
event or a failure, and after a quit it waits for the stop to be complete.
`Stop` and `GracefulStop` fire quit, close the registered listener and wait for
the accept loop; `Stop` then closes connections, cancelling their RPCs without
waiting for handlers, and `GracefulStop` waits until no handler is left. Clients
are one connection and a set of RPCs; a client that drops its connection is not
modelled. `None` is the nil listener.

### 2.4 HttpServer

As above with the state `starting`: Fiber calls `BeforeServeFunc` (`BeforeServe`)
before its engine knows the listener (`EngineRegister`), and between the two the
state is already `serving`. Shutdown during startup closes the listener itself
(`CloseListener`); afterwards it calls `ShutdownWithContext`, which is external:
with no registered listener it has nothing to do (`EngineNotRunning`), otherwise
it closes the listeners (`EngineStop`) and returns after the drain with the close
error (`EngineDrained`) or with the context's (`EngineDrainExpires`).
`waitForServeExit` is `ServeExited` or `ServeExitExpires`: the `select` may take
either when both are ready. `OwnerCloses` is the caller of `Serve` closing the
listener it owns. `origin` is a history variable: which of the three kinds of
stop a Shutdown call performed.

### 2.5 GrpcRequest

| Code | Actions |
|---|---|
| the call, `requestIDFromMetadata`, `WithCancel`, `AfterFunc` | `Arrive` |
| `root.Err()` and `WithTimeout` in `deriveRequestContext` | `CheckRoot`; `TimeoutExpires` afterwards |
| `SetHeader` and the metadata budget | `SetHeader`, with `metadataSize` and `saturatingAdd` |
| `healthRefresher` of health methods | `InterceptorLoad`, `InterceptorPublish` (the two halves of the bridge's `refresh`) |
| `requestContext.Err()` before and after the handler | `CheckContext`, `Recheck` |
| the deferred functions | `Deferred` (recover, `logPanic`, `logCompletion`), then `Cleanup` |
| what grpc-go sends after the interceptor returned (external) | `GrpcAnswers`, into `answer` |

An error is its gRPC code, `"OK"` for nil, or one of the raw `ContextErrors` that a
handler returned as they are. `logCompletion` names the code of the interceptor's
error (`StatusCode`), which need not be the code the client is given: a raw context
error is logged as Unknown and sent as Canceled or DeadlineExceeded (`FromError`),
and the answer of a successful unary request may still fail to be sent
(ResourceExhausted, as in `security_test.go:38-46`, or Internal), which nothing
logs. The two interceptors differ in the timeout and in the second context check,
which only unary requests have, so they are one set of actions over `Unaries`
and `Streams`. External: the handler (`HandlerReturns`, `HandlerPanics`), the
client (`ClientLeaves`, which may happen before the first step of the
interceptor), the owner of the root (`CancelRoot`), and the goroutine that
`context.AfterFunc` starts (`AfterFuncRuns`), which runs at any later time, even
when the request is over. A context keeps the first reason it ended for. A
request's metadata is chosen when it is read, which is the only time it matters;
it is the sequence of its fields (in the order the Go map happened to be visited)
with the lengths of name and value, `metadataSize` is the loop over them as a
recursive function, and sums are taken modulo `WordSize` as `uint64` sums are
modulo 2^64. `late`, `handled`, `panicked` and `overran` are history; of these
only `panicked` is read, as what `recover` returns.

### 2.6 Logging

An event is three steps of its goroutine: `Begin` (a level method, which yields
an event or, below the threshold, nothing), `Run` (the hook that `Msg` calls,
which draws the number) and `Write` (the `SyncWriter`, one atomic write per
event). zerolog drops the error of a failed write, so `Write` may append the line
or lose it. The initial states are those of every logger that `NewLogger`
returns for `LogConfigs`, or `NopLogger`. Component loggers share the sequence
and the writer, so they need no state. A line is its writer, its number and its
record; its text and timestamp are left out. The number is a natural number:
2^64 events are out of reach of a process.

### 2.7 HttpRequest

| Code | Actions |
|---|---|
| `requestContextMiddleware`, down and up (the deferred `cancel`) | `requestContextMiddleware`, `Return` |
| `accessLogMiddleware` | `accessLogMiddleware`, then `Msg` |
| `recoverMiddleware` after a panic | `recoverMiddleware`, then `Msg` |
| `rejectProbeBodyMiddleware`, `liveHandler`, `readyHandler` | the actions of those names |
| `stableErrorHandler`, `errorStatus`, `errorCode` | `stableError`, `errorStatus`, `errorCode`; `Unencoded` when the JSON encoder fails after the status was set, which leaves the body as it was |
| `Tracker.Store` by the runtime owner | `OwnerStores` |

A request goes down the chain in one step up to its route (nothing in between is
visible to others) and comes up with a response, an error or a panic. `err` is
`NoError`, a Fiber error with a code, or `OtherError`, which has none. External: fasthttp, which
refuses requests before the chain (`EngineRejects`); Fiber's router (`NoRoute`)
and its error path, which calls the `ErrorHandler` and falls back to a 500 whose
text is written only where there is no body (`FiberAnswers`, `SendStatus500`); a
handler that panics (`HandlerPanics`) or returns an error, Fiber's with any code or
another (`HandlerFails`), in both cases perhaps with a response already set
(`LeftBehind`). `panicked` (as what `recover` returns), `broken` and `seen` are
history. Nothing in the chain or in the probes reads the request's context, so
the request timeout and the root's cancellation change no response, and the only
thing to say of the context is that it is released.

### 2.8 Config

`HttpNew` and `GrpcNew` are calls of the two `New` functions with any
configuration of a set and any of their other arguments nil; `result` is their
error. `Divided` keeps the order of the code: the range checks come first, and a
division by zero would be a panic. `uint64` wraps, so a negative `int` becomes a
large word. `GrpcOptions` is what `grpc.NewServer` and the interceptors are given.
The check of header bytes times streams (`config.go:115-121`) can never fire,
because the ranges already imply it; `NewAcceptsExactly` therefore states the
accepted configurations without it.

### 2.9 Lifecycle

Three variables, `phase`, `result` and `answer`, and six actions: a server
starts at most once, stops once, and answers every Shutdown caller with the
result of that stop, never earlier. Both adapters implement it with
`phase <- state` (`starting` and `serving` are `running`), `result <-
shutdownErr` and `answer <-` what each bounded Shutdown call returned. A call
with a nil or unbounded context is refused before it touches the lifecycle and
maps to no abstract answer.

## 3. Runs

| Run | Config | Bounds | Checks |
|---|---|---|---|
| `quorum` | `MCQuorum.cfg` | counts -4..260 and three large ones; validator sets over 7 members | fail-closed accessors, quorum intersection, honest quorums |
| `health_overlap` | `MCHealthOverlap.cfg` | 2 refreshing goroutines, 1 stream, 2 stores out of 4 values | no SERVING after a stop, no lost publication; convergence and the last word to streams |
| `health_stale` | `MCHealthStale.cfg` | 2 refreshing goroutines | a completed fresh refresh leaves the tracker's status, violated (finding 1) |
| `grpc_safety` | `MCGrpcSafety.cfg` | 2 `Serve`, 2 `Shutdown`, 2 RPCs, 1 refreshing goroutine, 1 store | type and channels, one `Serve`, health during a stop, listeners released, nothing left running, success means drained |
| `grpc_progress` | `MCGrpcProgress.cfg` | 2 `Serve`, 2 `Shutdown`, 1 RPC | every call returns; refinement of `Lifecycle` |
| `grpc_collapse` | `MCGrpcCollapse.cfg` | 1 of each | "drain, then Stop" violated (finding 2) |
| `grpc_request` | `MCGrpcRequest.cfg` | 1 unary health request, 1 stream, 2 metadata values, words of 8 bits, limit 80, 1 store | dead root, metadata budget, completion records, late success, earned success, leaks; every request ends |
| `http_safety` | `MCHttpSafety.cfg` | 2 `Serve`, 2 `Shutdown`, 2 requests | type and channels, one `Serve`, startup stop, success means exited and drained |
| `http_progress` | `MCHttpProgress.cfg` | 2 `Serve`, 2 `Shutdown`, 1 request | every call returns; refinement of `Lifecycle` |
| `http_window` | `MCHttpWindow.cfg` | 1 of each | `Serve` returns after `Shutdown`, violated (finding 3) |
| `http_request` | `MCHttpRequest.cfg` | 2 requests, 5 inputs, 2 engine errors, 2 handler errors, 1 store of 2 values, 3 log levels | type and statuses, probes current, answers whole, records agree with answers, numbers accounted for, lines within their window; every request is answered and its context released |
| `config` | `MCConfig.cfg` | every field at and beyond its limits, pairs and triples for the products | `New` accepts exactly the bounded configurations; budgets of a gRPC connection |

Why the bounds are enough. The adapters are single-use and symmetric in their
callers: a second `Serve` call shows every interaction of a refused call with an
accepted one, and a second `Shutdown` call every interaction of an owner of the
stop with a joining or a late caller; a third caller only repeats the second.
Two requests allow one to be finished while the other is cut short. Contexts are
chosen freely per call from nil, unbounded, live and already expired, and a live
one may expire at any step. Two stores are needed for a stale snapshot (ready,
then not), and two overlapping refreshes for it to be published. For the quorum
arithmetic every count of the accepted range is enumerated; the set-based
properties are checked on the two smallest sizes and proved for all.
Symmetry is used only in the two safety runs, over callers (and HTTP requests)
that no formula distinguishes. Deadlock checking is off where the system may
come to rest: a stopped adapter whose callers have all returned takes no
further step. The gRPC liveness run has no refreshing goroutine because the
adapter never waits for one. In `grpc_request` the two requests meet only in the
root context, the identifier counter and the bridge; one of them has a timeout
and refreshes, the other has neither. The metadata values are two
nearly empty fields, exactly at the limit and one byte over it, and over it only
because every field counts for 32 bytes more than its text. A sum that wraps cannot
arrive behind the transport's ceiling on header bytes, so `saturatingAdd` is left to
theorem `SizeIsExactOrSaturated`.

In `http_request` two requests are enough for one to log between the two steps of
the other's event and for lines to change places; one brings its own identifier.
A store while a probe is between its snapshot and its answer needs one store, and
both stored values need normalising (ready with a reason, not ready with a free
text). The codes of the handlers' Fiber errors, 302 and 600, are on either side of
the range that `errorStatus` accepts. The log configurations include ones that `NewLogger` refuses, and levels
at which neither, one or both kinds of record are written. In `config` the
numbers are the code's own, except that a second has ten ticks (TLC has 32-bit
integers), a word has 10^9 values, more than any size that passes a range check,
and configurations whose products exceed 32 bits are left out; the theorems have
neither limit.

### Fairness

Weak fairness of the steps of a goroutine that is already inside a call
(`ServeStep`, `ShutdownStep`, `GracefulStep`): the Go scheduler runs a goroutine
that can run. A bounded context expires (`ContextExpires`): Shutdown refuses a
context without a deadline. A gRPC handler whose context was cancelled returns
(`RpcAbort`), because `GracefulStop` waits for handlers and the adapter waits for
`GracefulStop`: this is what the interceptors' contexts are for, and it is the
only assumption on handlers. Nothing is assumed of handlers and requests that
are not cancelled, of clients, of listener failures, of listener owners, or of
calls that have not been made. In `HealthBridge`, `StatusConverges` assumes that
health clients keep polling (weak fairness of the refresh of every caller), which
the code does not guarantee by itself: without a later refresh the status keeps
whatever was published last (finding 1). A stream takes its updates and sends them
(weak fairness of `Watch`).
In `GrpcRequest`: the steps of the interceptor and of the `AfterFunc` goroutine,
the unary timer, and, as above, a handler whose context has ended returns. A
stream whose client stays and whose root is never cancelled need not end. Nothing is
assumed of the answer that grpc-go sends.
In `HttpRequest`: a goroutine in the chain runs on, and the log writer returns
from every write, successful or not. Logging is synchronous, so a writer that
blocks would block the requests: that is the code's design, and the owner of the
writer answers for it. Nothing is assumed of requests that have not arrived.

## 4. Findings

1. **A refresh may publish a stale snapshot** (`health_stale`).
   `health.go:27` loads the tracker before `health.go:31` takes the mutex, so of
   two overlapping refreshes the older snapshot may be published last.
   `server.go:123-125` tells runtime owners to call `RefreshHealth` after a state
   change to notify `Watch` streams; the notification can be undone by a
   concurrent `Check` that started before the change. With a single refreshing
   goroutine the property holds (theorem `SerialRefreshSettles`).
2. **Shutdown after a failed Serve does not stop grpc-go** (`grpc_collapse`).
   When the accept loop fails, `Serve` marks the adapter stopped
   (`server.go:168-172`) without `Stop`; later Shutdown calls return nil at once
   while RPCs on established connections go on. The comment at
   `server.go:181-182` promises a drain, then a forced Stop.
3. **An HTTP Shutdown in the startup window leaves Serve running**
   (`http_window`). Between `BeforeServeFunc` and the registration of the
   listener, `ShutdownWithContext` has nothing to close. Shutdown reports its
   deadline, the adapter is stopped, and the engine then begins to accept; no
   later call can end it.

## 5. Proofs

All theorems hold for every value of the constants, under the named assumptions
of the modules (`Counts \subseteq Int`, `Validators` finite, stored values are
readiness values, `MaxStores` is a natural number, `None` is not a listener,
`Goroutines` finite and requests among them, engine errors in 400..599, handler errors integers, request
lines that name a method, configurations with integer fields and a word larger
than 64 MiB; for the gRPC interceptors, requests of one kind each, health requests
among the callers of the bridge, metadata that are sequences of fields, a word that
holds at least the number 32, and a limit below the last word).

- `QuorumProofs`. `IInv` adds to the type invariant that the value held is
  either the zero value or what `Derive` gives for an accepted count; TypeCorrect,
  FailClosed and ValidMeansConstructed follow from it by arithmetic.
  `QuorumIntersection` and `HonestQuorum` need cardinalities of unions and
  differences from the finite-set theorems: |A n B| = |A| + |B| - |A u B| >= 2q - n.
- `HealthBridgeProofs`. `HealthInv` is the conjunction of the type invariant,
  "a stopped bridge says NOT_SERVING", "every open stream has sent, has in hand
  or holds the last status", and "the tracker holds the code of the last stored value", which
  together are inductive. `SerialRefreshSettles` assumes a single caller and adds
  `SerialInv`, which relates what that caller loaded to the tracker.
  `StopEndsServing`, an action property, is the safety half of
  `ShutdownReachesWatchers`: after the stop no stream takes SERVING from its channel,
  and what is sent as SERVING was in hand when the bridge stopped.
- `HttpServerProofs`. `HttpInv` ties the channels, the listener and the program
  counters to `state`: a channel is open exactly while its close is to come
  (`ChannelInv`), the listener marks the one call inside Fiber (`EngineInv`), a
  stop has exactly one owner (`OwnerInv`), only a stop can have come from a
  startup (`StartupInv`), and what a returning caller holds is the stored result
  (`ResultInv`). Without `OwnerInv` two initiators could each close
  `shutdownDone`; without `ResultInv` a caller could answer with something other
  than the stored result. The refinement of `Lifecycle` (`Refinement`) maps each
  step to one abstract action or to a stutter. On top of `HttpInv`, three invariants
  say what a nil result means: an owner about to store success has seen `serveDone`
  closed (`LeftInv`); the engine learns of one listener at most, and a stop that
  reached it has closed that one (`RegisteredInv`); such a stop without an error has
  drained every request, and none starts afterwards because no listener is bound
  (`DrainInv`). `HttpStopIsFinal` and `HttpResultIsShared` are
  proved once of the abstract steps (`AbstractStep`) and reach the adapter through
  the refinement.
- `GrpcServerProofs`. Every step of the adapter is, for the bridge, a step of
  `HealthBridge` or none, so `HealthInv` is reused as proved there; `BridgeInAdapter`
  states this for whole behaviours. `GrpcInv` adds the counterparts of the HTTP
  invariants and what grpc-go's two events need: a stop has begun before `quit`
  fires and `graceful` is bound to both (`QuitInv`), no accept loop, connection or
  uncancelled RPC is left when the engine is done (`DoneInv`), a `Serve` call that
  has left the engine has no open listener (`BoundInv`), and an RPC is cut short
  only while, or after, a stop reports the expiry of its context (`ForcedInv`).
  Without `DoneInv` the `select` that sees the graceful end could not be told from
  one that sees the deadline; without `ForcedInv` a later caller could be given
  success for a stop that cancelled RPCs. `GrpcRefinement` maps each step to an
  abstract action or a stutter, and `GrpcStopIsFinal` and `GrpcResultIsShared` follow
  from it as for HTTP.
- `LoggingProofs`. `AccountInv` adds to `NumbersAccounted` that no two goroutines
  hold the same number, that no line or loss has a number still held, and that the
  sets involved are finite, so that the count of the numbers can follow each step.
  `WindowInv` is the argument for the window: every number below a written one that
  is still to be written is held by another goroutine, so the lines yet to come
  behind line i, and those already behind it, together are fewer than the
  goroutines.
- `HttpRequestProofs`. Every step of the chain is, for the tracker, a step of
  `HealthBridge` (`ChainReadsHealth`) and, for the logger, a step of `Logging`
  (`ChainUsesLogger`, assuming that the chain's records are among the logger's), so
  their theorems hold of it (`ChainLogsNumbered`). `AnswerInv` has two parts.
  `FreshInv`: a request that is being served has seen the tracker's word, one that
  has not reached its handler has no body, and a body that speaks of readiness says
  a word that was seen. `WholeInv`: what is settled of the answer at each place on
  the way up; in particular a request that panicked carries the error 500 until it
  is the response, and whatever reaches Fiber as an error belongs to a `broken`
  request and gives a 500, possibly with a body that a failing handler had set.
  `RecordsAreTrue` rests on `TellingInv`: `DuringInv` says which record a request
  holds while it logs and that a request which has not entered the chain carries
  none of its inputs (these name a method, so a request that the engine refused is
  told apart), `TraceInv` which of its lines are written at each place.
  "The lines of r are s" is a placement that preserves the order (`Logged`), so a
  line of another request leaves it as it is (`OthersLine`) and an own one extends
  it (`OwnLine`).
- `GrpcRequestProofs`. `SizeIsExactOrSaturated` compares the loop of
  `metadataSize` with the sum of the integers for metadata of any length, by
  induction over the number of fields visited; the induction is over a set of
  numbers, since the prover cannot use induction theorems that take a predicate. It
  gives the only fact the budget needs: within the limit for the code is within the
  limit. Every step is for the bridge a step of `HealthBridge`
  (`InterceptorsUseBridge`), because only health requests refresh (`RefreshInv`).
  `CallInv(r)` is about one request, so a step of another one keeps it as it is
  (`OthersSame`), and there is one lemma per action for the request that moves. Its
  parts: a late request finds the root dead, and its context ended once past
  `CheckRoot` (`RootInv`); where a request may be once handled, panicked or overrun
  (`PlaceInv`); fields between the budget and the handler are within it
  (`BudgetInv`); nothing is logged before the deferred function and all of it after
  (`RecordInv`); an overrun unary request is ended and leaves with an error
  (`OverrunInv`); a done request has nothing live or registered (`LeakInv`); a request that is to be
  told OK was handled and did not panic, and what was answered follows from its
  error (`ResultInv`, from which `OnlyEarnedSuccess`). Without
  `PlaceInv` the properties are not inductive: a request that already counts as
  overrun, handled or panicked could pass a check a second time.
- `ConfigProofs`. No induction over steps is needed beyond "the result is that of
  the last call"; the work is in the lemma that a quotient of words decides a
  product (`LimitByDivision`), that the range checks keep every word from wrapping
  (`WordFits`), and that the ranges alone bound header bytes times streams
  (`StreamsFitHeaders`).

Only model-checked: what holds under fairness (`ShutdownReturns`, `ServeReturns`,
`StatusConverges`, `ShutdownReachesWatchers`, `RequestsEnd`, `RequestsAnswered`),
which the prover does not handle. Every invariant, action property and refinement
that a passing run checks is also a theorem. Proved and no longer
checked by a run of its own: the type invariants of `QuorumParams`,
`HealthBridge` and `GrpcRequest`, `OnlyConstructedValuesAreValid` and `SnapshotIsNormalised` (the
HTTP run still checks the type invariant of `HealthBridge` within its own).

## 6. Not modelled, and the plan

The nil-receiver and zero-value panics (`mustServer`, `mustApp`, nil trackers)
are programming errors of the caller. Time is the event "the context expires".
TLS, wire formats and the contents of requests do not matter to the lifecycle.
The text of log lines and JSON bodies, timestamps and durations, response headers
and the characters of identifiers carry no control. `RequestID` returns what
`requestContextMiddleware` stored.
Argument parsing and build information have no state; the scripts under
`scripts/` check files of the repository and are no part of the node.

With that, every component that keeps state is modelled, and every safety property
the runs check is proved. What is left stays with TLC: the liveness properties, and
the three violations of section 4, which are counterexamples.
