----------------------------- MODULE GrpcServer -----------------------------
(***************************************************************************)
(* pkg/api/grpcserver/server.go: the single-use lifecycle of the gRPC      *)
(* adapter, composed with the health bridge it owns (HealthBridge) and     *)
(* with the grpc-go server it drives (external).                           *)
(*                                                                         *)
(* Each Serve and each Shutdown call is a goroutine with a program         *)
(* counter; a critical section of Server.mu is one step.  The bridge has   *)
(* its own mutex, but Server.state is only read under Server.mu, so a      *)
(* refresh that slips between the assignment of state and bridgeShutdown   *)
(* is the same as one just before the critical section.                    *)
(*                                                                         *)
(* An error is the set of its causes: {} is nil and errors.Join is union.  *)
(***************************************************************************)
EXTENDS HealthBridge

CONSTANTS
    Servers,    \* goroutines that call Serve, each with a listener of its own
    Stoppers,   \* goroutines that call Shutdown
    Rpcs,       \* the RPCs clients send
    None        \* no listener

ASSUME NoneAssumption == None \notin Servers

VARIABLES
    state,          \* Server.state
    listener,       \* Server.listener: the Servers element it belongs to
    serveDone,      \* the channels: "nil", "open", "closed" (or "panic")
    shutdownDone,
    shutdownErr,    \* Server.shutdownErr
    spc, serr,      \* per Serve call: program counter and error
    pc, err, ctx,   \* per Shutdown call: program counter, error, context
    bound,          \* the listeners that are open
    quit,           \* external: grpc-go's quit event has fired
    engineDone,     \* external: grpc-go's done event has fired
    graceful,       \* the goroutine that runs GracefulStop
    conn,           \* external: the client connection
    rpc             \* external: per RPC, how far it got

adapterVars == <<state, listener, serveDone, shutdownDone, shutdownErr>>
serveVars   == <<spc, serr>>
stopVars    == <<pc, err>>
engineVars  == <<quit, engineDone, conn, rpc>>
grpcVars    == <<healthVars, adapterVars, serveVars, stopVars, ctx, bound, engineVars,
                 graceful>>

(* Sentinels of server.go:22-40 and the causes that come from outside. *)
ErrNilListener              == {"nil listener"}
ErrServerAlreadyServing     == {"already serving"}
ErrServerStopped            == {"adapter stopped"}
ErrNilShutdownContext       == {"nil context"}
ErrUnboundedShutdownContext == {"unbounded context"}
EngineStopped               == {"grpc.ErrServerStopped"}
AcceptError                 == {"accept"}
CloseError                  == {"close"}
ContextError                == {"context"}

Contexts == {"nil", "unbounded", "live", "expired"}

Bounded(c) == ctx[c] \in {"live", "expired"}

closeChan(ch) == IF ch = "open" THEN "closed" ELSE "panic"

(* External: the listeners grpc-go accepts on, and closes when it stops. *)
Registered == {s \in Servers : spc[s] = "accepting"}

-----------------------------------------------------------------------------
(* Serve. *)

ServeNil(s) ==
    /\ spc[s] = "start"
    /\ spc' = [spc EXCEPT ![s] = "done"]
    /\ serr' = [serr EXCEPT ![s] = ErrNilListener]
    /\ UNCHANGED <<healthVars, adapterVars, stopVars, ctx, bound, engineVars, graceful>>

ServeFirst(s) ==
    /\ spc[s] = "start"
    /\ state = "idle"
    /\ state' = "serving"
    /\ listener' = s
    /\ serveDone' = "open"
    /\ shutdownDone' = "open"
    /\ spc' = [spc EXCEPT ![s] = "engine"]
    /\ UNCHANGED <<healthVars, shutdownErr, serr, stopVars, ctx, bound, engineVars, graceful>>

ServeDuplicateAllowed(s) ==   \* a faulty variant: a second Serve goes through
    /\ spc[s] = "start"
    /\ state = "serving"
    /\ spc' = [spc EXCEPT ![s] = "engine"]
    /\ UNCHANGED <<healthVars, adapterVars, serr, stopVars, ctx, bound, engineVars, graceful>>

ServeDuplicate(s) ==
    /\ spc[s] = "start"
    /\ state = "serving"
    /\ spc' = [spc EXCEPT ![s] = "done"]
    /\ serr' = [serr EXCEPT ![s] = ErrServerAlreadyServing]
    /\ UNCHANGED <<healthVars, adapterVars, stopVars, ctx, bound, engineVars, graceful>>

ServeTooLateLeak(s) ==   \* a faulty variant: the refused listener stays open
    /\ spc[s] = "start"
    /\ state \in {"stopping", "stopped"}
    /\ spc' = [spc EXCEPT ![s] = "done"]
    /\ serr' = [serr EXCEPT ![s] = ErrServerStopped]
    /\ UNCHANGED <<healthVars, adapterVars, stopVars, ctx, bound, engineVars, graceful>>

(* The refusal, and the close of the refused listener after the unlock.      *)
ServeTooLate(s) ==
    /\ spc[s] = "start"
    /\ state \in {"stopping", "stopped"}
    /\ spc' = [spc EXCEPT ![s] = "refused"]
    /\ UNCHANGED <<healthVars, adapterVars, serr, stopVars, ctx, bound, engineVars, graceful>>

ServeCloseRefused(s) ==
    /\ spc[s] = "refused"
    /\ bound' = bound \ {s}
    /\ spc' = [spc EXCEPT ![s] = "done"]
    /\ \E closeErr \in {{}, CloseError} :
           serr' = [serr EXCEPT ![s] = ErrServerStopped \cup closeErr]
    /\ UNCHANGED <<healthVars, adapterVars, stopVars, ctx, engineVars, graceful>>

(* External: grpc.Server.Serve.  After Stop or GracefulStop it closes the    *)
(* listener and reports ErrServerStopped; otherwise it accepts until the     *)
(* quit event, or until the listener fails.                                  *)
EngineServe(s) ==
    /\ spc[s] = "engine"
    /\ IF quit
       THEN /\ spc' = [spc EXCEPT ![s] = "returned"]
            /\ serr' = [serr EXCEPT ![s] = EngineStopped]
            /\ bound' = bound \ {s}
       ELSE /\ spc' = [spc EXCEPT ![s] = "accepting"]
            /\ UNCHANGED <<serr, bound>>
    /\ UNCHANGED <<healthVars, adapterVars, stopVars, ctx, engineVars, graceful>>

EngineAcceptFails(s) ==
    /\ spc[s] = "accepting"
    /\ ~quit
    /\ spc' = [spc EXCEPT ![s] = "leaving"]
    /\ serr' = [serr EXCEPT ![s] = AcceptError]
    /\ bound' = bound \ {s}
    /\ UNCHANGED <<healthVars, adapterVars, stopVars, ctx, engineVars, graceful>>

EngineAcceptQuits(s) ==
    /\ spc[s] = "accepting"
    /\ quit
    /\ spc' = [spc EXCEPT ![s] = "leaving"]
    /\ UNCHANGED <<healthVars, adapterVars, serr, stopVars, ctx, bound, engineVars, graceful>>

(* Its deferred function: after a quit, wait for the stop to be complete.    *)
EngineServeReturns(s) ==
    /\ spc[s] = "leaving"
    /\ quit => engineDone
    /\ spc' = [spc EXCEPT ![s] = "returned"]
    /\ UNCHANGED <<healthVars, adapterVars, serr, stopVars, ctx, bound, engineVars, graceful>>

(* A faulty variant: shutdownDone is closed whatever the state.              *)
ServeEpilogueClosesAlways(s) ==
    /\ spc[s] = "returned"
    /\ listener' = None
    /\ serveDone' = closeChan(serveDone)
    /\ state' = "stopped"
    /\ bridgeShutdown
    /\ shutdownDone' = closeChan(shutdownDone)
    /\ spc' = [spc EXCEPT ![s] = "done"]
    /\ UNCHANGED <<ownerVars, loaded, watchVars, fresh, settled, shutdownErr, serr, stopVars,
                   ctx, bound, engineVars, graceful>>

(* Serve after the engine returned: one critical section. *)
ServeEpilogue(s) ==
    /\ spc[s] = "returned"
    /\ listener' = None
    /\ serveDone' = closeChan(serveDone)
    /\ IF state = "serving"
       THEN /\ state' = "stopped"
            /\ bridgeShutdown
            /\ shutdownDone' = closeChan(shutdownDone)
            /\ UNCHANGED serr
       ELSE /\ serr' = IF serr[s] = EngineStopped THEN [serr EXCEPT ![s] = {}] ELSE serr
            /\ UNCHANGED <<state, bridgeVars, shutdownDone>>
    /\ spc' = [spc EXCEPT ![s] = "done"]
    /\ UNCHANGED <<ownerVars, loaded, watchVars, fresh, settled, shutdownErr, stopVars, ctx,
                   bound, engineVars, graceful>>

-----------------------------------------------------------------------------
(* Shutdown. *)

ShutdownInvalid(c) ==
    /\ pc[c] = "start"
    /\ ~Bounded(c)
    /\ pc' = [pc EXCEPT ![c] = "done"]
    /\ err' = [err EXCEPT ![c] = IF ctx[c] = "nil" THEN ErrNilShutdownContext
                                 ELSE ErrUnboundedShutdownContext]
    /\ UNCHANGED <<healthVars, adapterVars, serveVars, ctx, bound, engineVars, graceful>>

ShutdownIdle(c) ==
    /\ pc[c] = "start" /\ Bounded(c)
    /\ state = "idle"
    /\ state' = "stopped"
    /\ bridgeShutdown
    /\ pc' = [pc EXCEPT ![c] = "return"]
    /\ UNCHANGED <<ownerVars, loaded, watchVars, fresh, settled, listener, serveDone,
                   shutdownDone, shutdownErr, serveVars, err, ctx, bound, engineVars, graceful>>

ShutdownStopped(c) ==
    /\ pc[c] = "start" /\ Bounded(c)
    /\ state = "stopped"
    /\ err' = [err EXCEPT ![c] = shutdownErr]
    /\ pc' = [pc EXCEPT ![c] = "return"]
    /\ UNCHANGED <<healthVars, adapterVars, serveVars, ctx, bound, engineVars, graceful>>

ShutdownJoinEarly(c) ==   \* a faulty variant: a late caller does not wait
    /\ pc[c] = "start" /\ Bounded(c)
    /\ state = "stopping"
    /\ pc' = [pc EXCEPT ![c] = "return"]
    /\ UNCHANGED <<healthVars, adapterVars, serveVars, err, ctx, bound, engineVars, graceful>>

ShutdownJoin(c) ==
    /\ pc[c] = "start" /\ Bounded(c)
    /\ state = "stopping"
    /\ pc' = [pc EXCEPT ![c] = "wait"]
    /\ UNCHANGED <<healthVars, adapterVars, serveVars, err, ctx, bound, engineVars, graceful>>

waitForShutdown(c) ==
    /\ pc[c] = "wait"
    /\ shutdownDone = "closed"
    /\ err' = [err EXCEPT ![c] = shutdownErr]
    /\ pc' = [pc EXCEPT ![c] = "return"]
    /\ UNCHANGED <<healthVars, adapterVars, serveVars, ctx, bound, engineVars, graceful>>

ShutdownServing(c) ==
    /\ pc[c] = "start" /\ Bounded(c)
    /\ state = "serving"
    /\ state' = "stopping"
    /\ bridgeShutdown
    /\ pc' = [pc EXCEPT ![c] = "begin"]
    /\ UNCHANGED <<ownerVars, loaded, watchVars, fresh, settled, listener, serveDone,
                   shutdownDone, shutdownErr, serveVars, err, ctx, bound, engineVars, graceful>>

(* An expired context stops at once; a live one starts the GracefulStop      *)
(* goroutine and selects on it and on the context.                           *)
ShutdownExpired(c) ==
    /\ pc[c] = "begin" /\ ctx[c] = "expired"
    /\ err' = [err EXCEPT ![c] = ContextError]
    /\ pc' = [pc EXCEPT ![c] = "stop"]
    /\ UNCHANGED <<healthVars, adapterVars, serveVars, ctx, bound, engineVars, graceful>>

ShutdownGraceful(c) ==
    /\ pc[c] = "begin" /\ ctx[c] = "live"
    /\ graceful' = "spawned"
    /\ pc' = [pc EXCEPT ![c] = "select"]
    /\ UNCHANGED <<healthVars, adapterVars, serveVars, err, ctx, bound, engineVars>>

(* select, case <-gracefulDone, with its second look at the context. *)
SelectGracefulDone(c) ==
    /\ pc[c] = "select"
    /\ graceful = "done"
    /\ IF ctx[c] = "expired"
       THEN /\ err' = [err EXCEPT ![c] = ContextError]
            /\ pc' = [pc EXCEPT ![c] = "stop"]
       ELSE /\ pc' = [pc EXCEPT ![c] = "await serve"]
            /\ UNCHANGED err
    /\ UNCHANGED <<healthVars, adapterVars, serveVars, ctx, bound, engineVars, graceful>>

(* Faulty variants: the expiry is not reported; no Stop follows it; the call *)
(* gives up on the drain.                                                    *)
SelectContextDoneNil(c) ==
    /\ pc[c] = "select"
    /\ ctx[c] = "expired"
    /\ pc' = [pc EXCEPT ![c] = "stop"]
    /\ UNCHANGED <<healthVars, adapterVars, serveVars, err, ctx, bound, engineVars, graceful>>

SelectContextDoneNoStop(c) ==
    /\ pc[c] = "select"
    /\ ctx[c] = "expired"
    /\ err' = [err EXCEPT ![c] = ContextError]
    /\ pc' = [pc EXCEPT ![c] = "await graceful"]
    /\ UNCHANGED <<healthVars, adapterVars, serveVars, ctx, bound, engineVars, graceful>>

SelectContextDoneGivesUp(c) ==
    /\ pc[c] = "select"
    /\ ctx[c] = "expired"
    /\ err' = [err EXCEPT ![c] = ContextError]
    /\ pc' = [pc EXCEPT ![c] = "finish"]
    /\ UNCHANGED <<healthVars, adapterVars, serveVars, ctx, bound, engineVars, graceful>>

(* select, case <-ctx.Done(). *)
SelectContextDone(c) ==
    /\ pc[c] = "select"
    /\ ctx[c] = "expired"
    /\ err' = [err EXCEPT ![c] = ContextError]
    /\ pc' = [pc EXCEPT ![c] = "stop"]
    /\ UNCHANGED <<healthVars, adapterVars, serveVars, ctx, bound, engineVars, graceful>>

(* External: grpc.Server.Stop fires quit and closes the listener; once the   *)
(* accept loop has left, it closes every connection, which cancels the RPCs  *)
(* on it without waiting for their handlers.                                 *)
StopFiresQuit(c) ==
    /\ pc[c] = "stop"
    /\ quit' = TRUE
    /\ bound' = bound \ Registered
    /\ pc' = [pc EXCEPT ![c] = "stop waits"]
    /\ UNCHANGED <<healthVars, adapterVars, serveVars, err, ctx, engineDone, conn, rpc, graceful>>

StopReturns(c) ==
    /\ pc[c] = "stop waits"
    /\ \A s \in Servers : spc[s] # "accepting"
    /\ conn' = "closed"
    /\ rpc' = [r \in Rpcs |-> IF rpc[r] = "active" THEN "cancelled" ELSE rpc[r]]
    /\ engineDone' = TRUE
    /\ pc' = [pc EXCEPT ![c] = IF graceful = "none" THEN "await serve" ELSE "await graceful"]
    /\ UNCHANGED <<healthVars, adapterVars, serveVars, err, ctx, bound, quit, graceful>>

AwaitGraceful(c) ==
    /\ pc[c] = "await graceful"
    /\ graceful = "done"
    /\ pc' = [pc EXCEPT ![c] = "await serve"]
    /\ UNCHANGED <<healthVars, adapterVars, serveVars, err, ctx, bound, engineVars, graceful>>

AwaitServe(c) ==
    /\ pc[c] = "await serve"
    /\ serveDone = "closed"
    /\ pc' = [pc EXCEPT ![c] = "finish"]
    /\ UNCHANGED <<healthVars, adapterVars, serveVars, err, ctx, bound, engineVars, graceful>>

finishShutdown(c) ==
    /\ pc[c] = "finish"
    /\ shutdownErr' = err[c]
    /\ state' = "stopped"
    /\ shutdownDone' = closeChan(shutdownDone)
    /\ pc' = [pc EXCEPT ![c] = "return"]
    /\ UNCHANGED <<healthVars, listener, serveDone, serveVars, err, ctx, bound, engineVars,
                   graceful>>

ShutdownReturn(c) ==
    /\ pc[c] = "return"
    /\ pc' = [pc EXCEPT ![c] = "done"]
    /\ UNCHANGED <<healthVars, adapterVars, serveVars, err, ctx, bound, engineVars, graceful>>

(* The caller's deadline passes, or the caller cancels. *)
ContextExpires(c) ==
    /\ ctx[c] = "live"
    /\ ctx' = [ctx EXCEPT ![c] = "expired"]
    /\ UNCHANGED <<healthVars, adapterVars, serveVars, stopVars, bound, engineVars, graceful>>

-----------------------------------------------------------------------------
(* The goroutine of server.go:219-222.  External: GracefulStop fires quit    *)
(* and closes the listener; once the accept loop has left it tells the       *)
(* connection to go away; it returns when no handler is left.                *)
GracefulFiresQuit ==
    /\ graceful = "spawned"
    /\ graceful' = "quitting"
    /\ quit' = TRUE
    /\ bound' = bound \ Registered
    /\ UNCHANGED <<healthVars, adapterVars, serveVars, stopVars, ctx, engineDone, conn, rpc>>

GracefulDrains ==
    /\ graceful = "quitting"
    /\ \A s \in Servers : spc[s] # "accepting"
    /\ graceful' = "draining"
    /\ conn' = IF conn = "open" THEN "goaway" ELSE conn
    /\ UNCHANGED <<healthVars, adapterVars, serveVars, stopVars, ctx, bound, quit, engineDone, rpc>>

GracefulReturns ==
    /\ graceful = "draining"
    /\ \A r \in Rpcs : rpc[r] \notin {"active", "cancelled"}
    /\ graceful' = "done"
    /\ conn' = "closed"
    /\ engineDone' = TRUE
    /\ UNCHANGED <<healthVars, adapterVars, serveVars, stopVars, ctx, bound, quit, rpc>>

-----------------------------------------------------------------------------
(* External: a client connects, and its RPCs run.  A connection outlives the *)
(* accept loop: only Stop and GracefulStop end it.                           *)
Connect(s) ==
    /\ spc[s] = "accepting"
    /\ ~quit
    /\ conn = "none"
    /\ conn' = "open"
    /\ UNCHANGED <<healthVars, adapterVars, serveVars, stopVars, ctx, bound, quit, engineDone,
                   rpc, graceful>>

RpcStart(r) ==
    /\ conn = "open"
    /\ rpc[r] = "idle"
    /\ rpc' = [rpc EXCEPT ![r] = "active"]
    /\ UNCHANGED <<healthVars, adapterVars, serveVars, stopVars, ctx, bound, quit, engineDone,
                   conn, graceful>>

RpcFinish(r) ==
    /\ rpc[r] = "active"
    /\ rpc' = [rpc EXCEPT ![r] = "done"]
    /\ UNCHANGED <<healthVars, adapterVars, serveVars, stopVars, ctx, bound, quit, engineDone,
                   conn, graceful>>

RpcAbort(r) ==
    /\ rpc[r] = "cancelled"
    /\ rpc' = [rpc EXCEPT ![r] = "aborted"]
    /\ UNCHANGED <<healthVars, adapterVars, serveVars, stopVars, ctx, bound, quit, engineDone,
                   conn, graceful>>

-----------------------------------------------------------------------------

GrpcInit ==
    /\ HealthInit
    /\ state = "idle"
    /\ listener = None
    /\ serveDone = "nil" /\ shutdownDone = "nil"
    /\ shutdownErr = {}
    /\ spc = [s \in Servers |-> "start"]
    /\ serr = [s \in Servers |-> {}]
    /\ pc = [c \in Stoppers |-> "start"]
    /\ err = [c \in Stoppers |-> {}]
    /\ ctx \in [Stoppers -> Contexts]
    /\ bound = Servers
    /\ quit = FALSE /\ engineDone = FALSE
    /\ graceful = "none"
    /\ conn = "none"
    /\ rpc = [r \in Rpcs |-> "idle"]

ServeEntry(s) ==
    ServeNil(s) \/ ServeFirst(s) \/ ServeDuplicate(s) \/ ServeTooLate(s)

(* What a Serve goroutine does once its call has begun. *)
ServeStep(s) ==
    \/ ServeCloseRefused(s) \/ EngineServe(s) \/ EngineAcceptQuits(s)
    \/ EngineServeReturns(s) \/ ServeEpilogue(s)

ShutdownEntry(c) ==
    \/ ShutdownInvalid(c) \/ ShutdownIdle(c) \/ ShutdownStopped(c)
    \/ ShutdownJoin(c) \/ ShutdownServing(c)

ShutdownStep(c) ==
    \/ waitForShutdown(c) \/ ShutdownExpired(c) \/ ShutdownGraceful(c)
    \/ SelectGracefulDone(c) \/ SelectContextDone(c)
    \/ StopFiresQuit(c) \/ StopReturns(c) \/ AwaitGraceful(c) \/ AwaitServe(c)
    \/ finishShutdown(c) \/ ShutdownReturn(c)

GracefulStep == GracefulFiresQuit \/ GracefulDrains \/ GracefulReturns

GrpcNext ==
    \/ HealthStep /\ UNCHANGED <<adapterVars, serveVars, stopVars, ctx, bound, engineVars, graceful>>
    \/ \E s \in Servers : ServeEntry(s) \/ ServeStep(s) \/ EngineAcceptFails(s) \/ Connect(s)
    \/ \E c \in Stoppers : ShutdownEntry(c) \/ ShutdownStep(c) \/ ContextExpires(c)
    \/ GracefulStep
    \/ \E r \in Rpcs : RpcStart(r) \/ RpcFinish(r) \/ RpcAbort(r)

GrpcSpec == GrpcInit /\ [][GrpcNext]_grpcVars

(* Goroutines that can run do run; a bounded context expires (Shutdown       *)
(* refuses one without a deadline); a handler whose context is cancelled     *)
(* returns.  Nothing is assumed of handlers that are not cancelled, of       *)
(* clients, or of the calls that are yet to be made.                         *)
GrpcFairness ==
    /\ \A s \in Servers : WF_grpcVars(ServeStep(s))
    /\ \A c \in Stoppers : WF_grpcVars(ShutdownStep(c)) /\ WF_grpcVars(ContextExpires(c))
    /\ WF_grpcVars(GracefulStep)
    /\ \A r \in Rpcs : WF_grpcVars(RpcAbort(r))

FairGrpcSpec == GrpcSpec /\ GrpcFairness

-----------------------------------------------------------------------------
(* Properties. *)

Channels == {"nil", "open", "closed"}

ServePCs == {"start", "refused", "engine", "accepting", "leaving", "returned", "done"}

ShutdownPCs == {"start", "wait", "begin", "select", "stop", "stop waits",
                "await graceful", "await serve", "finish", "return", "done"}

Causes == ContextError

(* server.go:43-53: the fields of Server and of its callers keep their       *)
(* types; in particular no channel is ever closed twice or while nil, which  *)
(* would panic (server.go:167, 171, 248).                                    *)
GrpcTypeOK ==
    /\ HealthTypeOK
    /\ state \in {"idle", "serving", "stopping", "stopped"}
    /\ listener \in Servers \cup {None}
    /\ serveDone \in Channels /\ shutdownDone \in Channels
    /\ shutdownErr \in SUBSET Causes
    /\ spc \in [Servers -> ServePCs]
    /\ serr \in [Servers -> SUBSET (ErrNilListener \cup ErrServerAlreadyServing
                     \cup ErrServerStopped \cup EngineStopped \cup AcceptError \cup CloseError)]
    /\ pc \in [Stoppers -> ShutdownPCs]
    /\ err \in [Stoppers -> SUBSET (Causes \cup ErrNilShutdownContext
                                      \cup ErrUnboundedShutdownContext)]
    /\ ctx \in [Stoppers -> Contexts]
    /\ bound \subseteq Servers
    /\ quit \in BOOLEAN /\ engineDone \in BOOLEAN
    /\ graceful \in {"none", "spawned", "quitting", "draining", "done"}
    /\ conn \in {"none", "open", "goaway", "closed"}
    /\ rpc \in [Rpcs -> {"idle", "active", "done", "cancelled", "aborted"}]

InEngine(s) == spc[s] \in {"engine", "accepting", "leaving", "returned"}

(* server.go:139-160: at most one Serve call is ever inside grpc-go, and     *)
(* Server.listener is its listener for exactly that time.                    *)
OneServeAtATime ==
    /\ \A s \in Servers : InEngine(s) <=> listener = s
    /\ listener # None <=> serveDone = "open"

(* server.go:170, 196, 210: once a stop has begun, health clients are told   *)
(* NOT_SERVING, whatever readiness is stored and however refreshes           *)
(* interleave with the stop.                                                 *)
NotServingOnceStopping == state \in {"stopping", "stopped"} => status = NOT_SERVING

(* server.go:149-155 and 162-179: a Serve call that had a listener and was   *)
(* not a duplicate leaves no open listener behind, whatever the race with    *)
(* Shutdown was.                                                             *)
ServeReleasesListener ==
    \A s \in Servers :
        spc[s] = "done" /\ serr[s] \notin {ErrNilListener, ErrServerAlreadyServing}
            => s \notin bound

(* server.go:207-237: when the drain began with a Shutdown, its completion   *)
(* leaves no RPC running that has not been cancelled, and no connection on   *)
(* which one could start.                                                    *)
StopLeavesNothingRunning ==
    state = "stopped" /\ quit =>
        /\ conn \in {"none", "closed"}
        /\ \A r \in Rpcs : rpc[r] # "active"
        /\ \A s \in Servers : spc[s] # "accepting"

(* server.go:224-237: a Shutdown that reports success cut no RPC short.      *)
SuccessMeansDrained ==
    \A c \in Stoppers :
        pc[c] = "done" /\ Bounded(c) /\ err[c] = {} =>
            \A r \in Rpcs : rpc[r] \notin {"cancelled", "aborted"}

(* server.go:181-182, "Shutdown publishes NOT_SERVING, attempts a graceful   *)
(* drain until ctx expires, then forces Stop": when a bounded Shutdown has   *)
(* returned, no RPC goes on that was neither drained nor cancelled.          *)
ShutdownDrainsOrStops ==
    \A c \in Stoppers :
        pc[c] = "done" /\ Bounded(c) => \A r \in Rpcs : rpc[r] # "active"

(* server.go:183-242: a Shutdown call returns, even if no handler ever       *)
(* finishes by itself.                                                       *)
ShutdownReturns == \A c \in Stoppers : (pc[c] # "start") ~> (pc[c] = "done")

(* server.go:133-179: once a stop has begun, every Serve call that was made  *)
(* returns.                                                                  *)
ServeReturns ==
    \A s \in Servers :
        (state \in {"stopping", "stopped"} /\ spc[s] # "start") ~> (spc[s] = "done")

(* The adapter implements the abstract lifecycle: one start, one stop, one   *)
(* result that every bounded Shutdown caller is given (server.go:181-182,    *)
(* "Concurrent callers wait for the same completed result").                 *)
Abstract == INSTANCE Lifecycle WITH
    phase  <- IF state = "serving" THEN "running" ELSE state,
    result <- shutdownErr,
    answer <- [c \in Stoppers |-> IF pc[c] = "done" /\ Bounded(c) THEN err[c]
                                  ELSE {"unanswered"}]

ImplementsLifecycle == Abstract!LifecycleSpec
=============================================================================
