----------------------------- MODULE HttpServer -----------------------------
(***************************************************************************)
(* pkg/api/httpserver/server.go: the single-use lifecycle of the HTTP      *)
(* adapter, composed with the Fiber server it drives (external).           *)
(*                                                                         *)
(* Each Serve and each Shutdown call is a goroutine with a program         *)
(* counter; a critical section of Server.mu is one step.  Unlike the gRPC  *)
(* adapter there is a state "starting": Fiber calls BeforeServeFunc before *)
(* it registers the listener with its engine, and the state becomes        *)
(* "serving" in that callback.                                             *)
(*                                                                         *)
(* An error is the set of its causes: {} is nil and errors.Join is union.  *)
(***************************************************************************)
EXTENDS Naturals

CONSTANTS
    Servers,    \* goroutines that call Serve, each with a listener of its own
    Stoppers,   \* goroutines that call Shutdown
    Requests,   \* the requests clients send
    None        \* no listener

ASSUME NoneAssumption == None \notin Servers

VARIABLES
    state,          \* Server.state
    listener,       \* Server.listener: the Servers element it belongs to
    serveDone,      \* the channels: "nil", "open", "closed" (or "panic")
    shutdownDone,
    shutdownErr,    \* Server.shutdownErr
    spc, serr,      \* per Serve call: program counter and error
    pc, err, ctx,   \* per Shutdown call: program counter, error, context
    held,           \* per Shutdown call: the listener read under the lock
    bound,          \* the listeners that are open
    registered,     \* external: the listeners Fiber's engine knows
    closeErr,       \* external, per Shutdown call: the engine's close error
    request,        \* external: per request, how far it got
    origin          \* history, per Shutdown call: what its stop acted on

adapterVars == <<state, listener, serveDone, shutdownDone, shutdownErr>>
serveVars   == <<spc, serr>>
stopVars    == <<pc, err, held, closeErr, origin>>
engineVars  == <<bound, registered, request>>
httpVars    == <<adapterVars, serveVars, stopVars, ctx, engineVars>>

(* Sentinels of server.go:36-56 and the causes that come from outside. *)
ErrNilListener              == {"nil listener"}
ErrServerAlreadyServing     == {"already serving"}
ErrServerStopped            == {"adapter stopped"}
ErrNilShutdownContext       == {"nil context"}
ErrUnboundedShutdownContext == {"unbounded context"}
AcceptError                 == {"accept"}
CloseError                  == {"close"}
ContextError                == {"context"}

Contexts == {"nil", "unbounded", "live", "expired"}

Bounded(c) == ctx[c] \in {"live", "expired"}

closeChan(ch) == IF ch = "open" THEN "closed" ELSE "panic"

-----------------------------------------------------------------------------
(* Serve. *)

ServeNil(s) ==
    /\ spc[s] = "start"
    /\ spc' = [spc EXCEPT ![s] = "done"]
    /\ serr' = [serr EXCEPT ![s] = ErrNilListener]
    /\ UNCHANGED <<adapterVars, stopVars, ctx, engineVars>>

ServeFirstForgets(s) ==   \* a faulty variant: Server.listener is not set
    /\ spc[s] = "start"
    /\ state = "idle"
    /\ state' = "starting"
    /\ serveDone' = "open"
    /\ shutdownDone' = "open"
    /\ spc' = [spc EXCEPT ![s] = "setup"]
    /\ UNCHANGED <<listener, shutdownErr, serr, stopVars, ctx, engineVars>>

ServeFirst(s) ==
    /\ spc[s] = "start"
    /\ state = "idle"
    /\ state' = "starting"
    /\ listener' = s
    /\ serveDone' = "open"
    /\ shutdownDone' = "open"
    /\ spc' = [spc EXCEPT ![s] = "setup"]
    /\ UNCHANGED <<shutdownErr, serr, stopVars, ctx, engineVars>>

ServeRefused(s) ==
    /\ spc[s] = "start"
    /\ state # "idle"
    /\ spc' = [spc EXCEPT ![s] = "done"]
    /\ serr' = [serr EXCEPT ![s] = IF state \in {"starting", "serving"}
                                   THEN ErrServerAlreadyServing ELSE ErrServerStopped]
    /\ UNCHANGED <<adapterVars, stopVars, ctx, engineVars>>

BeforeServeUnchecked(s) ==   \* a faulty variant: a stop in progress goes unseen
    /\ spc[s] = "setup"
    /\ state' = IF state = "starting" THEN "serving" ELSE state
    /\ spc' = [spc EXCEPT ![s] = "armed"]
    /\ UNCHANGED <<listener, serveDone, shutdownDone, shutdownErr, serr, stopVars, ctx,
                   engineVars>>

BeforeServeWaits(s) ==   \* a faulty variant: a stop is waited out instead of refused
    /\ spc[s] = "setup"
    /\ state = "starting"
    /\ state' = "serving"
    /\ spc' = [spc EXCEPT ![s] = "armed"]
    /\ UNCHANGED <<listener, serveDone, shutdownDone, shutdownErr, serr, stopVars, ctx,
                   engineVars>>

(* The BeforeServeFunc callback: the last word on whether to serve. *)
BeforeServe(s) ==
    /\ spc[s] = "setup"
    /\ IF state = "starting"
       THEN /\ state' = "serving"
            /\ spc' = [spc EXCEPT ![s] = "armed"]
            /\ UNCHANGED serr
       ELSE /\ spc' = [spc EXCEPT ![s] = "returned"]
            /\ serr' = [serr EXCEPT ![s] = ErrServerStopped]
            /\ UNCHANGED state
    /\ UNCHANGED <<listener, serveDone, shutdownDone, shutdownErr, stopVars, ctx, engineVars>>

(* External: only now does Fiber hand the listener to its engine, which      *)
(* accepts until the listener is closed (no error) or fails.                 *)
EngineRegister(s) ==
    /\ spc[s] = "armed"
    /\ registered' = registered \cup {s}
    /\ spc' = [spc EXCEPT ![s] = "accepting"]
    /\ UNCHANGED <<adapterVars, serr, stopVars, ctx, bound, request>>

EngineAcceptEnds(s) ==
    /\ spc[s] = "accepting"
    /\ s \notin bound
    /\ spc' = [spc EXCEPT ![s] = "returned"]
    /\ UNCHANGED <<adapterVars, serr, stopVars, ctx, engineVars>>

EngineAcceptFails(s) ==
    /\ spc[s] = "accepting"
    /\ s \in bound
    /\ spc' = [spc EXCEPT ![s] = "returned"]
    /\ serr' = [serr EXCEPT ![s] = AcceptError]
    /\ UNCHANGED <<adapterVars, stopVars, ctx, engineVars>>

ServeEpilogueClosesAlways(s) ==   \* a faulty variant: shutdownDone closed in any state
    /\ spc[s] = "returned"
    /\ listener' = None
    /\ serveDone' = closeChan(serveDone)
    /\ state' = "stopped"
    /\ shutdownDone' = closeChan(shutdownDone)
    /\ spc' = [spc EXCEPT ![s] = "done"]
    /\ UNCHANGED <<shutdownErr, serr, stopVars, ctx, engineVars>>

(* Serve after Fiber returned: one critical section. *)
ServeEpilogue(s) ==
    /\ spc[s] = "returned"
    /\ listener' = None
    /\ serveDone' = closeChan(serveDone)
    /\ IF state \in {"starting", "serving"}
       THEN /\ state' = "stopped"
            /\ shutdownDone' = closeChan(shutdownDone)
            /\ UNCHANGED serr
       ELSE /\ serr' = IF serr[s] = ErrServerStopped THEN [serr EXCEPT ![s] = {}] ELSE serr
            /\ UNCHANGED <<state, shutdownDone>>
    /\ spc' = [spc EXCEPT ![s] = "done"]
    /\ UNCHANGED <<shutdownErr, stopVars, ctx, engineVars>>

-----------------------------------------------------------------------------
(* Shutdown. *)

ShutdownInvalid(c) ==
    /\ pc[c] = "start"
    /\ ~Bounded(c)
    /\ pc' = [pc EXCEPT ![c] = "done"]
    /\ err' = [err EXCEPT ![c] = IF ctx[c] = "nil" THEN ErrNilShutdownContext
                                 ELSE ErrUnboundedShutdownContext]
    /\ UNCHANGED <<adapterVars, serveVars, held, closeErr, origin, ctx, engineVars>>

ShutdownIdle(c) ==
    /\ pc[c] = "start" /\ Bounded(c)
    /\ state = "idle"
    /\ state' = "stopped"
    /\ pc' = [pc EXCEPT ![c] = "return"]
    /\ UNCHANGED <<listener, serveDone, shutdownDone, shutdownErr, serveVars, err, held,
                   closeErr, origin, ctx, engineVars>>

ShutdownStopped(c) ==
    /\ pc[c] = "start" /\ Bounded(c)
    /\ state = "stopped"
    /\ err' = [err EXCEPT ![c] = shutdownErr]
    /\ pc' = [pc EXCEPT ![c] = "return"]
    /\ UNCHANGED <<adapterVars, serveVars, held, closeErr, origin, ctx, engineVars>>

ShutdownJoin(c) ==
    /\ pc[c] = "start" /\ Bounded(c)
    /\ state = "stopping"
    /\ pc' = [pc EXCEPT ![c] = "wait"]
    /\ UNCHANGED <<adapterVars, serveVars, err, held, closeErr, origin, ctx, engineVars>>

waitForShutdownPrivate(c) ==   \* a faulty variant: a waiter gives up on its own deadline
    /\ pc[c] = "wait"
    /\ shutdownDone = "closed" \/ ctx[c] = "expired"
    /\ err' = [err EXCEPT ![c] = IF ctx[c] = "expired" THEN ContextError ELSE shutdownErr]
    /\ pc' = [pc EXCEPT ![c] = "return"]
    /\ UNCHANGED <<adapterVars, serveVars, held, closeErr, origin, ctx, engineVars>>

waitForShutdown(c) ==
    /\ pc[c] = "wait"
    /\ shutdownDone = "closed"
    /\ err' = [err EXCEPT ![c] = shutdownErr]
    /\ pc' = [pc EXCEPT ![c] = "return"]
    /\ UNCHANGED <<adapterVars, serveVars, held, closeErr, origin, ctx, engineVars>>

(* During startup the adapter closes the listener itself. *)
ShutdownStarting(c) ==
    /\ pc[c] = "start" /\ Bounded(c)
    /\ state = "starting"
    /\ state' = "stopping"
    /\ held' = [held EXCEPT ![c] = listener]
    /\ origin' = [origin EXCEPT ![c] = "startup"]
    /\ pc' = [pc EXCEPT ![c] = "close listener"]
    /\ UNCHANGED <<listener, serveDone, shutdownDone, shutdownErr, serveVars, err, closeErr,
                   ctx, engineVars>>

(* A close may report an error, which is net.ErrClosed (dropped) when the    *)
(* listener was closed before.                                               *)
CloseOutcomes(S) == IF S \cap bound = {} THEN {{}} ELSE {{}, CloseError}

CloseListener(c) ==
    /\ pc[c] = "close listener"
    /\ \E e \in CloseOutcomes({held[c]}) : err' = [err EXCEPT ![c] = e]
    /\ bound' = bound \ {held[c]}
    /\ pc' = [pc EXCEPT ![c] = "await exit"]
    /\ UNCHANGED <<adapterVars, serveVars, held, closeErr, origin, ctx, registered, request>>

ShutdownServing(c) ==
    /\ pc[c] = "start" /\ Bounded(c)
    /\ state = "serving"
    /\ state' = "stopping"
    /\ pc' = [pc EXCEPT ![c] = "engine"]
    /\ UNCHANGED <<listener, serveDone, shutdownDone, shutdownErr, serveVars, err, held,
                   closeErr, origin, ctx, engineVars>>

(* External: ShutdownWithContext.  With no registered listener it has        *)
(* nothing to do and returns nil (or ErrNotRunning, which Shutdown drops);   *)
(* otherwise it closes the listeners and waits for the open requests, or for *)
(* the context.                                                              *)
EngineNotRunning(c) ==
    /\ pc[c] = "engine"
    /\ registered = {}
    /\ origin' = [origin EXCEPT ![c] = "window"]
    /\ pc' = [pc EXCEPT ![c] = "await exit"]
    /\ UNCHANGED <<adapterVars, serveVars, err, held, closeErr, ctx, engineVars>>

EngineStop(c) ==
    /\ pc[c] = "engine"
    /\ registered # {}
    /\ \E e \in CloseOutcomes(registered) : closeErr' = [closeErr EXCEPT ![c] = e]
    /\ bound' = bound \ registered
    /\ origin' = [origin EXCEPT ![c] = "engine"]
    /\ pc' = [pc EXCEPT ![c] = "drain"]
    /\ UNCHANGED <<adapterVars, serveVars, err, held, ctx, registered, request>>

EngineDrained(c) ==
    /\ pc[c] = "drain"
    /\ \A r \in Requests : request[r] # "active"
    /\ err' = [err EXCEPT ![c] = closeErr[c]]
    /\ pc' = [pc EXCEPT ![c] = "await exit"]
    /\ UNCHANGED <<adapterVars, serveVars, held, closeErr, origin, ctx, engineVars>>

EngineDrainExpires(c) ==
    /\ pc[c] = "drain"
    /\ ctx[c] = "expired"
    /\ err' = [err EXCEPT ![c] = ContextError]
    /\ pc' = [pc EXCEPT ![c] = "await exit"]
    /\ UNCHANGED <<adapterVars, serveVars, held, closeErr, origin, ctx, engineVars>>

(* A faulty variant: the exit of Serve hides the error of the drain.         *)
ServeExitedForgets(c) ==
    /\ pc[c] = "await exit"
    /\ serveDone = "closed"
    /\ err' = [err EXCEPT ![c] = {}]
    /\ pc' = [pc EXCEPT ![c] = "finish"]
    /\ UNCHANGED <<adapterVars, serveVars, held, closeErr, origin, ctx, engineVars>>

(* waitForServeExit: a select between serveDone and the context. *)
ServeExited(c) ==
    /\ pc[c] = "await exit"
    /\ serveDone = "closed"
    /\ pc' = [pc EXCEPT ![c] = "finish"]
    /\ UNCHANGED <<adapterVars, serveVars, err, held, closeErr, origin, ctx, engineVars>>

(* Faulty variants: the expiry is not reported; the wait has no deadline.    *)
ServeExitExpiresNil(c) ==
    /\ pc[c] = "await exit"
    /\ ctx[c] = "expired"
    /\ pc' = [pc EXCEPT ![c] = "finish"]
    /\ UNCHANGED <<adapterVars, serveVars, err, held, closeErr, origin, ctx, engineVars>>

ServeExitNeverExpires(c) == serveDone = "closed" /\ ServeExited(c)

ServeExitExpires(c) ==
    /\ pc[c] = "await exit"
    /\ ctx[c] = "expired"
    /\ err' = [err EXCEPT ![c] = @ \cup ContextError]
    /\ pc' = [pc EXCEPT ![c] = "finish"]
    /\ UNCHANGED <<adapterVars, serveVars, held, closeErr, origin, ctx, engineVars>>

finishShutdown(c) ==
    /\ pc[c] = "finish"
    /\ shutdownErr' = err[c]
    /\ state' = "stopped"
    /\ shutdownDone' = closeChan(shutdownDone)
    /\ pc' = [pc EXCEPT ![c] = "return"]
    /\ UNCHANGED <<listener, serveDone, serveVars, err, held, closeErr, origin, ctx, engineVars>>

ShutdownReturn(c) ==
    /\ pc[c] = "return"
    /\ pc' = [pc EXCEPT ![c] = "done"]
    /\ UNCHANGED <<adapterVars, serveVars, err, held, closeErr, origin, ctx, engineVars>>

(* The caller's deadline passes, or the caller cancels. *)
ContextExpires(c) ==
    /\ ctx[c] = "live"
    /\ ctx' = [ctx EXCEPT ![c] = "expired"]
    /\ UNCHANGED <<adapterVars, serveVars, stopVars, engineVars>>

-----------------------------------------------------------------------------
(* External: requests, and the owner of a listener closing it. *)
RequestStart(r) ==
    /\ \E s \in bound : spc[s] = "accepting"
    /\ request[r] = "idle"
    /\ request' = [request EXCEPT ![r] = "active"]
    /\ UNCHANGED <<adapterVars, serveVars, stopVars, ctx, bound, registered>>

RequestFinish(r) ==
    /\ request[r] = "active"
    /\ request' = [request EXCEPT ![r] = "done"]
    /\ UNCHANGED <<adapterVars, serveVars, stopVars, ctx, bound, registered>>

OwnerCloses(s) ==
    /\ s \in bound
    /\ bound' = bound \ {s}
    /\ UNCHANGED <<adapterVars, serveVars, stopVars, ctx, registered, request>>

-----------------------------------------------------------------------------

HttpInit ==
    /\ state = "idle"
    /\ listener = None
    /\ serveDone = "nil" /\ shutdownDone = "nil"
    /\ shutdownErr = {}
    /\ spc = [s \in Servers |-> "start"]
    /\ serr = [s \in Servers |-> {}]
    /\ pc = [c \in Stoppers |-> "start"]
    /\ err = [c \in Stoppers |-> {}]
    /\ ctx \in [Stoppers -> Contexts]
    /\ held = [c \in Stoppers |-> None]
    /\ bound = Servers
    /\ registered = {}
    /\ closeErr = [c \in Stoppers |-> {}]
    /\ request = [r \in Requests |-> "idle"]
    /\ origin = [c \in Stoppers |-> "none"]

ServeEntry(s) == ServeNil(s) \/ ServeFirst(s) \/ ServeRefused(s)

(* What a Serve goroutine does once its call has begun. *)
ServeStep(s) ==
    BeforeServe(s) \/ EngineRegister(s) \/ EngineAcceptEnds(s) \/ ServeEpilogue(s)

ShutdownEntry(c) ==
    \/ ShutdownInvalid(c) \/ ShutdownIdle(c) \/ ShutdownStopped(c) \/ ShutdownJoin(c)
    \/ ShutdownStarting(c) \/ ShutdownServing(c)

ShutdownStep(c) ==
    \/ waitForShutdown(c) \/ CloseListener(c)
    \/ EngineNotRunning(c) \/ EngineStop(c) \/ EngineDrained(c) \/ EngineDrainExpires(c)
    \/ ServeExited(c) \/ ServeExitExpires(c)
    \/ finishShutdown(c) \/ ShutdownReturn(c)

HttpNext ==
    \/ \E s \in Servers :
           ServeEntry(s) \/ ServeStep(s) \/ EngineAcceptFails(s) \/ OwnerCloses(s)
    \/ \E c \in Stoppers : ShutdownEntry(c) \/ ShutdownStep(c) \/ ContextExpires(c)
    \/ \E r \in Requests : RequestStart(r) \/ RequestFinish(r)

HttpSpec == HttpInit /\ [][HttpNext]_httpVars

(* Goroutines that can run do run, and a bounded context expires (Shutdown   *)
(* refuses one without a deadline).  Nothing is assumed of requests, of      *)
(* listener owners, or of the calls that are yet to be made.                 *)
HttpFairness ==
    /\ \A s \in Servers : WF_httpVars(ServeStep(s))
    /\ \A c \in Stoppers : WF_httpVars(ShutdownStep(c)) /\ WF_httpVars(ContextExpires(c))

FairHttpSpec == HttpSpec /\ HttpFairness

-----------------------------------------------------------------------------
(* Properties. *)

Channels == {"nil", "open", "closed"}

ServePCs == {"start", "setup", "armed", "accepting", "returned", "done"}

ShutdownPCs == {"start", "wait", "close listener", "engine", "drain", "await exit",
                "finish", "return", "done"}

Causes == ContextError \cup CloseError

(* server.go:83-92: the fields of Server and of its callers keep their       *)
(* types; in particular no channel is ever closed twice or while nil, which  *)
(* would panic (server.go:199, 202, 269).                                    *)
HttpTypeOK ==
    /\ state \in {"idle", "starting", "serving", "stopping", "stopped"}
    /\ listener \in Servers \cup {None}
    /\ serveDone \in Channels /\ shutdownDone \in Channels
    /\ shutdownErr \in SUBSET Causes
    /\ spc \in [Servers -> ServePCs]
    /\ serr \in [Servers -> SUBSET (ErrNilListener \cup ErrServerAlreadyServing
                                      \cup ErrServerStopped \cup AcceptError)]
    /\ pc \in [Stoppers -> ShutdownPCs]
    /\ err \in [Stoppers -> SUBSET (Causes \cup ErrNilShutdownContext
                                      \cup ErrUnboundedShutdownContext)]
    /\ ctx \in [Stoppers -> Contexts]
    /\ held \in [Stoppers -> Servers \cup {None}]
    /\ bound \subseteq Servers
    /\ registered \subseteq Servers
    /\ closeErr \in [Stoppers -> SUBSET CloseError]
    /\ request \in [Requests -> {"idle", "active", "done"}]
    /\ origin \in [Stoppers -> {"none", "startup", "engine", "window"}]

InEngine(s) == spc[s] \in {"setup", "armed", "accepting", "returned"}

(* server.go:159-176 and 244: at most one Serve call is inside Fiber,        *)
(* Server.listener is its listener for exactly that time, and a startup      *)
(* Shutdown always has a listener to close (never nil).                      *)
OneServeAtATime ==
    /\ \A s \in Servers : InEngine(s) <=> listener = s
    /\ listener # None <=> serveDone = "open"
    /\ state = "starting" => listener # None
    /\ \A c \in Stoppers : pc[c] = "close listener" => held[c] # None

(* server.go:188-189 and 238-248: a Shutdown that arrived during startup     *)
(* keeps Serve from ever reaching the accept loop, whenever it ends.         *)
StartupShutdownPreventsServing ==
    (\E c \in Stoppers : origin[c] = "startup") =>
        /\ \A s \in Servers : spc[s] \notin {"armed", "accepting"}
        /\ \A r \in Requests : request[r] = "idle"

(* server.go:248 and 258: a Shutdown that reports success leaves no Serve    *)
(* call inside Fiber.                                                        *)
SuccessMeansServeLeft ==
    \A c \in Stoppers :
        pc[c] = "done" /\ Bounded(c) /\ err[c] = {} => \A s \in Servers : ~InEngine(s)

(* server.go:254-258: a Shutdown that reached the running engine and reports *)
(* success has drained every request, and none can start.                    *)
SuccessMeansDrained ==
    \A c \in Stoppers :
        pc[c] = "done" /\ origin[c] = "engine" /\ err[c] = {} =>
            /\ \A r \in Requests : request[r] # "active"
            /\ registered \cap bound = {}

(* server.go:212-263: a Shutdown call returns by its initiator's deadline,   *)
(* whatever the requests do.                                                 *)
ShutdownReturns == \A c \in Stoppers : (pc[c] # "start") ~> (pc[c] = "done")

(* server.go:178-209: when the stop closed a listener, every Serve call that *)
(* was made returns, even if Shutdown itself timed out.                      *)
ServeReturns ==
    \A s \in Servers :
        (spc[s] # "start" /\ \E c \in Stoppers : origin[c] \in {"startup", "engine"})
            ~> (spc[s] = "done")

(* server_integration_test.go:385-386, "Serve() did not return after          *)
(* Shutdown", and doc/07-code-architecture.md:88 (every goroutine has an exit *)
(* one can wait for): after a bounded Shutdown has returned, every Serve call *)
(* that was made returns.                                                     *)
ServeReturnsAfterShutdown ==
    \A s \in Servers :
        (spc[s] # "start" /\ \E c \in Stoppers : pc[c] = "done" /\ Bounded(c))
            ~> (spc[s] = "done")

(* The adapter implements the abstract lifecycle: one start, one stop, one   *)
(* result that every bounded Shutdown caller is given (server.go:212-214,    *)
(* "Concurrent callers wait for that same terminal result").                 *)
Abstract == INSTANCE Lifecycle WITH
    phase  <- IF state \in {"starting", "serving"} THEN "running" ELSE state,
    result <- shutdownErr,
    answer <- [c \in Stoppers |-> IF pc[c] = "done" /\ Bounded(c) THEN err[c]
                                  ELSE {"unanswered"}]

ImplementsLifecycle == Abstract!LifecycleSpec
=============================================================================
