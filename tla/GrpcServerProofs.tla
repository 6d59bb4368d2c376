-------------------------- MODULE GrpcServerProofs --------------------------
(***************************************************************************)
(* The gRPC adapter's lifecycle, proved for any number of Serve and        *)
(* Shutdown calls, RPCs, refreshing goroutines and Watch streams: each     *)
(* safety property of GrpcServer, and that it implements Lifecycle.        *)
(*                                                                         *)
(* The health bridge's invariant is reused as it is: every step of the     *)
(* adapter is, for the bridge, a step of its own specification.  What is   *)
(* added ties the channels, Server.listener, the engine's quit and done    *)
(* events and the results to Server.state.                                 *)
(***************************************************************************)
EXTENDS GrpcServer, HealthBridgeProofs

(* A Shutdown call that owns the stop, between its critical sections. *)
Stopping(c) == pc[c] \in {"begin", "select", "stop", "stop waits", "await graceful",
                          "await serve", "finish"}

(* The channels follow the state: each is open exactly while its close is    *)
(* still to come.  Once a stop has begun the bridge is shut down.            *)
ChannelInv ==
    /\ state = "idle" => serveDone = "nil" /\ shutdownDone = "nil"
    /\ state = "serving" => serveDone = "open"
    /\ state \in {"serving", "stopping"} => shutdownDone = "open"
    /\ state \in {"stopping", "stopped"} => stopped

(* Server.listener marks the one Serve call inside grpc-go. *)
EngineInv ==
    /\ \A s \in Servers : InEngine(s) <=> listener = s
    /\ listener # None <=> serveDone = "open"

(* A Serve call that has left grpc-go, or is told to, has no open listener.  *)
BoundInv ==
    /\ \A s \in Servers : spc[s] = "accepting" /\ quit => s \notin bound
    /\ \A s \in Servers : spc[s] \in {"leaving", "returned"} => s \notin bound
    /\ ServeReleasesListener

(* A stop has exactly one owner. *)
OwnerInv ==
    /\ \A c \in Stoppers : Stopping(c) => state = "stopping"
    /\ \A c, d \in Stoppers : Stopping(c) /\ Stopping(d) => c = d

(* How far the stop of grpc-go is, by what the owner and the GracefulStop    *)
(* goroutine have done.                                                      *)
QuitInv ==
    /\ quit => state \in {"stopping", "stopped"}
    /\ state \in {"idle", "serving"} => graceful = "none"
    /\ state = "stopped" => graceful \in {"none", "done"}
    /\ graceful \in {"quitting", "draining", "done"} => quit
    /\ \A c \in Stoppers : pc[c] \in {"stop waits", "await graceful", "await serve"} => quit
    /\ \A c \in Stoppers : pc[c] \in {"await serve", "finish"} => graceful \in {"none", "done"}

DoneInv ==
    /\ graceful = "draining" =>
          conn # "open" /\ \A s \in Servers : spc[s] # "accepting"
    /\ graceful = "done" => engineDone
    /\ \A c \in Stoppers : pc[c] \in {"await graceful", "await serve", "finish"} => engineDone
    /\ state = "stopped" /\ quit => engineDone
    /\ engineDone =>
          /\ quit
          /\ conn \in {"none", "closed"}
          /\ \A r \in Rpcs : rpc[r] # "active"
          /\ \A s \in Servers : spc[s] # "accepting"

(* What the callers hold is the result of the stop. *)
ResultInv ==
    /\ state # "stopped" => shutdownErr = {}
    /\ \A c \in Stoppers :
          /\ pc[c] \notin {"start", "done"} => Bounded(c)
          /\ pc[c] = "start" => err[c] = {}
          /\ Bounded(c) => err[c] \subseteq Causes
          /\ Bounded(c) /\ pc[c] \in {"return", "done"} =>
                 state = "stopped" /\ err[c] = shutdownErr

(* An RPC is only cut short by a stop that reports the expiry.               *)
ForcedInv ==
    /\ \A c \in Stoppers : pc[c] \in {"stop", "stop waits"} => err[c] = ContextError
    /\ (\E r \in Rpcs : rpc[r] \in {"cancelled", "aborted"}) =>
          \/ state = "stopped" /\ shutdownErr = ContextError
          \/ \E c \in Stoppers : Stopping(c) /\ err[c] = ContextError

GrpcInv ==
    /\ HealthInv
    /\ GrpcTypeOK
    /\ ChannelInv
    /\ EngineInv
    /\ BoundInv
    /\ OwnerInv
    /\ QuitInv
    /\ DoneInv
    /\ ResultInv
    /\ ForcedInv

-----------------------------------------------------------------------------
(* health.go:25-47: every step of the bridge, and every step that is none of *)
(* its own, keeps the bridge's invariant.                                    *)
LEMMA HealthKept ==
    HealthInv /\ (HealthNext \/ HealthShutdown \/ UNCHANGED healthVars) => HealthInv'
BY StepInv DEF HealthNext

(* The zero value of Server and callers that have not called yet.            *)
LEMMA GrpcInitInv == GrpcInit => GrpcInv
<1> SUFFICES ASSUME GrpcInit PROVE GrpcInv
  OBVIOUS
<1>1. HealthInv
  BY InitInv DEF GrpcInit
<1>2. GrpcTypeOK
  BY <1>1 DEF GrpcInit, HealthInv, GrpcTypeOK, Channels, ServePCs, ShutdownPCs, Contexts
<1>3. ChannelInv /\ EngineInv /\ BoundInv
  BY NoneAssumption DEF GrpcInit, ChannelInv, EngineInv, InEngine, BoundInv, ServeReleasesListener
<1>4. OwnerInv /\ QuitInv /\ DoneInv
  BY DEF GrpcInit, OwnerInv, Stopping, QuitInv, DoneInv
<1>5. ResultInv /\ ForcedInv
  BY DEF GrpcInit, ResultInv, Bounded, ForcedInv, Stopping
<1> QED
  BY <1>1, <1>2, <1>3, <1>4, <1>5 DEF GrpcInv

(* Every step of Serve, Shutdown, grpc-go, the bridge and the clients keeps  *)
(* the invariant.                                                            *)
LEMMA GrpcStepInv == GrpcInv /\ [GrpcNext]_grpcVars => GrpcInv'
<1> SUFFICES ASSUME GrpcInv, [GrpcNext]_grpcVars PROVE GrpcInv'
  OBVIOUS
<1> USE DEF GrpcInv, adapterVars, serveVars, stopVars, engineVars
<1>1. ASSUME NEW s \in Servers, ServeNil(s) PROVE GrpcInv'
  <2>1. HealthInv'
    BY <1>1, HealthKept DEF ServeNil
  <2>2. GrpcTypeOK'
    BY <1>1, <2>1 DEF ServeNil, GrpcTypeOK, HealthInv, ServePCs
  <2>3. EngineInv'
    BY <1>1, NoneAssumption DEF ServeNil, EngineInv, InEngine, GrpcTypeOK,
       ChannelInv
  <2>4. BoundInv'
    BY <1>1 DEF ServeNil, BoundInv, ServeReleasesListener, GrpcTypeOK
  <2>5. DoneInv'
    BY <1>1 DEF ServeNil, DoneInv, GrpcTypeOK, QuitInv, OwnerInv, Stopping
  <2>6. ChannelInv' /\ OwnerInv' /\ QuitInv' /\ ResultInv' /\ ForcedInv'
    BY <1>1 DEF ServeNil, ChannelInv, OwnerInv, QuitInv, ResultInv, ForcedInv,
       Stopping, Bounded, healthVars
  <2> QED
    BY <2>1, <2>2, <2>3, <2>4, <2>5, <2>6
<1>2. ASSUME NEW s \in Servers, ServeFirst(s) PROVE GrpcInv'
  <2>1. HealthInv'
    BY <1>2, HealthKept DEF ServeFirst
  <2>2. GrpcTypeOK'
    BY <1>2, <2>1 DEF ServeFirst, GrpcTypeOK, HealthInv, ServePCs, Channels
  <2>3. ChannelInv'
    BY <1>2 DEF ServeFirst, ChannelInv, GrpcTypeOK, closeChan, healthVars
  <2>4. EngineInv'
    BY <1>2, NoneAssumption DEF ServeFirst, EngineInv, InEngine, GrpcTypeOK,
       ChannelInv
  <2>5. BoundInv'
    BY <1>2 DEF ServeFirst, BoundInv, ServeReleasesListener, GrpcTypeOK
  <2>6. OwnerInv'
    BY <1>2 DEF ServeFirst, OwnerInv, Stopping, GrpcTypeOK
  <2>7. QuitInv'
    BY <1>2 DEF ServeFirst, QuitInv, GrpcTypeOK, OwnerInv, Stopping
  <2>8. DoneInv'
    BY <1>2 DEF ServeFirst, DoneInv, GrpcTypeOK, QuitInv, OwnerInv, Stopping
  <2>9. ResultInv'
    BY <1>2 DEF ServeFirst, ResultInv, Bounded, GrpcTypeOK
  <2>10. ForcedInv'
    BY <1>2 DEF ServeFirst, ForcedInv, Stopping, GrpcTypeOK, OwnerInv
  <2> QED
    BY <2>1, <2>2, <2>3, <2>4, <2>5, <2>6, <2>7, <2>8, <2>9, <2>10
<1>3. ASSUME NEW s \in Servers, ServeDuplicate(s) PROVE GrpcInv'
  <2>1. HealthInv'
    BY <1>3, HealthKept DEF ServeDuplicate
  <2>2. GrpcTypeOK'
    BY <1>3, <2>1 DEF ServeDuplicate, GrpcTypeOK, HealthInv, ServePCs
  <2>3. EngineInv'
    BY <1>3, NoneAssumption DEF ServeDuplicate, EngineInv, InEngine, GrpcTypeOK,
       ChannelInv
  <2>4. BoundInv'
    BY <1>3 DEF ServeDuplicate, BoundInv, ServeReleasesListener, GrpcTypeOK
  <2>5. DoneInv'
    BY <1>3 DEF ServeDuplicate, DoneInv, GrpcTypeOK, QuitInv, OwnerInv, Stopping
  <2>6. ChannelInv' /\ OwnerInv' /\ QuitInv' /\ ResultInv' /\ ForcedInv'
    BY <1>3 DEF ServeDuplicate, ChannelInv, OwnerInv, QuitInv, ResultInv, ForcedInv,
       Stopping, Bounded, healthVars
  <2> QED
    BY <2>1, <2>2, <2>3, <2>4, <2>5, <2>6
<1>4. ASSUME NEW s \in Servers, ServeTooLate(s) PROVE GrpcInv'
  <2>1. HealthInv'
    BY <1>4, HealthKept DEF ServeTooLate
  <2>2. GrpcTypeOK'
    BY <1>4, <2>1 DEF ServeTooLate, GrpcTypeOK, HealthInv, ServePCs
  <2>3. EngineInv'
    BY <1>4, NoneAssumption DEF ServeTooLate, EngineInv, InEngine, GrpcTypeOK,
       ChannelInv
  <2>4. BoundInv'
    BY <1>4 DEF ServeTooLate, BoundInv, ServeReleasesListener, GrpcTypeOK
  <2>5. DoneInv'
    BY <1>4 DEF ServeTooLate, DoneInv, GrpcTypeOK, QuitInv, OwnerInv, Stopping
  <2>6. ChannelInv' /\ OwnerInv' /\ QuitInv' /\ ResultInv' /\ ForcedInv'
    BY <1>4 DEF ServeTooLate, ChannelInv, OwnerInv, QuitInv, ResultInv, ForcedInv,
       Stopping, Bounded, healthVars
  <2> QED
    BY <2>1, <2>2, <2>3, <2>4, <2>5, <2>6
<1>5. ASSUME NEW s \in Servers, ServeCloseRefused(s) PROVE GrpcInv'
  <2>1. HealthInv'
    BY <1>5, HealthKept DEF ServeCloseRefused
  <2>2. GrpcTypeOK'
    BY <1>5, <2>1 DEF ServeCloseRefused, GrpcTypeOK, HealthInv, ServePCs
  <2>3. EngineInv'
    BY <1>5, NoneAssumption DEF ServeCloseRefused, EngineInv, InEngine, GrpcTypeOK,
       ChannelInv
  <2>4. BoundInv'
    BY <1>5 DEF ServeCloseRefused, BoundInv, ServeReleasesListener, GrpcTypeOK
  <2>5. DoneInv'
    BY <1>5 DEF ServeCloseRefused, DoneInv, GrpcTypeOK, QuitInv, OwnerInv, Stopping
  <2>6. ChannelInv' /\ OwnerInv' /\ QuitInv' /\ ResultInv' /\ ForcedInv'
    BY <1>5 DEF ServeCloseRefused, ChannelInv, OwnerInv, QuitInv, ResultInv,
       ForcedInv, Stopping, Bounded, healthVars
  <2> QED
    BY <2>1, <2>2, <2>3, <2>4, <2>5, <2>6
<1>6. ASSUME NEW s \in Servers, EngineServe(s) PROVE GrpcInv'
  <2>1. HealthInv'
    BY <1>6, HealthKept DEF EngineServe
  <2>2. GrpcTypeOK'
    BY <1>6, <2>1 DEF EngineServe, GrpcTypeOK, HealthInv, ServePCs
  <2>3. EngineInv'
    BY <1>6, NoneAssumption DEF EngineServe, EngineInv, InEngine, GrpcTypeOK,
       ChannelInv
  <2>4. BoundInv'
    BY <1>6 DEF EngineServe, BoundInv, ServeReleasesListener, GrpcTypeOK
  <2>5. DoneInv'
    BY <1>6 DEF EngineServe, DoneInv, GrpcTypeOK, QuitInv, OwnerInv, Stopping
  <2>6. ChannelInv' /\ OwnerInv' /\ QuitInv' /\ ResultInv' /\ ForcedInv'
    BY <1>6 DEF EngineServe, ChannelInv, OwnerInv, QuitInv, ResultInv, ForcedInv,
       Stopping, Bounded, healthVars
  <2> QED
    BY <2>1, <2>2, <2>3, <2>4, <2>5, <2>6
<1>7. ASSUME NEW s \in Servers, EngineAcceptFails(s) PROVE GrpcInv'
  <2>1. HealthInv'
    BY <1>7, HealthKept DEF EngineAcceptFails
  <2>2. GrpcTypeOK'
    BY <1>7, <2>1 DEF EngineAcceptFails, GrpcTypeOK, HealthInv, ServePCs
  <2>3. EngineInv'
    BY <1>7, NoneAssumption DEF EngineAcceptFails, EngineInv, InEngine, GrpcTypeOK,
       ChannelInv
  <2>4. BoundInv'
    BY <1>7 DEF EngineAcceptFails, BoundInv, ServeReleasesListener, GrpcTypeOK
  <2>5. DoneInv'
    BY <1>7 DEF EngineAcceptFails, DoneInv, GrpcTypeOK, QuitInv, OwnerInv, Stopping
  <2>6. ChannelInv' /\ OwnerInv' /\ QuitInv' /\ ResultInv' /\ ForcedInv'
    BY <1>7 DEF EngineAcceptFails, ChannelInv, OwnerInv, QuitInv, ResultInv,
       ForcedInv, Stopping, Bounded, healthVars
  <2> QED
    BY <2>1, <2>2, <2>3, <2>4, <2>5, <2>6
<1>8. ASSUME NEW s \in Servers, EngineAcceptQuits(s) PROVE GrpcInv'
  <2>1. HealthInv'
    BY <1>8, HealthKept DEF EngineAcceptQuits
  <2>2. GrpcTypeOK'
    BY <1>8, <2>1 DEF EngineAcceptQuits, GrpcTypeOK, HealthInv, ServePCs
  <2>3. EngineInv'
    BY <1>8, NoneAssumption DEF EngineAcceptQuits, EngineInv, InEngine, GrpcTypeOK,
       ChannelInv
  <2>4. BoundInv'
    BY <1>8 DEF EngineAcceptQuits, BoundInv, ServeReleasesListener, GrpcTypeOK
  <2>5. DoneInv'
    BY <1>8 DEF EngineAcceptQuits, DoneInv, GrpcTypeOK, QuitInv, OwnerInv, Stopping
  <2>6. ChannelInv' /\ OwnerInv' /\ QuitInv' /\ ResultInv' /\ ForcedInv'
    BY <1>8 DEF EngineAcceptQuits, ChannelInv, OwnerInv, QuitInv, ResultInv,
       ForcedInv, Stopping, Bounded, healthVars
  <2> QED
    BY <2>1, <2>2, <2>3, <2>4, <2>5, <2>6
<1>9. ASSUME NEW s \in Servers, EngineServeReturns(s) PROVE GrpcInv'
  <2>1. HealthInv'
    BY <1>9, HealthKept DEF EngineServeReturns
  <2>2. GrpcTypeOK'
    BY <1>9, <2>1 DEF EngineServeReturns, GrpcTypeOK, HealthInv, ServePCs
  <2>3. EngineInv'
    BY <1>9, NoneAssumption DEF EngineServeReturns, EngineInv, InEngine, GrpcTypeOK,
       ChannelInv
  <2>4. BoundInv'
    BY <1>9 DEF EngineServeReturns, BoundInv, ServeReleasesListener, GrpcTypeOK
  <2>5. DoneInv'
    BY <1>9 DEF EngineServeReturns, DoneInv, GrpcTypeOK, QuitInv, OwnerInv, Stopping
  <2>6. ChannelInv' /\ OwnerInv' /\ QuitInv' /\ ResultInv' /\ ForcedInv'
    BY <1>9 DEF EngineServeReturns, ChannelInv, OwnerInv, QuitInv, ResultInv,
       ForcedInv, Stopping, Bounded, healthVars
  <2> QED
    BY <2>1, <2>2, <2>3, <2>4, <2>5, <2>6
<1>10. ASSUME NEW s \in Servers, ServeEpilogue(s) PROVE GrpcInv'
  <2>1. HealthInv'
    <3>1. HealthShutdown \/ UNCHANGED healthVars
      BY <1>10 DEF ServeEpilogue, HealthShutdown, healthVars, bridgeVars, ownerVars,
         watchVars
    <3> QED
      BY <3>1, HealthKept
  <2>2. GrpcTypeOK'
    <3>1. listener = s /\ serveDone = "open" /\ (state = "serving" => shutdownDone = "open")
      BY <1>10, NoneAssumption DEF ServeEpilogue, EngineInv, InEngine, ChannelInv
    <3>2. serveDone' = "closed" /\ shutdownDone' \in {shutdownDone, "closed"}
      BY <1>10, <3>1 DEF ServeEpilogue, closeChan
    <3>3. /\ state' \in {state, "stopped"} /\ listener' = None
          /\ spc' = [spc EXCEPT ![s] = "done"] /\ (serr' = serr \/ serr' = [serr EXCEPT ![s] = {}])
      BY <1>10 DEF ServeEpilogue
    <3>4. UNCHANGED <<shutdownErr, stopVars, ctx, bound, engineVars, graceful>>
      BY <1>10 DEF ServeEpilogue
    <3>5. HealthTypeOK'
      BY <2>1 DEF HealthInv
    <3>6. spc' \in [Servers -> ServePCs]
      BY <3>3 DEF GrpcTypeOK, ServePCs
    <3>7. serr' \in [Servers -> SUBSET (ErrNilListener \cup ErrServerAlreadyServing
                     \cup ErrServerStopped \cup EngineStopped \cup AcceptError \cup CloseError)]
      BY <3>3 DEF GrpcTypeOK
    <3>8. serveDone' \in Channels /\ shutdownDone' \in Channels
      BY <3>2 DEF GrpcTypeOK, Channels
    <3> QED
      BY <3>3, <3>4, <3>5, <3>6, <3>7, <3>8 DEF GrpcTypeOK, stopVars, engineVars
  <2>3. ChannelInv'
    <3>1. listener = s /\ serveDone = "open" /\ state # "idle"
      BY <1>10, NoneAssumption DEF ServeEpilogue, EngineInv, InEngine, ChannelInv
    <3>2. CASE state = "serving"
      BY <1>10, <3>1, <3>2 DEF ServeEpilogue, ChannelInv, closeChan, bridgeShutdown, bridgeVars
    <3>3. CASE state # "serving"
      BY <1>10, <3>1, <3>3 DEF ServeEpilogue, ChannelInv, closeChan, bridgeVars
    <3> QED
      BY <3>2, <3>3
  <2>4. EngineInv'
    BY <1>10, NoneAssumption DEF ServeEpilogue, EngineInv, InEngine, GrpcTypeOK,
       ChannelInv, closeChan
  <2>5. BoundInv'
    BY <1>10 DEF ServeEpilogue, BoundInv, ServeReleasesListener, GrpcTypeOK
  <2>6. OwnerInv'
    BY <1>10 DEF ServeEpilogue, OwnerInv, Stopping, GrpcTypeOK
  <2>7. QuitInv'
    BY <1>10 DEF ServeEpilogue, QuitInv, GrpcTypeOK, OwnerInv, Stopping
  <2>8. DoneInv'
    BY <1>10 DEF ServeEpilogue, DoneInv, GrpcTypeOK, QuitInv, OwnerInv, Stopping
  <2>9. ResultInv'
    BY <1>10 DEF ServeEpilogue, ResultInv, Bounded, GrpcTypeOK
  <2>10. ForcedInv'
    BY <1>10 DEF ServeEpilogue, ForcedInv, Stopping, GrpcTypeOK, OwnerInv
  <2> QED
    BY <2>1, <2>2, <2>3, <2>4, <2>5, <2>6, <2>7, <2>8, <2>9, <2>10
<1>11. ASSUME NEW s \in Servers, Connect(s) PROVE GrpcInv'
  <2>1. HealthInv'
    BY <1>11, HealthKept DEF Connect
  <2>2. GrpcTypeOK'
    BY <1>11, <2>1 DEF Connect, GrpcTypeOK, HealthInv
  <2>3. DoneInv'
    BY <1>11 DEF Connect, DoneInv, GrpcTypeOK, QuitInv, OwnerInv, Stopping
  <2>4. ChannelInv' /\ EngineInv' /\ BoundInv' /\ OwnerInv' /\ QuitInv' /\ ResultInv' /\
       ForcedInv'
    BY <1>11 DEF Connect, ChannelInv, EngineInv, BoundInv, OwnerInv, QuitInv,
       ResultInv, ForcedInv, InEngine, ServeReleasesListener, Stopping, Bounded,
       healthVars
  <2> QED
    BY <2>1, <2>2, <2>3, <2>4
<1>12. ASSUME NEW c \in Stoppers, ShutdownInvalid(c) PROVE GrpcInv'
  <2>1. HealthInv'
    BY <1>12, HealthKept DEF ShutdownInvalid
  <2>2. GrpcTypeOK'
    BY <1>12, <2>1 DEF ShutdownInvalid, GrpcTypeOK, HealthInv, ShutdownPCs, Causes
  <2>3. OwnerInv'
    BY <1>12 DEF ShutdownInvalid, OwnerInv, Stopping, GrpcTypeOK
  <2>4. QuitInv'
    BY <1>12 DEF ShutdownInvalid, QuitInv, GrpcTypeOK, OwnerInv, Stopping
  <2>5. DoneInv'
    BY <1>12 DEF ShutdownInvalid, DoneInv, GrpcTypeOK, QuitInv, OwnerInv, Stopping
  <2>6. ResultInv'
    BY <1>12 DEF ShutdownInvalid, ResultInv, Bounded, GrpcTypeOK
  <2>7. ForcedInv'
    BY <1>12 DEF ShutdownInvalid, ForcedInv, Stopping, GrpcTypeOK, OwnerInv
  <2>8. ChannelInv' /\ EngineInv' /\ BoundInv'
    BY <1>12 DEF ShutdownInvalid, ChannelInv, EngineInv, BoundInv, InEngine,
       ServeReleasesListener, healthVars
  <2> QED
    BY <2>1, <2>2, <2>3, <2>4, <2>5, <2>6, <2>7, <2>8
<1>13. ASSUME NEW c \in Stoppers, ShutdownIdle(c) PROVE GrpcInv'
  <2>1. HealthInv'
    <3>1. HealthShutdown \/ UNCHANGED healthVars
      BY <1>13 DEF ShutdownIdle, HealthShutdown, healthVars, bridgeVars, ownerVars,
         watchVars
    <3> QED
      BY <3>1, HealthKept
  <2>2. GrpcTypeOK'
    BY <1>13, <2>1 DEF ShutdownIdle, GrpcTypeOK, HealthInv, ShutdownPCs
  <2>3. ChannelInv'
    BY <1>13 DEF ShutdownIdle, ChannelInv, GrpcTypeOK, bridgeShutdown, bridgeVars
  <2>4. OwnerInv'
    BY <1>13 DEF ShutdownIdle, OwnerInv, Stopping, GrpcTypeOK
  <2>5. QuitInv'
    BY <1>13 DEF ShutdownIdle, QuitInv, GrpcTypeOK, OwnerInv, Stopping
  <2>6. DoneInv'
    BY <1>13 DEF ShutdownIdle, DoneInv, GrpcTypeOK, QuitInv, OwnerInv, Stopping
  <2>7. ResultInv'
    BY <1>13 DEF ShutdownIdle, ResultInv, Bounded, GrpcTypeOK
  <2>8. ForcedInv'
    BY <1>13 DEF ShutdownIdle, ForcedInv, Stopping, GrpcTypeOK, OwnerInv
  <2>9. EngineInv' /\ BoundInv'
    BY <1>13 DEF ShutdownIdle, EngineInv, BoundInv, InEngine, ServeReleasesListener
  <2> QED
    BY <2>1, <2>2, <2>3, <2>4, <2>5, <2>6, <2>7, <2>8, <2>9
<1>14. ASSUME NEW c \in Stoppers, ShutdownStopped(c) PROVE GrpcInv'
  <2>1. HealthInv'
    BY <1>14, HealthKept DEF ShutdownStopped
  <2>2. GrpcTypeOK'
    BY <1>14, <2>1 DEF ShutdownStopped, GrpcTypeOK, HealthInv, ShutdownPCs, Causes
  <2>3. OwnerInv'
    BY <1>14 DEF ShutdownStopped, OwnerInv, Stopping, GrpcTypeOK
  <2>4. QuitInv'
    BY <1>14 DEF ShutdownStopped, QuitInv, GrpcTypeOK, OwnerInv, Stopping
  <2>5. DoneInv'
    BY <1>14 DEF ShutdownStopped, DoneInv, GrpcTypeOK, QuitInv, OwnerInv, Stopping
  <2>6. ResultInv'
    BY <1>14 DEF ShutdownStopped, ResultInv, Bounded, GrpcTypeOK
  <2>7. ForcedInv'
    BY <1>14 DEF ShutdownStopped, ForcedInv, Stopping, GrpcTypeOK, OwnerInv
  <2>8. ChannelInv' /\ EngineInv' /\ BoundInv'
    BY <1>14 DEF ShutdownStopped, ChannelInv, EngineInv, BoundInv, InEngine,
       ServeReleasesListener, healthVars
  <2> QED
    BY <2>1, <2>2, <2>3, <2>4, <2>5, <2>6, <2>7, <2>8
<1>15. ASSUME NEW c \in Stoppers, ShutdownJoin(c) PROVE GrpcInv'
  <2>1. HealthInv'
    BY <1>15, HealthKept DEF ShutdownJoin
  <2>2. GrpcTypeOK'
    BY <1>15, <2>1 DEF ShutdownJoin, GrpcTypeOK, HealthInv, ShutdownPCs
  <2>3. OwnerInv'
    BY <1>15 DEF ShutdownJoin, OwnerInv, Stopping, GrpcTypeOK
  <2>4. QuitInv'
    BY <1>15 DEF ShutdownJoin, QuitInv, GrpcTypeOK, OwnerInv, Stopping
  <2>5. DoneInv'
    BY <1>15 DEF ShutdownJoin, DoneInv, GrpcTypeOK, QuitInv, OwnerInv, Stopping
  <2>6. ResultInv'
    BY <1>15 DEF ShutdownJoin, ResultInv, Bounded, GrpcTypeOK
  <2>7. ForcedInv'
    BY <1>15 DEF ShutdownJoin, ForcedInv, Stopping, GrpcTypeOK, OwnerInv
  <2>8. ChannelInv' /\ EngineInv' /\ BoundInv'
    BY <1>15 DEF ShutdownJoin, ChannelInv, EngineInv, BoundInv, InEngine,
       ServeReleasesListener, healthVars
  <2> QED
    BY <2>1, <2>2, <2>3, <2>4, <2>5, <2>6, <2>7, <2>8
<1>16. ASSUME NEW c \in Stoppers, waitForShutdown(c) PROVE GrpcInv'
  <2>1. HealthInv'
    BY <1>16, HealthKept DEF waitForShutdown
  <2>2. GrpcTypeOK'
    BY <1>16, <2>1 DEF waitForShutdown, GrpcTypeOK, HealthInv, ShutdownPCs, Causes
  <2>3. OwnerInv'
    BY <1>16 DEF waitForShutdown, OwnerInv, Stopping, GrpcTypeOK
  <2>4. QuitInv'
    BY <1>16 DEF waitForShutdown, QuitInv, GrpcTypeOK, OwnerInv, Stopping
  <2>5. DoneInv'
    BY <1>16 DEF waitForShutdown, DoneInv, GrpcTypeOK, QuitInv, OwnerInv, Stopping
  <2>6. ResultInv'
    BY <1>16 DEF waitForShutdown, ResultInv, Bounded, GrpcTypeOK, ChannelInv
  <2>7. ForcedInv'
    BY <1>16 DEF waitForShutdown, ForcedInv, Stopping, GrpcTypeOK, OwnerInv
  <2>8. ChannelInv' /\ EngineInv' /\ BoundInv'
    BY <1>16 DEF waitForShutdown, ChannelInv, EngineInv, BoundInv, InEngine,
       ServeReleasesListener, healthVars
  <2> QED
    BY <2>1, <2>2, <2>3, <2>4, <2>5, <2>6, <2>7, <2>8
<1>17. ASSUME NEW c \in Stoppers, ShutdownServing(c) PROVE GrpcInv'
  <2>1. HealthInv'
    <3>1. HealthShutdown \/ UNCHANGED healthVars
      BY <1>17 DEF ShutdownServing, HealthShutdown, healthVars, bridgeVars, ownerVars,
         watchVars
    <3> QED
      BY <3>1, HealthKept
  <2>2. GrpcTypeOK'
    BY <1>17, <2>1 DEF ShutdownServing, GrpcTypeOK, HealthInv, ShutdownPCs
  <2>3. ChannelInv'
    BY <1>17 DEF ShutdownServing, ChannelInv, GrpcTypeOK, bridgeShutdown, bridgeVars
  <2>4. OwnerInv'
    BY <1>17 DEF ShutdownServing, OwnerInv, Stopping, GrpcTypeOK
  <2>5. QuitInv'
    BY <1>17 DEF ShutdownServing, QuitInv, GrpcTypeOK, OwnerInv, Stopping
  <2>6. DoneInv'
    BY <1>17 DEF ShutdownServing, DoneInv, GrpcTypeOK, QuitInv, OwnerInv, Stopping
  <2>7. ResultInv'
    BY <1>17 DEF ShutdownServing, ResultInv, Bounded, GrpcTypeOK
  <2>8. ForcedInv'
    BY <1>17 DEF ShutdownServing, ForcedInv, Stopping, GrpcTypeOK, OwnerInv
  <2>9. EngineInv' /\ BoundInv'
    BY <1>17 DEF ShutdownServing, EngineInv, BoundInv, InEngine,
       ServeReleasesListener
  <2> QED
    BY <2>1, <2>2, <2>3, <2>4, <2>5, <2>6, <2>7, <2>8, <2>9
<1>18. ASSUME NEW c \in Stoppers, ShutdownExpired(c) PROVE GrpcInv'
  <2>1. HealthInv'
    BY <1>18, HealthKept DEF ShutdownExpired
  <2>2. GrpcTypeOK'
    BY <1>18, <2>1 DEF ShutdownExpired, GrpcTypeOK, HealthInv, ShutdownPCs, Causes
  <2>3. OwnerInv'
    BY <1>18 DEF ShutdownExpired, OwnerInv, Stopping, GrpcTypeOK
  <2>4. QuitInv'
    BY <1>18 DEF ShutdownExpired, QuitInv, GrpcTypeOK, OwnerInv, Stopping
  <2>5. DoneInv'
    BY <1>18 DEF ShutdownExpired, DoneInv, GrpcTypeOK, QuitInv, OwnerInv, Stopping
  <2>6. ResultInv'
    BY <1>18 DEF ShutdownExpired, ResultInv, Bounded, GrpcTypeOK, Causes
  <2>7. ForcedInv'
    BY <1>18 DEF ShutdownExpired, ForcedInv, Stopping, GrpcTypeOK, OwnerInv
  <2>8. ChannelInv' /\ EngineInv' /\ BoundInv'
    BY <1>18 DEF ShutdownExpired, ChannelInv, EngineInv, BoundInv, InEngine,
       ServeReleasesListener, healthVars
  <2> QED
    BY <2>1, <2>2, <2>3, <2>4, <2>5, <2>6, <2>7, <2>8
<1>19. ASSUME NEW c \in Stoppers, ShutdownGraceful(c) PROVE GrpcInv'
  <2>1. HealthInv'
    BY <1>19, HealthKept DEF ShutdownGraceful
  <2>2. GrpcTypeOK'
    BY <1>19, <2>1 DEF ShutdownGraceful, GrpcTypeOK, HealthInv, ShutdownPCs
  <2>3. OwnerInv'
    BY <1>19 DEF ShutdownGraceful, OwnerInv, Stopping, GrpcTypeOK
  <2>4. QuitInv'
    BY <1>19 DEF ShutdownGraceful, QuitInv, GrpcTypeOK, OwnerInv, Stopping
  <2>5. DoneInv'
    BY <1>19 DEF ShutdownGraceful, DoneInv, GrpcTypeOK, QuitInv, OwnerInv, Stopping
  <2>6. ResultInv'
    BY <1>19 DEF ShutdownGraceful, ResultInv, Bounded, GrpcTypeOK
  <2>7. ForcedInv'
    BY <1>19 DEF ShutdownGraceful, ForcedInv, Stopping, GrpcTypeOK, OwnerInv
  <2>8. ChannelInv' /\ EngineInv' /\ BoundInv'
    BY <1>19 DEF ShutdownGraceful, ChannelInv, EngineInv, BoundInv, InEngine,
       ServeReleasesListener, healthVars
  <2> QED
    BY <2>1, <2>2, <2>3, <2>4, <2>5, <2>6, <2>7, <2>8
<1>20. ASSUME NEW c \in Stoppers, SelectGracefulDone(c) PROVE GrpcInv'
  <2>1. HealthInv'
    BY <1>20, HealthKept DEF SelectGracefulDone
  <2>2. GrpcTypeOK'
    BY <1>20, <2>1 DEF SelectGracefulDone, GrpcTypeOK, HealthInv, ShutdownPCs,
       Causes
  <2>3. OwnerInv'
    <3>1. PICK l \in {"stop", "await serve"} : pc' = [pc EXCEPT ![c] = l]
      BY <1>20 DEF SelectGracefulDone
    <3>2. \A d \in Stoppers : Stopping(d)' <=> Stopping(d)
      BY <1>20, <3>1 DEF SelectGracefulDone, Stopping, GrpcTypeOK
    <3>3. state' = state
      BY <1>20 DEF SelectGracefulDone, adapterVars
    <3> QED
      BY <3>2, <3>3 DEF OwnerInv
  <2>4. QuitInv'
    BY <1>20 DEF SelectGracefulDone, QuitInv, GrpcTypeOK, OwnerInv, Stopping
  <2>5. DoneInv'
    BY <1>20 DEF SelectGracefulDone, DoneInv, GrpcTypeOK, QuitInv, OwnerInv,
       Stopping
  <2>6. ResultInv'
    <3>1. UNCHANGED <<state, shutdownErr, ctx>> /\ \A d \in Stoppers : Bounded(d)' <=> Bounded(d)
      BY <1>20 DEF SelectGracefulDone, adapterVars, Bounded
    <3>2. /\ pc'[c] \in {"stop", "await serve"} /\ err'[c] \in {err[c], ContextError}
          /\ \A d \in Stoppers : d # c => pc'[d] = pc[d] /\ err'[d] = err[d]
      BY <1>20 DEF SelectGracefulDone, GrpcTypeOK
    <3>3. Bounded(c)
      BY <1>20 DEF SelectGracefulDone, ResultInv
    <3>4. err'[c] \subseteq Causes
      BY <3>2, <3>3 DEF ResultInv, Causes
    <3> QED
      BY <3>1, <3>2, <3>3, <3>4 DEF ResultInv
  <2>7. ForcedInv'
    <3>1. CASE ctx[c] = "expired"
      <4>1. err' = [err EXCEPT ![c] = ContextError] /\ pc' = [pc EXCEPT ![c] = "stop"]
        BY <1>20, <3>1 DEF SelectGracefulDone
      <4>2. UNCHANGED <<state, shutdownErr, rpc>>
        BY <1>20 DEF SelectGracefulDone, adapterVars, engineVars
      <4>3. Stopping(c)' /\ err'[c] = ContextError
        BY <4>1 DEF Stopping, GrpcTypeOK
      <4>4. \A d \in Stoppers : d # c => pc'[d] = pc[d] /\ err'[d] = err[d]
        BY <4>1 DEF GrpcTypeOK
      <4> QED
        BY <4>2, <4>3, <4>4 DEF ForcedInv
    <3>2. CASE ctx[c] # "expired"
      <4>1. err' = err /\ pc' = [pc EXCEPT ![c] = "await serve"]
        BY <1>20, <3>2 DEF SelectGracefulDone
      <4>2. UNCHANGED <<state, shutdownErr, rpc>>
        BY <1>20 DEF SelectGracefulDone, adapterVars, engineVars
      <4>3. Stopping(c)'
        BY <4>1 DEF Stopping, GrpcTypeOK
      <4>4. \A d \in Stoppers : d # c => pc'[d] = pc[d]
        BY <4>1 DEF GrpcTypeOK
      <4>5. pc'[c] = "await serve"
        BY <4>1 DEF GrpcTypeOK
      <4>6. \A d \in Stoppers : Stopping(d) => Stopping(d)'
        BY <4>3, <4>4 DEF Stopping
      <4> QED
        BY <4>1, <4>2, <4>4, <4>5, <4>6 DEF ForcedInv
    <3> QED
      BY <3>1, <3>2
  <2>8. ChannelInv' /\ EngineInv' /\ BoundInv'
    BY <1>20 DEF SelectGracefulDone, ChannelInv, EngineInv, BoundInv, InEngine,
       ServeReleasesListener, healthVars
  <2> QED
    BY <2>1, <2>2, <2>3, <2>4, <2>5, <2>6, <2>7, <2>8
<1>21. ASSUME NEW c \in Stoppers, SelectContextDone(c) PROVE GrpcInv'
  <2>1. HealthInv'
    BY <1>21, HealthKept DEF SelectContextDone
  <2>2. GrpcTypeOK'
    BY <1>21, <2>1 DEF SelectContextDone, GrpcTypeOK, HealthInv, ShutdownPCs, Causes
  <2>3. OwnerInv'
    BY <1>21 DEF SelectContextDone, OwnerInv, Stopping, GrpcTypeOK
  <2>4. QuitInv'
    BY <1>21 DEF SelectContextDone, QuitInv, GrpcTypeOK, OwnerInv, Stopping
  <2>5. DoneInv'
    BY <1>21 DEF SelectContextDone, DoneInv, GrpcTypeOK, QuitInv, OwnerInv, Stopping
  <2>6. ResultInv'
    BY <1>21 DEF SelectContextDone, ResultInv, Bounded, GrpcTypeOK, Causes
  <2>7. ForcedInv'
    BY <1>21 DEF SelectContextDone, ForcedInv, Stopping, GrpcTypeOK, OwnerInv
  <2>8. ChannelInv' /\ EngineInv' /\ BoundInv'
    BY <1>21 DEF SelectContextDone, ChannelInv, EngineInv, BoundInv, InEngine,
       ServeReleasesListener, healthVars
  <2> QED
    BY <2>1, <2>2, <2>3, <2>4, <2>5, <2>6, <2>7, <2>8
<1>22. ASSUME NEW c \in Stoppers, StopFiresQuit(c) PROVE GrpcInv'
  <2>1. HealthInv'
    BY <1>22, HealthKept DEF StopFiresQuit
  <2>2. GrpcTypeOK'
    BY <1>22, <2>1 DEF StopFiresQuit, GrpcTypeOK, HealthInv, ShutdownPCs
  <2>3. BoundInv'
    BY <1>22 DEF StopFiresQuit, BoundInv, ServeReleasesListener, GrpcTypeOK,
       Registered
  <2>4. OwnerInv'
    BY <1>22 DEF StopFiresQuit, OwnerInv, Stopping, GrpcTypeOK
  <2>5. QuitInv'
    BY <1>22 DEF StopFiresQuit, QuitInv, GrpcTypeOK, OwnerInv, Stopping
  <2>6. DoneInv'
    BY <1>22 DEF StopFiresQuit, DoneInv, GrpcTypeOK, QuitInv, OwnerInv, Stopping
  <2>7. ResultInv'
    BY <1>22 DEF StopFiresQuit, ResultInv, Bounded, GrpcTypeOK
  <2>8. ForcedInv'
    BY <1>22 DEF StopFiresQuit, ForcedInv, Stopping, GrpcTypeOK, OwnerInv
  <2>9. ChannelInv' /\ EngineInv'
    BY <1>22 DEF StopFiresQuit, ChannelInv, EngineInv, InEngine, healthVars
  <2> QED
    BY <2>1, <2>2, <2>3, <2>4, <2>5, <2>6, <2>7, <2>8, <2>9
<1>23. ASSUME NEW c \in Stoppers, StopReturns(c) PROVE GrpcInv'
  <2>1. HealthInv'
    BY <1>23, HealthKept DEF StopReturns
  <2>2. GrpcTypeOK'
    BY <1>23, <2>1 DEF StopReturns, GrpcTypeOK, HealthInv, ShutdownPCs
  <2>3. OwnerInv'
    BY <1>23 DEF StopReturns, OwnerInv, Stopping, GrpcTypeOK
  <2>4. QuitInv'
    BY <1>23 DEF StopReturns, QuitInv, GrpcTypeOK, OwnerInv, Stopping
  <2>5. DoneInv'
    BY <1>23 DEF StopReturns, DoneInv, GrpcTypeOK, QuitInv, OwnerInv, Stopping
  <2>6. ResultInv'
    BY <1>23 DEF StopReturns, ResultInv, Bounded, GrpcTypeOK
  <2>7. ForcedInv'
    BY <1>23 DEF StopReturns, ForcedInv, Stopping, GrpcTypeOK, OwnerInv
  <2>8. ChannelInv' /\ EngineInv' /\ BoundInv'
    BY <1>23 DEF StopReturns, ChannelInv, EngineInv, BoundInv, InEngine,
       ServeReleasesListener, healthVars
  <2> QED
    BY <2>1, <2>2, <2>3, <2>4, <2>5, <2>6, <2>7, <2>8
<1>24. ASSUME NEW c \in Stoppers, AwaitGraceful(c) PROVE GrpcInv'
  <2>1. HealthInv'
    BY <1>24, HealthKept DEF AwaitGraceful
  <2>2. GrpcTypeOK'
    BY <1>24, <2>1 DEF AwaitGraceful, GrpcTypeOK, HealthInv, ShutdownPCs
  <2>3. OwnerInv'
    BY <1>24 DEF AwaitGraceful, OwnerInv, Stopping, GrpcTypeOK
  <2>4. QuitInv'
    BY <1>24 DEF AwaitGraceful, QuitInv, GrpcTypeOK, OwnerInv, Stopping
  <2>5. DoneInv'
    BY <1>24 DEF AwaitGraceful, DoneInv, GrpcTypeOK, QuitInv, OwnerInv, Stopping
  <2>6. ResultInv'
    BY <1>24 DEF AwaitGraceful, ResultInv, Bounded, GrpcTypeOK
  <2>7. ForcedInv'
    BY <1>24 DEF AwaitGraceful, ForcedInv, Stopping, GrpcTypeOK, OwnerInv
  <2>8. ChannelInv' /\ EngineInv' /\ BoundInv'
    BY <1>24 DEF AwaitGraceful, ChannelInv, EngineInv, BoundInv, InEngine,
       ServeReleasesListener, healthVars
  <2> QED
    BY <2>1, <2>2, <2>3, <2>4, <2>5, <2>6, <2>7, <2>8
<1>25. ASSUME NEW c \in Stoppers, AwaitServe(c) PROVE GrpcInv'
  <2>1. HealthInv'
    BY <1>25, HealthKept DEF AwaitServe
  <2>2. GrpcTypeOK'
    BY <1>25, <2>1 DEF AwaitServe, GrpcTypeOK, HealthInv, ShutdownPCs
  <2>3. OwnerInv'
    BY <1>25 DEF AwaitServe, OwnerInv, Stopping, GrpcTypeOK
  <2>4. QuitInv'
    BY <1>25 DEF AwaitServe, QuitInv, GrpcTypeOK, OwnerInv, Stopping
  <2>5. DoneInv'
    BY <1>25 DEF AwaitServe, DoneInv, GrpcTypeOK, QuitInv, OwnerInv, Stopping
  <2>6. ResultInv'
    BY <1>25 DEF AwaitServe, ResultInv, Bounded, GrpcTypeOK
  <2>7. ForcedInv'
    BY <1>25 DEF AwaitServe, ForcedInv, Stopping, GrpcTypeOK, OwnerInv
  <2>8. ChannelInv' /\ EngineInv' /\ BoundInv'
    BY <1>25 DEF AwaitServe, ChannelInv, EngineInv, BoundInv, InEngine,
       ServeReleasesListener, healthVars
  <2> QED
    BY <2>1, <2>2, <2>3, <2>4, <2>5, <2>6, <2>7, <2>8
<1>26. ASSUME NEW c \in Stoppers, finishShutdown(c) PROVE GrpcInv'
  <2>1. HealthInv'
    BY <1>26, HealthKept DEF finishShutdown
  <2>2. GrpcTypeOK'
    BY <1>26, <2>1 DEF finishShutdown, GrpcTypeOK, HealthInv, ShutdownPCs, Channels,
       closeChan, ChannelInv, EngineInv, InEngine, OwnerInv, Stopping, ResultInv
  <2>3. ChannelInv'
    BY <1>26 DEF finishShutdown, ChannelInv, GrpcTypeOK, closeChan, healthVars,
       OwnerInv, Stopping
  <2>4. OwnerInv'
    BY <1>26 DEF finishShutdown, OwnerInv, Stopping, GrpcTypeOK
  <2>5. QuitInv'
    BY <1>26 DEF finishShutdown, QuitInv, GrpcTypeOK, OwnerInv, Stopping
  <2>6. DoneInv'
    BY <1>26 DEF finishShutdown, DoneInv, GrpcTypeOK, QuitInv, OwnerInv, Stopping
  <2>7. ResultInv'
    BY <1>26 DEF finishShutdown, ResultInv, Bounded, GrpcTypeOK, OwnerInv, Stopping
  <2>8. ForcedInv'
    BY <1>26 DEF finishShutdown, ForcedInv, Stopping, GrpcTypeOK, OwnerInv
  <2>9. EngineInv' /\ BoundInv'
    BY <1>26 DEF finishShutdown, EngineInv, BoundInv, InEngine,
       ServeReleasesListener
  <2> QED
    BY <2>1, <2>2, <2>3, <2>4, <2>5, <2>6, <2>7, <2>8, <2>9
<1>27. ASSUME NEW c \in Stoppers, ShutdownReturn(c) PROVE GrpcInv'
  <2>1. HealthInv'
    BY <1>27, HealthKept DEF ShutdownReturn
  <2>2. GrpcTypeOK'
    BY <1>27, <2>1 DEF ShutdownReturn, GrpcTypeOK, HealthInv, ShutdownPCs
  <2>3. OwnerInv'
    BY <1>27 DEF ShutdownReturn, OwnerInv, Stopping, GrpcTypeOK
  <2>4. QuitInv'
    BY <1>27 DEF ShutdownReturn, QuitInv, GrpcTypeOK, OwnerInv, Stopping
  <2>5. DoneInv'
    BY <1>27 DEF ShutdownReturn, DoneInv, GrpcTypeOK, QuitInv, OwnerInv, Stopping
  <2>6. ResultInv'
    BY <1>27 DEF ShutdownReturn, ResultInv, Bounded, GrpcTypeOK
  <2>7. ForcedInv'
    BY <1>27 DEF ShutdownReturn, ForcedInv, Stopping, GrpcTypeOK, OwnerInv
  <2>8. ChannelInv' /\ EngineInv' /\ BoundInv'
    BY <1>27 DEF ShutdownReturn, ChannelInv, EngineInv, BoundInv, InEngine,
       ServeReleasesListener, healthVars
  <2> QED
    BY <2>1, <2>2, <2>3, <2>4, <2>5, <2>6, <2>7, <2>8
<1>28. ASSUME NEW c \in Stoppers, ContextExpires(c) PROVE GrpcInv'
  <2>1. HealthInv'
    BY <1>28, HealthKept DEF ContextExpires
  <2>2. GrpcTypeOK'
    BY <1>28, <2>1 DEF ContextExpires, GrpcTypeOK, HealthInv, Contexts
  <2>3. ResultInv'
    BY <1>28 DEF ContextExpires, ResultInv, Bounded, GrpcTypeOK
  <2>4. ChannelInv' /\ EngineInv' /\ BoundInv'
    BY <1>28 DEF ContextExpires, ChannelInv, EngineInv, BoundInv, InEngine, ServeReleasesListener,
       healthVars
  <2>5. OwnerInv' /\ QuitInv' /\ DoneInv'
    BY <1>28 DEF ContextExpires, OwnerInv, QuitInv, DoneInv, Stopping
  <2>6. ForcedInv'
    BY <1>28 DEF ContextExpires, ForcedInv, Stopping
  <2> QED
    BY <2>1, <2>2, <2>3, <2>4, <2>5, <2>6
<1>29. ASSUME GracefulFiresQuit PROVE GrpcInv'
  <2>1. HealthInv'
    BY <1>29, HealthKept DEF GracefulFiresQuit
  <2>2. GrpcTypeOK'
    BY <1>29, <2>1 DEF GracefulFiresQuit, GrpcTypeOK, HealthInv
  <2>3. BoundInv'
    BY <1>29 DEF GracefulFiresQuit, BoundInv, ServeReleasesListener, GrpcTypeOK,
       Registered
  <2>4. QuitInv'
    BY <1>29 DEF GracefulFiresQuit, QuitInv, GrpcTypeOK, OwnerInv, Stopping
  <2>5. DoneInv'
    BY <1>29 DEF GracefulFiresQuit, DoneInv, GrpcTypeOK, QuitInv, OwnerInv, Stopping
  <2>6. ChannelInv' /\ EngineInv' /\ OwnerInv' /\ ResultInv' /\ ForcedInv'
    BY <1>29 DEF GracefulFiresQuit, ChannelInv, EngineInv, OwnerInv, ResultInv,
       ForcedInv, InEngine, Stopping, Bounded, healthVars
  <2> QED
    BY <2>1, <2>2, <2>3, <2>4, <2>5, <2>6
<1>30. ASSUME GracefulDrains PROVE GrpcInv'
  <2>1. HealthInv'
    BY <1>30, HealthKept DEF GracefulDrains
  <2>2. GrpcTypeOK'
    BY <1>30, <2>1 DEF GracefulDrains, GrpcTypeOK, HealthInv
  <2>3. QuitInv'
    BY <1>30 DEF GracefulDrains, QuitInv, GrpcTypeOK, OwnerInv, Stopping
  <2>4. DoneInv'
    BY <1>30 DEF GracefulDrains, DoneInv, GrpcTypeOK, QuitInv, OwnerInv, Stopping
  <2>5. ChannelInv' /\ EngineInv' /\ BoundInv' /\ OwnerInv' /\ ResultInv' /\ ForcedInv'
    BY <1>30 DEF GracefulDrains, ChannelInv, EngineInv, BoundInv, OwnerInv,
       ResultInv, ForcedInv, InEngine, ServeReleasesListener, Stopping, Bounded,
       healthVars
  <2> QED
    BY <2>1, <2>2, <2>3, <2>4, <2>5
<1>31. ASSUME GracefulReturns PROVE GrpcInv'
  <2>1. HealthInv'
    BY <1>31, HealthKept DEF GracefulReturns
  <2>2. GrpcTypeOK'
    BY <1>31, <2>1 DEF GracefulReturns, GrpcTypeOK, HealthInv
  <2>3. QuitInv'
    BY <1>31 DEF GracefulReturns, QuitInv, GrpcTypeOK, OwnerInv, Stopping
  <2>4. DoneInv'
    BY <1>31 DEF GracefulReturns, DoneInv, GrpcTypeOK, QuitInv, OwnerInv, Stopping
  <2>5. ChannelInv' /\ EngineInv' /\ BoundInv' /\ OwnerInv' /\ ResultInv' /\ ForcedInv'
    BY <1>31 DEF GracefulReturns, ChannelInv, EngineInv, BoundInv, OwnerInv,
       ResultInv, ForcedInv, InEngine, ServeReleasesListener, Stopping, Bounded,
       healthVars
  <2> QED
    BY <2>1, <2>2, <2>3, <2>4, <2>5
<1>32. ASSUME NEW r \in Rpcs, RpcStart(r) PROVE GrpcInv'
  <2>1. HealthInv'
    BY <1>32, HealthKept DEF RpcStart
  <2>2. GrpcTypeOK'
    BY <1>32, <2>1 DEF RpcStart, GrpcTypeOK, HealthInv
  <2>3. DoneInv'
    BY <1>32 DEF RpcStart, DoneInv, GrpcTypeOK, QuitInv, OwnerInv, Stopping
  <2>4. ForcedInv'
    BY <1>32 DEF RpcStart, ForcedInv, Stopping, GrpcTypeOK, OwnerInv
  <2>5. ChannelInv' /\ EngineInv' /\ BoundInv' /\ OwnerInv' /\ QuitInv' /\ ResultInv'
    BY <1>32 DEF RpcStart, ChannelInv, EngineInv, BoundInv, OwnerInv, QuitInv,
       ResultInv, InEngine, ServeReleasesListener, Stopping, Bounded, healthVars
  <2> QED
    BY <2>1, <2>2, <2>3, <2>4, <2>5
<1>33. ASSUME NEW r \in Rpcs, RpcFinish(r) PROVE GrpcInv'
  <2>1. HealthInv'
    BY <1>33, HealthKept DEF RpcFinish
  <2>2. GrpcTypeOK'
    BY <1>33, <2>1 DEF RpcFinish, GrpcTypeOK, HealthInv
  <2>3. DoneInv'
    BY <1>33 DEF RpcFinish, DoneInv, GrpcTypeOK, QuitInv, OwnerInv, Stopping
  <2>4. ForcedInv'
    BY <1>33 DEF RpcFinish, ForcedInv, Stopping, GrpcTypeOK, OwnerInv
  <2>5. ChannelInv' /\ EngineInv' /\ BoundInv' /\ OwnerInv' /\ QuitInv' /\ ResultInv'
    BY <1>33 DEF RpcFinish, ChannelInv, EngineInv, BoundInv, OwnerInv, QuitInv,
       ResultInv, InEngine, ServeReleasesListener, Stopping, Bounded, healthVars
  <2> QED
    BY <2>1, <2>2, <2>3, <2>4, <2>5
<1>34. ASSUME NEW r \in Rpcs, RpcAbort(r) PROVE GrpcInv'
  <2>1. HealthInv'
    BY <1>34, HealthKept DEF RpcAbort
  <2>2. GrpcTypeOK'
    BY <1>34, <2>1 DEF RpcAbort, GrpcTypeOK, HealthInv
  <2>3. DoneInv'
    BY <1>34 DEF RpcAbort, DoneInv, GrpcTypeOK, QuitInv, OwnerInv, Stopping
  <2>4. ForcedInv'
    BY <1>34 DEF RpcAbort, ForcedInv, Stopping, GrpcTypeOK, OwnerInv
  <2>5. ChannelInv' /\ EngineInv' /\ BoundInv' /\ OwnerInv' /\ QuitInv' /\ ResultInv'
    BY <1>34 DEF RpcAbort, ChannelInv, EngineInv, BoundInv, OwnerInv, QuitInv,
       ResultInv, InEngine, ServeReleasesListener, Stopping, Bounded, healthVars
  <2> QED
    BY <2>1, <2>2, <2>3, <2>4, <2>5
<1>35. ASSUME HealthStep /\ UNCHANGED <<adapterVars, serveVars, stopVars, ctx, bound, engineVars,
                                         graceful>>
       PROVE  GrpcInv'
  <2>1. HealthInv'
    BY <1>35, HealthKept DEF HealthNext
  <2>2. stopped' = stopped
    BY <1>35 DEF HealthStep, Store, Refresh, RefreshLoad, RefreshPublish, WatchOpen, Watch,
       WatchReceive, WatchSend, WatchEnd, bridgeVars, ownerVars
  <2>3. GrpcTypeOK' /\ ChannelInv' /\ EngineInv' /\ BoundInv' /\ OwnerInv'
    <3>1. GrpcTypeOK'
      BY <1>35, <2>1, <2>2 DEF GrpcTypeOK, HealthInv
    <3>2. ChannelInv'
      BY <1>35, <2>1, <2>2 DEF ChannelInv
    <3>3. EngineInv' /\ BoundInv'
      BY <1>35, <2>1, <2>2 DEF EngineInv, InEngine, BoundInv, ServeReleasesListener
    <3>4. OwnerInv'
      BY <1>35, <2>1, <2>2 DEF OwnerInv, Stopping
    <3> QED
      BY <3>1, <3>2, <3>3, <3>4
  <2>4. QuitInv' /\ DoneInv' /\ ResultInv' /\ ForcedInv'
    BY <1>35 DEF QuitInv, DoneInv, ResultInv, Bounded, ForcedInv, Stopping
  <2> QED
    BY <2>1, <2>3, <2>4
<1>36. CASE UNCHANGED grpcVars
  <2>1. UNCHANGED healthVars
    BY <1>36 DEF grpcVars
  <2>2. HealthInv' /\ stopped' = stopped
    BY <2>1, HealthKept DEF healthVars
  <2>3. GrpcTypeOK' /\ ChannelInv' /\ EngineInv' /\ BoundInv' /\ OwnerInv'
    <3>1. GrpcTypeOK'
      BY <1>36, <2>2 DEF grpcVars, GrpcTypeOK, HealthInv
    <3>2. ChannelInv'
      BY <1>36, <2>2 DEF grpcVars, ChannelInv
    <3>3. EngineInv' /\ BoundInv'
      BY <1>36, <2>2 DEF grpcVars, EngineInv, InEngine, BoundInv, ServeReleasesListener
    <3>4. OwnerInv'
      BY <1>36, <2>2 DEF grpcVars, OwnerInv, Stopping
    <3> QED
      BY <3>1, <3>2, <3>3, <3>4
  <2>4. QuitInv' /\ DoneInv' /\ ResultInv' /\ ForcedInv'
    BY <1>36 DEF grpcVars, QuitInv, DoneInv, ResultInv, Bounded, ForcedInv, Stopping
  <2> QED
    BY <2>2, <2>3, <2>4
<1> QED
  BY <1>1, <1>2, <1>3, <1>4, <1>5, <1>6, <1>7, <1>8, <1>9, <1>10, <1>11, <1>12,
     <1>13, <1>14, <1>15, <1>16, <1>17, <1>18, <1>19, <1>20, <1>21, <1>22, <1>23,
     <1>24, <1>25, <1>26, <1>27, <1>28, <1>29, <1>30, <1>31, <1>32, <1>33, <1>34,
     <1>35, <1>36
  DEF GrpcNext, ServeEntry, ServeStep, ShutdownEntry, ShutdownStep, GracefulStep

(* The invariant behind every theorem of this module.                        *)
LEMMA GrpcInductive == GrpcSpec => []GrpcInv
BY GrpcInitInv, GrpcStepInv, PTL DEF GrpcSpec

(* server.go:43-53 and 167, 171, 248: the fields keep their types, and no    *)
(* channel is closed twice or while nil.                                     *)
THEOREM GrpcTypeCorrect == GrpcSpec => []GrpcTypeOK
<1>1. GrpcInv => GrpcTypeOK
  BY DEF GrpcInv
<1> QED
  BY <1>1, GrpcInductive, PTL

(* server.go:139-160: at most one Serve call is inside grpc-go.              *)
THEOREM GrpcSingleServe == GrpcSpec => []OneServeAtATime
<1>1. GrpcInv => OneServeAtATime
  BY DEF GrpcInv, EngineInv, OneServeAtATime
<1> QED
  BY <1>1, GrpcInductive, PTL

(* server.go:170, 196, 210: from the moment a stop begins, health clients    *)
(* are told NOT_SERVING.                                                     *)
THEOREM StopIsPublished == GrpcSpec => []NotServingOnceStopping
<1>1. GrpcInv => NotServingOnceStopping
  BY DEF GrpcInv, HealthInv, ChannelInv, StoppedIsNotServing, NotServingOnceStopping
<1> QED
  BY <1>1, GrpcInductive, PTL

(* server.go:149-155 and 162-179: no Serve call leaks its listener.          *)
THEOREM ListenersReleased == GrpcSpec => []ServeReleasesListener
<1>1. GrpcInv => ServeReleasesListener
  BY DEF GrpcInv, BoundInv
<1> QED
  BY <1>1, GrpcInductive, PTL

(* server.go:207-237: a completed stop leaves no RPC running uncancelled.    *)
THEOREM NothingLeftRunning == GrpcSpec => []StopLeavesNothingRunning
<1>1. GrpcInv => StopLeavesNothingRunning
  BY DEF GrpcInv, DoneInv, StopLeavesNothingRunning
<1> QED
  BY <1>1, GrpcInductive, PTL

(* server.go:224-237: a Shutdown that returns nil cut no RPC short.          *)
THEOREM SuccessIsDrained == GrpcSpec => []SuccessMeansDrained
<1>1. ASSUME GrpcInv PROVE SuccessMeansDrained
  <2> SUFFICES ASSUME NEW c \in Stoppers, pc[c] = "done", Bounded(c), err[c] = {},
                      NEW r \in Rpcs, rpc[r] \in {"cancelled", "aborted"}
               PROVE  FALSE
    BY DEF SuccessMeansDrained
  <2>1. state = "stopped" /\ shutdownErr = {}
    BY <1>1 DEF GrpcInv, ResultInv
  <2>2. \A d \in Stoppers : ~Stopping(d)
    BY <1>1, <2>1 DEF GrpcInv, OwnerInv
  <2>3. shutdownErr = ContextError
    BY <1>1, <2>2 DEF GrpcInv, ForcedInv
  <2> QED
    BY <2>1, <2>3 DEF ContextError
<1> QED
  BY <1>1, GrpcInductive, PTL

-----------------------------------------------------------------------------
(* The refinement.  Most steps leave the three abstract variables alone; the *)
(* others are one abstract action each.                                      *)
Given(c) == IF pc[c] = "done" /\ Bounded(c) THEN err[c] ELSE {"unanswered"}

Phase == IF state = "serving" THEN "running" ELSE state

(* A step that keeps the phase, the shared result and the answers given is a *)
(* stuttering step of the abstract lifecycle.                                *)
LEMMA Stutter ==
    ASSUME Phase' = Phase, shutdownErr' = shutdownErr,
           \A c \in Stoppers : Given(c)' = Given(c)
    PROVE  UNCHANGED Abstract!lifecycleVars
BY DEF Phase, Given, Abstract!lifecycleVars

(* Every step of the adapter is a step of the abstract lifecycle or stutters. *)
LEMMA StepRefines ==
    GrpcInv /\ [GrpcNext]_grpcVars => [Abstract!LifecycleNext]_Abstract!lifecycleVars
<1> SUFFICES ASSUME GrpcInv, [GrpcNext]_grpcVars
             PROVE  Abstract!LifecycleNext \/ UNCHANGED Abstract!lifecycleVars
  OBVIOUS
<1> USE DEF adapterVars, serveVars, stopVars, engineVars
<1> USE DEF Abstract!LifecycleNext
<1>1. ASSUME NEW s \in Servers, ServeFirst(s) PROVE Abstract!Start
  BY <1>1 DEF ServeFirst, Abstract!Start, Bounded
<1>2. ASSUME NEW s \in Servers, ServeEpilogue(s)
      PROVE  Abstract!Collapse \/ UNCHANGED Abstract!lifecycleVars
  <2>1. CASE state = "serving"
    BY <1>2, <2>1 DEF ServeEpilogue, Abstract!Collapse, Bounded
  <2>2. CASE state # "serving"
    BY <1>2, <2>2, Stutter DEF ServeEpilogue, Phase, Given, Bounded
  <2> QED
    BY <2>1, <2>2
<1>3. ASSUME NEW s \in Servers,
             \/ ServeNil(s) \/ ServeDuplicate(s) \/ ServeTooLate(s) \/ ServeCloseRefused(s)
             \/ EngineServe(s) \/ EngineAcceptFails(s) \/ EngineAcceptQuits(s)
             \/ EngineServeReturns(s) \/ Connect(s)
      PROVE  UNCHANGED Abstract!lifecycleVars
  BY <1>3, Stutter DEF ServeNil, ServeDuplicate, ServeTooLate, ServeCloseRefused, EngineServe,
     EngineAcceptFails, EngineAcceptQuits, EngineServeReturns, Connect, Phase, Given, Bounded
<1>4. ASSUME NEW c \in Stoppers, ShutdownIdle(c) PROVE Abstract!StopIdle
  <2>1. \A d \in Stoppers : Given(d)' = Given(d)
    BY <1>4 DEF ShutdownIdle, Given, Bounded, GrpcInv, GrpcTypeOK
  <2> QED
    BY <1>4, <2>1 DEF ShutdownIdle, Abstract!StopIdle, Given
<1>5. ASSUME NEW c \in Stoppers, ShutdownServing(c) PROVE Abstract!BeginStop
  <2>1. \A d \in Stoppers : Given(d)' = Given(d)
    BY <1>5 DEF ShutdownServing, Given, Bounded, GrpcInv, GrpcTypeOK
  <2> QED
    BY <1>5, <2>1 DEF ShutdownServing, Abstract!BeginStop, Given
<1>6. ASSUME NEW c \in Stoppers, finishShutdown(c) PROVE Abstract!FinishStop
  <2>1. \A d \in Stoppers : Given(d)' = Given(d)
    BY <1>6 DEF finishShutdown, Given, Bounded, GrpcInv, GrpcTypeOK
  <2>2. state = "stopping" /\ err[c] \in SUBSET Causes
    BY <1>6 DEF finishShutdown, GrpcInv, OwnerInv, Stopping, ResultInv
  <2> QED
    BY <1>6, <2>1, <2>2 DEF finishShutdown, Abstract!FinishStop, Given
<1>7. ASSUME NEW c \in Stoppers, ShutdownReturn(c) PROVE Abstract!Answer(c)
  <2>1. state = "stopped" /\ err[c] = shutdownErr /\ Bounded(c)
    BY <1>7 DEF ShutdownReturn, GrpcInv, ResultInv
  <2>2. Given(c) = {"unanswered"} /\ Given(c)' = shutdownErr
    BY <1>7, <2>1 DEF ShutdownReturn, Given, Bounded, GrpcInv, GrpcTypeOK
  <2>3. \A d \in Stoppers : d # c => Given(d)' = Given(d)
    BY <1>7 DEF ShutdownReturn, Given, Bounded, GrpcInv, GrpcTypeOK
  <2>4. [d \in Stoppers |-> Given(d)]'
            = [[d \in Stoppers |-> Given(d)] EXCEPT ![c] = shutdownErr]
    BY <2>2, <2>3
  <2> QED
    BY <1>7, <2>1, <2>2, <2>4 DEF ShutdownReturn, Abstract!Answer, Abstract!Unanswered, Given
<1>8. ASSUME NEW c \in Stoppers, ShutdownInvalid(c) \/ ContextExpires(c)
      PROVE  UNCHANGED Abstract!lifecycleVars
  <2>1. \A d \in Stoppers : Given(d)' = Given(d)
    BY <1>8 DEF ShutdownInvalid, ContextExpires, Given, Bounded, GrpcInv, GrpcTypeOK
  <2> QED
    BY <1>8, <2>1, Stutter DEF ShutdownInvalid, ContextExpires, Phase
<1>9. ASSUME NEW c \in Stoppers,
             \/ ShutdownStopped(c) \/ ShutdownJoin(c) \/ waitForShutdown(c)
             \/ ShutdownExpired(c) \/ ShutdownGraceful(c) \/ SelectGracefulDone(c)
             \/ SelectContextDone(c) \/ StopFiresQuit(c) \/ StopReturns(c)
             \/ AwaitGraceful(c) \/ AwaitServe(c)
      PROVE  UNCHANGED Abstract!lifecycleVars
  <2> USE DEF ShutdownStopped, ShutdownJoin, waitForShutdown, ShutdownExpired, ShutdownGraceful,
              SelectGracefulDone, SelectContextDone, StopFiresQuit, StopReturns, AwaitGraceful,
              AwaitServe
  <2>1. /\ state' = state /\ shutdownErr' = shutdownErr /\ ctx' = ctx
        /\ pc[c] # "done"
        /\ \A d \in Stoppers : d # c => pc'[d] = pc[d] /\ err'[d] = err[d]
    BY <1>9 DEF GrpcInv, GrpcTypeOK
  <2>2. pc'[c] # "done"
    BY <1>9 DEF GrpcInv, GrpcTypeOK
  <2>3. \A d \in Stoppers : Given(d)' = Given(d)
    BY <2>1, <2>2 DEF Given, Bounded
  <2> QED
    BY <2>1, <2>3, Stutter DEF Phase
<1>10. ASSUME GracefulFiresQuit \/ GracefulDrains \/ GracefulReturns
       PROVE  UNCHANGED Abstract!lifecycleVars
  BY <1>10, Stutter DEF GracefulFiresQuit, GracefulDrains, GracefulReturns, Phase, Given, Bounded
<1>11. ASSUME NEW r \in Rpcs, RpcStart(r) \/ RpcFinish(r) \/ RpcAbort(r)
       PROVE  UNCHANGED Abstract!lifecycleVars
  BY <1>11, Stutter DEF RpcStart, RpcFinish, RpcAbort, Phase, Given, Bounded
<1>12. CASE UNCHANGED <<adapterVars, serveVars, stopVars, ctx, bound, engineVars, graceful>>
  BY <1>12, Stutter DEF Phase, Given, Bounded
<1> QED
  BY <1>1, <1>2, <1>3, <1>4, <1>5, <1>6, <1>7, <1>8, <1>9, <1>10, <1>11, <1>12
  DEF GrpcNext, grpcVars, ServeEntry, ServeStep, ShutdownEntry, ShutdownStep, GracefulStep

(* server.go:181-182, "Concurrent callers wait for the same completed        *)
(* result": the adapter implements the abstract lifecycle.                   *)
THEOREM GrpcRefinement == GrpcSpec => ImplementsLifecycle
<1>1. GrpcInit => Abstract!LifecycleInit
  BY DEF GrpcInit, Abstract!LifecycleInit, Abstract!Unanswered
<1>2. GrpcInv /\ [GrpcNext]_grpcVars => [Abstract!LifecycleNext]_Abstract!lifecycleVars
  BY StepRefines
<1> QED
  BY <1>1, <1>2, GrpcInductive, PTL DEF GrpcSpec, ImplementsLifecycle, Abstract!LifecycleSpec

-----------------------------------------------------------------------------
(* health.go:39-47 with server.go:170, 196, 210: inside the adapter, the     *)
(* bridge behaves as HealthBridge says, so its theorems hold there too.      *)
THEOREM BridgeInAdapter == GrpcSpec => HealthSpec
<1>1. GrpcInit => HealthInit
  BY DEF GrpcInit
<1>2. ASSUME [GrpcNext]_grpcVars PROVE [HealthNext]_healthVars
  <2>1. ASSUME NEW s \in Servers,
               ServeEntry(s) \/ ServeStep(s) \/ EngineAcceptFails(s) \/ Connect(s)
        PROVE  HealthShutdown \/ UNCHANGED healthVars
    <3>1. CASE ServeEpilogue(s)
      BY <3>1 DEF ServeEpilogue, HealthShutdown, healthVars, bridgeVars, ownerVars, watchVars
    <3>2. CASE ~ServeEpilogue(s)
      BY <2>1, <3>2 DEF ServeEntry, ServeStep, ServeNil, ServeFirst, ServeDuplicate, ServeTooLate,
         ServeCloseRefused, EngineServe, EngineAcceptFails, EngineAcceptQuits,
         EngineServeReturns, Connect
    <3> QED
      BY <3>1, <3>2
  <2>2. ASSUME NEW c \in Stoppers, ShutdownEntry(c)
        PROVE  HealthShutdown \/ UNCHANGED healthVars
    BY <2>2 DEF ShutdownEntry, ShutdownInvalid, ShutdownIdle, ShutdownStopped, ShutdownJoin,
       ShutdownServing, HealthShutdown, healthVars, ownerVars, watchVars
  <2>3. ASSUME NEW c \in Stoppers, ShutdownStep(c) \/ ContextExpires(c)
        PROVE  UNCHANGED healthVars
    BY <2>3 DEF ShutdownStep, waitForShutdown, ShutdownExpired, ShutdownGraceful,
       SelectGracefulDone, SelectContextDone, StopFiresQuit, StopReturns, AwaitGraceful,
       AwaitServe, finishShutdown, ShutdownReturn, ContextExpires
  <2>4. ASSUME GracefulStep PROVE UNCHANGED healthVars
    BY <2>4 DEF GracefulStep, GracefulFiresQuit, GracefulDrains, GracefulReturns
  <2>5. ASSUME NEW r \in Rpcs, RpcStart(r) \/ RpcFinish(r) \/ RpcAbort(r)
        PROVE  UNCHANGED healthVars
    BY <2>5 DEF RpcStart, RpcFinish, RpcAbort
  <2>6. CASE UNCHANGED grpcVars
    BY <2>6 DEF grpcVars
  <2> QED
    BY <1>2, <2>1, <2>2, <2>3, <2>4, <2>5, <2>6 DEF GrpcNext, HealthNext
<1> QED
  BY <1>1, <1>2, PTL DEF GrpcSpec, HealthSpec

-----------------------------------------------------------------------------
(* What follows from the refinement for the adapter's own variables. *)

AgreeInv ==
    \A c \in Stoppers :
        Given(c) # {"unanswered"} => state = "stopped" /\ Given(c) = shutdownErr

LEMMA AbstractStep ==
    ASSUME [Abstract!LifecycleNext]_Abstract!lifecycleVars
    PROVE  /\ state = "stopped" => state' = "stopped" /\ shutdownErr' = shutdownErr
           /\ AgreeInv => AgreeInv'
<1> DEFINE Final == /\ state = "stopped" => state' = "stopped" /\ shutdownErr' = shutdownErr
                    /\ AgreeInv => AgreeInv'
<1>1. ASSUME Phase # "stopped", \A c \in Stoppers : Given(c)' = Given(c) PROVE Final
  <2>1. state # "stopped"
    BY <1>1 DEF Phase
  <2> QED
    BY <1>1, <2>1 DEF AgreeInv
<1>2. CASE \/ Abstract!Start \/ Abstract!StopIdle \/ Abstract!Collapse
         \/ Abstract!BeginStop \/ Abstract!FinishStop
  <2>1. Phase # "stopped"
    BY <1>2 DEF Abstract!Start, Abstract!StopIdle, Abstract!Collapse, Abstract!BeginStop,
                Abstract!FinishStop, Phase
  <2>2. [c \in Stoppers |-> Given(c)]' = [c \in Stoppers |-> Given(c)]
    BY <1>2 DEF Abstract!Start, Abstract!StopIdle, Abstract!Collapse, Abstract!BeginStop,
                Abstract!FinishStop, Given
  <2>3. \A c \in Stoppers : Given(c)' = Given(c)
    BY <2>2
  <2> QED
    BY <1>1, <2>1, <2>3
<1>3. ASSUME NEW c \in Stoppers, Abstract!Answer(c) PROVE Final
  <2>1. Phase' = Phase /\ Phase = "stopped" /\ shutdownErr' = shutdownErr
    BY <1>3 DEF Abstract!Answer, Phase
  <2>2. state' = state
    BY <2>1 DEF Phase
  <2>3. [d \in Stoppers |-> Given(d)]'
            = [[d \in Stoppers |-> Given(d)] EXCEPT ![c] = shutdownErr]
    BY <1>3 DEF Abstract!Answer, Given
  <2>4. \A d \in Stoppers : Given(d)' = IF d = c THEN shutdownErr ELSE Given(d)
    BY <2>3
  <2>5. state = "stopped"
    BY <2>1 DEF Phase
  <2> QED
    BY <2>1, <2>2, <2>4, <2>5 DEF AgreeInv
<1>4. CASE UNCHANGED Abstract!lifecycleVars
  <2>1. Phase' = Phase /\ shutdownErr' = shutdownErr
    BY <1>4 DEF Abstract!lifecycleVars, Phase
  <2>2. [c \in Stoppers |-> Given(c)]' = [c \in Stoppers |-> Given(c)]
    BY <1>4 DEF Abstract!lifecycleVars, Given
  <2>3. \A c \in Stoppers : Given(c)' = Given(c)
    BY <2>2
  <2>4. state = "stopped" <=> state' = "stopped"
    BY <2>1 DEF Phase
  <2> QED
    BY <2>1, <2>3, <2>4 DEF AgreeInv
<1> QED
  BY <1>2, <1>3, <1>4 DEF Abstract!LifecycleNext

(* server.go:181-182 and 199-202: once the adapter is stopped it stays so    *)
(* and its result is never replaced, whoever calls afterwards.               *)
THEOREM GrpcStopIsFinal ==
    GrpcSpec => [][state = "stopped" => state' = "stopped" /\ shutdownErr' = shutdownErr]_grpcVars
<1>1. GrpcInv /\ [GrpcNext]_grpcVars =>
          [state = "stopped" => state' = "stopped" /\ shutdownErr' = shutdownErr]_grpcVars
  BY StepRefines, AbstractStep
<1> QED
  BY <1>1, GrpcInductive, PTL DEF GrpcSpec

(* server.go:181-182 and 199-202: two Shutdown callers with bounded          *)
(* contexts are never told different results, however late the second comes. *)
THEOREM GrpcResultIsShared ==
    GrpcSpec => [](\A c, d \in Stoppers :
                      /\ pc[c] = "done" /\ Bounded(c)
                      /\ pc[d] = "done" /\ Bounded(d)
                      => state = "stopped" /\ err[c] = shutdownErr /\ err[d] = err[c])
<1>1. GrpcInit => AgreeInv
  BY DEF GrpcInit, AgreeInv, Given
<1>2. GrpcInv /\ AgreeInv /\ [GrpcNext]_grpcVars => AgreeInv'
  BY StepRefines, AbstractStep
<1>3. GrpcInv /\ AgreeInv =>
          \A c, d \in Stoppers :
              /\ pc[c] = "done" /\ Bounded(c)
              /\ pc[d] = "done" /\ Bounded(d)
              => state = "stopped" /\ err[c] = shutdownErr /\ err[d] = err[c]
  <2> SUFFICES ASSUME GrpcInv, AgreeInv, NEW c \in Stoppers, pc[c] = "done", Bounded(c)
               PROVE  state = "stopped" /\ err[c] = shutdownErr
    OBVIOUS
  <2>1. Given(c) = err[c] /\ err[c] \subseteq Causes
    BY DEF Given, GrpcInv, ResultInv
  <2>2. "unanswered" \notin Causes
    BY DEF Causes, ContextError
  <2>3. err[c] # {"unanswered"}
    BY <2>1, <2>2
  <2> QED
    BY <2>1, <2>3 DEF AgreeInv
<1> QED
  BY <1>1, <1>2, <1>3, GrpcInductive, PTL DEF GrpcSpec
=============================================================================
