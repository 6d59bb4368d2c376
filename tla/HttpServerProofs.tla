-------------------------- MODULE HttpServerProofs --------------------------
(***************************************************************************)
(* The HTTP adapter's lifecycle, proved for any number of Serve and        *)
(* Shutdown calls and requests: no channel is closed twice, at most one    *)
(* Serve is inside Fiber, a startup Shutdown keeps Serve from accepting,   *)
(* and the adapter implements the abstract Lifecycle.                      *)
(*                                                                         *)
(* The inductive invariant ties the two channels, Server.listener and the  *)
(* program counters to Server.state: a stop has exactly one owner, and     *)
(* only the owner, or a Serve that ends by itself, closes shutdownDone.    *)
(***************************************************************************)
EXTENDS HttpServer, TLAPS

(* A Shutdown call that owns the stop, between its critical sections. *)
Stopping(c) == pc[c] \in {"close listener", "engine", "drain", "await exit", "finish"}

(* The channels follow the state: each is open exactly while its close is    *)
(* still to come.                                                            *)
ChannelInv ==
    /\ state = "idle" => serveDone = "nil" /\ shutdownDone = "nil"
    /\ state \in {"starting", "serving"} => serveDone = "open"
    /\ state \in {"starting", "serving", "stopping"} => shutdownDone = "open"

(* Server.listener marks the one Serve call inside Fiber. *)
EngineInv ==
    /\ \A s \in Servers : InEngine(s) <=> listener = s
    /\ listener # None <=> serveDone = "open"
    /\ \A s \in Servers : spc[s] \in {"armed", "accepting"} => state # "starting"
    /\ state \in {"idle", "starting"} => \A r \in Requests : request[r] = "idle"

(* A stop has exactly one owner. *)
OwnerInv ==
    /\ \A c \in Stoppers : Stopping(c) => state = "stopping"
    /\ \A c, d \in Stoppers : Stopping(c) /\ Stopping(d) => c = d
    /\ \A c \in Stoppers : pc[c] = "close listener" => held[c] # None

StartupInv ==
    \A c \in Stoppers : origin[c] = "startup" => state \in {"stopping", "stopped"}

(* What the callers hold is the result of the stop. *)
ResultInv ==
    /\ state # "stopped" => shutdownErr = {}
    /\ \A c \in Stoppers :
          /\ pc[c] \notin {"start", "done"} => Bounded(c)
          /\ pc[c] = "start" => err[c] = {}
          /\ Bounded(c) => err[c] \subseteq Causes
          /\ pc[c] = "return" => state = "stopped" /\ err[c] = shutdownErr

HttpInv ==
    /\ HttpTypeOK
    /\ ChannelInv
    /\ EngineInv
    /\ OwnerInv
    /\ StartupInv
    /\ ResultInv
    /\ StartupShutdownPreventsServing

-----------------------------------------------------------------------------
(* The error sets used below. *)
LEMMA CauseFacts ==
    /\ ContextError \subseteq Causes /\ CloseError \subseteq Causes
    /\ \A S : \A e \in CloseOutcomes(S) : e \subseteq CloseError
BY DEF Causes, CloseOutcomes

(* The owner of a stop, between its critical sections, stays its only owner. *)
LEMMA OwnerKept ==
    ASSUME HttpTypeOK, OwnerInv, NEW c \in Stoppers, Stopping(c), NEW l, l # "close listener",
           pc' = [pc EXCEPT ![c] = l], state' = state, held' = held
    PROVE  OwnerInv'
<1>1. pc \in [Stoppers -> ShutdownPCs]
  BY DEF HttpTypeOK
<1>2. \A d \in Stoppers : pc'[d] = IF d = c THEN l ELSE pc[d]
  BY <1>1
<1>3. state = "stopping" /\ \A d \in Stoppers : Stopping(d) => d = c
  BY DEF OwnerInv
<1>4. \A d \in Stoppers : Stopping(d)' => d = c
  BY <1>2, <1>3 DEF Stopping
<1>5. \A d \in Stoppers : pc'[d] = "close listener" => held'[d] # None
  BY <1>2 DEF OwnerInv
<1> QED
  BY <1>3, <1>4, <1>5 DEF OwnerInv

(* The zero value of Server and callers that have not called yet.            *)
LEMMA InitInv == HttpInit => HttpInv
<1> SUFFICES ASSUME HttpInit PROVE HttpInv
  OBVIOUS
<1>1. HttpTypeOK
  BY DEF HttpInit, HttpTypeOK, Channels, ServePCs, ShutdownPCs, Contexts
<1>2. ChannelInv /\ EngineInv
  BY NoneAssumption DEF HttpInit, ChannelInv, EngineInv, InEngine
<1>3. OwnerInv /\ StartupInv /\ ResultInv /\ StartupShutdownPreventsServing
  BY DEF HttpInit, OwnerInv, Stopping, StartupInv, ResultInv, Bounded,
         StartupShutdownPreventsServing
<1> QED
  BY <1>1, <1>2, <1>3 DEF HttpInv

(* Every step of Serve, Shutdown, Fiber and the clients keeps the invariant. *)
LEMMA StepInv == HttpInv /\ [HttpNext]_httpVars => HttpInv'
<1> SUFFICES ASSUME HttpInv, [HttpNext]_httpVars PROVE HttpInv'
  OBVIOUS
<1> USE DEF HttpInv, adapterVars, serveVars, stopVars, engineVars
<1>1. ASSUME NEW s \in Servers, ServeNil(s) PROVE HttpInv'
  <2>1. HttpTypeOK'
    BY <1>1 DEF ServeNil, HttpTypeOK, ServePCs, ShutdownPCs, Contexts, Channels
  <2>2. ChannelInv' /\ EngineInv'
    BY NoneAssumption, <1>1 DEF ServeNil, HttpTypeOK, ChannelInv, EngineInv, InEngine, closeChan
  <2>3. OwnerInv' /\ ResultInv'
    BY <1>1 DEF ServeNil, OwnerInv, Stopping, ResultInv, Bounded
  <2>4. StartupInv' /\ StartupShutdownPreventsServing'
    BY <1>1 DEF ServeNil, HttpTypeOK, StartupInv, StartupShutdownPreventsServing,
               EngineInv
  <2> QED
    BY <2>1, <2>2, <2>3, <2>4
<1>2. ASSUME NEW s \in Servers, ServeFirst(s) PROVE HttpInv'
  <2>1. HttpTypeOK'
    BY <1>2 DEF ServeFirst, HttpTypeOK, ServePCs, ShutdownPCs, Contexts, Channels
  <2>2. ChannelInv' /\ EngineInv'
    BY NoneAssumption, <1>2 DEF ServeFirst, HttpTypeOK, ChannelInv, EngineInv, InEngine, closeChan
  <2>3. OwnerInv'
    BY NoneAssumption, <1>2 DEF ServeFirst, HttpTypeOK, OwnerInv, Stopping, ChannelInv, EngineInv
  <2>4. ResultInv'
    BY <1>2 DEF ServeFirst, HttpTypeOK, ResultInv, Bounded, ChannelInv
  <2>5. StartupInv' /\ StartupShutdownPreventsServing'
    BY <1>2 DEF ServeFirst, HttpTypeOK, StartupInv, StartupShutdownPreventsServing,
               EngineInv
  <2> QED
    BY <2>1, <2>2, <2>3, <2>4, <2>5
<1>3. ASSUME NEW s \in Servers, ServeRefused(s) PROVE HttpInv'
  <2>1. HttpTypeOK'
    BY <1>3 DEF ServeRefused, HttpTypeOK, ServePCs, ShutdownPCs, Contexts, Channels
  <2>2. ChannelInv' /\ EngineInv'
    BY NoneAssumption, <1>3 DEF ServeRefused, HttpTypeOK, ChannelInv, EngineInv, InEngine, closeChan
  <2>3. OwnerInv' /\ ResultInv'
    BY <1>3 DEF ServeRefused, OwnerInv, Stopping, ResultInv, Bounded
  <2>4. StartupInv' /\ StartupShutdownPreventsServing'
    BY <1>3 DEF ServeRefused, HttpTypeOK, StartupInv, StartupShutdownPreventsServing,
               EngineInv
  <2> QED
    BY <2>1, <2>2, <2>3, <2>4
<1>4. ASSUME NEW s \in Servers, BeforeServe(s) PROVE HttpInv'
  <2>1. HttpTypeOK'
    BY <1>4 DEF BeforeServe, HttpTypeOK, ServePCs, ShutdownPCs, Contexts, Channels
  <2>2. ChannelInv' /\ EngineInv'
    BY NoneAssumption, <1>4 DEF BeforeServe, HttpTypeOK, ChannelInv, EngineInv, InEngine, closeChan
  <2>3. OwnerInv'
    BY NoneAssumption, <1>4 DEF BeforeServe, HttpTypeOK, OwnerInv, Stopping, ChannelInv, EngineInv
  <2>4. ResultInv'
    BY <1>4 DEF BeforeServe, HttpTypeOK, ResultInv, Bounded, ChannelInv
  <2>5. StartupInv' /\ StartupShutdownPreventsServing'
    BY <1>4 DEF BeforeServe, HttpTypeOK, StartupInv, StartupShutdownPreventsServing,
               EngineInv
  <2> QED
    BY <2>1, <2>2, <2>3, <2>4, <2>5
<1>5. ASSUME NEW s \in Servers, EngineRegister(s) PROVE HttpInv'
  <2>1. HttpTypeOK'
    BY <1>5 DEF EngineRegister, HttpTypeOK, ServePCs, ShutdownPCs, Contexts, Channels
  <2>2. ChannelInv' /\ EngineInv'
    BY NoneAssumption, <1>5 DEF EngineRegister, HttpTypeOK, ChannelInv, EngineInv, InEngine, closeChan
  <2>3. OwnerInv' /\ ResultInv'
    BY <1>5 DEF EngineRegister, OwnerInv, Stopping, ResultInv, Bounded
  <2>4. StartupInv' /\ StartupShutdownPreventsServing'
    BY <1>5 DEF EngineRegister, HttpTypeOK, StartupInv, StartupShutdownPreventsServing,
               EngineInv
  <2> QED
    BY <2>1, <2>2, <2>3, <2>4
<1>6. ASSUME NEW s \in Servers, EngineAcceptEnds(s) PROVE HttpInv'
  <2>1. HttpTypeOK'
    BY <1>6 DEF EngineAcceptEnds, HttpTypeOK, ServePCs, ShutdownPCs, Contexts, Channels
  <2>2. ChannelInv' /\ EngineInv'
    BY NoneAssumption, <1>6 DEF EngineAcceptEnds, HttpTypeOK, ChannelInv, EngineInv, InEngine, closeChan
  <2>3. OwnerInv' /\ ResultInv'
    BY <1>6 DEF EngineAcceptEnds, OwnerInv, Stopping, ResultInv, Bounded
  <2>4. StartupInv' /\ StartupShutdownPreventsServing'
    BY <1>6 DEF EngineAcceptEnds, HttpTypeOK, StartupInv, StartupShutdownPreventsServing,
               EngineInv
  <2> QED
    BY <2>1, <2>2, <2>3, <2>4
<1>7. ASSUME NEW s \in Servers, EngineAcceptFails(s) PROVE HttpInv'
  <2>1. HttpTypeOK'
    BY <1>7 DEF EngineAcceptFails, HttpTypeOK, ServePCs, ShutdownPCs, Contexts, Channels
  <2>2. ChannelInv' /\ EngineInv'
    BY NoneAssumption, <1>7 DEF EngineAcceptFails, HttpTypeOK, ChannelInv, EngineInv, InEngine, closeChan
  <2>3. OwnerInv' /\ ResultInv'
    BY <1>7 DEF EngineAcceptFails, OwnerInv, Stopping, ResultInv, Bounded
  <2>4. StartupInv' /\ StartupShutdownPreventsServing'
    BY <1>7 DEF EngineAcceptFails, HttpTypeOK, StartupInv, StartupShutdownPreventsServing,
               EngineInv
  <2> QED
    BY <2>1, <2>2, <2>3, <2>4
<1>8. ASSUME NEW s \in Servers, ServeEpilogue(s) PROVE HttpInv'
  <2>0. listener = s /\ serveDone = "open"
    BY NoneAssumption, <1>8 DEF ServeEpilogue, EngineInv, InEngine
  <2>1. HttpTypeOK'
    <3>1. serveDone' \in Channels
      BY <1>8, <2>0 DEF ServeEpilogue, closeChan, Channels
    <3>2. shutdownDone' \in Channels
      BY <1>8 DEF ServeEpilogue, closeChan, Channels, ChannelInv, HttpTypeOK
    <3>3. serr' \in [Servers -> SUBSET (ErrNilListener \cup ErrServerAlreadyServing
                                         \cup ErrServerStopped \cup AcceptError)]
      BY <1>8 DEF ServeEpilogue, HttpTypeOK
    <3>4. spc' \in [Servers -> ServePCs] /\ state' \in {"idle", "starting", "serving", "stopping", "stopped"}
      BY <1>8 DEF ServeEpilogue, HttpTypeOK, ServePCs
    <3> QED
      BY <1>8, <3>1, <3>2, <3>3, <3>4 DEF ServeEpilogue, HttpTypeOK
  <2>2. ChannelInv' /\ EngineInv'
    BY NoneAssumption, <1>8 DEF ServeEpilogue, HttpTypeOK, ChannelInv, EngineInv, InEngine, closeChan
  <2>3. OwnerInv'
    BY NoneAssumption, <1>8 DEF ServeEpilogue, HttpTypeOK, OwnerInv, Stopping, ChannelInv, EngineInv
  <2>4. ResultInv'
    BY <1>8 DEF ServeEpilogue, HttpTypeOK, ResultInv, Bounded, ChannelInv
  <2>5. StartupInv' /\ StartupShutdownPreventsServing'
    BY <1>8 DEF ServeEpilogue, HttpTypeOK, StartupInv, StartupShutdownPreventsServing,
               EngineInv
  <2> QED
    BY <2>1, <2>2, <2>3, <2>4, <2>5
<1>9. ASSUME NEW s \in Servers, OwnerCloses(s) PROVE HttpInv'
  <2>1. HttpTypeOK'
    BY <1>9 DEF OwnerCloses, HttpTypeOK, ServePCs, ShutdownPCs, Contexts, Channels
  <2>2. ChannelInv' /\ EngineInv'
    BY NoneAssumption, <1>9 DEF OwnerCloses, HttpTypeOK, ChannelInv, EngineInv, InEngine, closeChan
  <2>3. OwnerInv' /\ ResultInv'
    BY <1>9 DEF OwnerCloses, OwnerInv, Stopping, ResultInv, Bounded
  <2>4. StartupInv' /\ StartupShutdownPreventsServing'
    BY <1>9 DEF OwnerCloses, HttpTypeOK, StartupInv, StartupShutdownPreventsServing,
               EngineInv
  <2> QED
    BY <2>1, <2>2, <2>3, <2>4
<1>10. ASSUME NEW c \in Stoppers, ShutdownInvalid(c) PROVE HttpInv'
  <2>1. HttpTypeOK'
    BY <1>10 DEF ShutdownInvalid, HttpTypeOK, ServePCs, ShutdownPCs, Contexts, Channels
  <2>2. ChannelInv' /\ EngineInv'
    BY NoneAssumption, <1>10 DEF ShutdownInvalid, HttpTypeOK, ChannelInv, EngineInv, InEngine, closeChan
  <2>3. OwnerInv'
    BY NoneAssumption, <1>10 DEF ShutdownInvalid, HttpTypeOK, OwnerInv, Stopping, ChannelInv, EngineInv
  <2>4. ResultInv'
    BY <1>10 DEF ShutdownInvalid, HttpTypeOK, ResultInv, Bounded, ChannelInv
  <2>5. StartupInv' /\ StartupShutdownPreventsServing'
    BY <1>10 DEF ShutdownInvalid, HttpTypeOK, StartupInv, StartupShutdownPreventsServing,
               EngineInv
  <2> QED
    BY <2>1, <2>2, <2>3, <2>4, <2>5
<1>11. ASSUME NEW c \in Stoppers, ShutdownIdle(c) PROVE HttpInv'
  <2>1. HttpTypeOK'
    BY <1>11 DEF ShutdownIdle, HttpTypeOK, ServePCs, ShutdownPCs, Contexts, Channels
  <2>2. ChannelInv' /\ EngineInv'
    BY NoneAssumption, <1>11 DEF ShutdownIdle, HttpTypeOK, ChannelInv, EngineInv, InEngine, closeChan
  <2>3. OwnerInv'
    BY NoneAssumption, <1>11 DEF ShutdownIdle, HttpTypeOK, OwnerInv, Stopping, ChannelInv, EngineInv
  <2>4. ResultInv'
    BY <1>11 DEF ShutdownIdle, HttpTypeOK, ResultInv, Bounded, ChannelInv
  <2>5. StartupInv' /\ StartupShutdownPreventsServing'
    BY <1>11 DEF ShutdownIdle, HttpTypeOK, StartupInv, StartupShutdownPreventsServing,
               EngineInv
  <2> QED
    BY <2>1, <2>2, <2>3, <2>4, <2>5
<1>12. ASSUME NEW c \in Stoppers, ShutdownStopped(c) PROVE HttpInv'
  <2>1. HttpTypeOK'
    BY <1>12 DEF ShutdownStopped, HttpTypeOK, ServePCs, ShutdownPCs, Contexts, Channels
  <2>2. ChannelInv' /\ EngineInv'
    BY NoneAssumption, <1>12 DEF ShutdownStopped, HttpTypeOK, ChannelInv, EngineInv, InEngine, closeChan
  <2>3. OwnerInv'
    BY NoneAssumption, <1>12 DEF ShutdownStopped, HttpTypeOK, OwnerInv, Stopping, ChannelInv, EngineInv
  <2>4. ResultInv'
    BY <1>12 DEF ShutdownStopped, HttpTypeOK, ResultInv, Bounded, ChannelInv
  <2>5. StartupInv' /\ StartupShutdownPreventsServing'
    BY <1>12 DEF ShutdownStopped, HttpTypeOK, StartupInv, StartupShutdownPreventsServing,
               EngineInv
  <2> QED
    BY <2>1, <2>2, <2>3, <2>4, <2>5
<1>13. ASSUME NEW c \in Stoppers, ShutdownJoin(c) PROVE HttpInv'
  <2>1. HttpTypeOK'
    BY <1>13 DEF ShutdownJoin, HttpTypeOK, ServePCs, ShutdownPCs, Contexts, Channels
  <2>2. ChannelInv' /\ EngineInv'
    BY NoneAssumption, <1>13 DEF ShutdownJoin, HttpTypeOK, ChannelInv, EngineInv, InEngine, closeChan
  <2>3. OwnerInv'
    BY NoneAssumption, <1>13 DEF ShutdownJoin, HttpTypeOK, OwnerInv, Stopping, ChannelInv, EngineInv
  <2>4. ResultInv'
    BY <1>13 DEF ShutdownJoin, HttpTypeOK, ResultInv, Bounded, ChannelInv
  <2>5. StartupInv' /\ StartupShutdownPreventsServing'
    BY <1>13 DEF ShutdownJoin, HttpTypeOK, StartupInv, StartupShutdownPreventsServing,
               EngineInv
  <2> QED
    BY <2>1, <2>2, <2>3, <2>4, <2>5
<1>14. ASSUME NEW c \in Stoppers, waitForShutdown(c) PROVE HttpInv'
  <2>1. HttpTypeOK'
    BY <1>14 DEF waitForShutdown, HttpTypeOK, ServePCs, ShutdownPCs, Contexts, Channels
  <2>2. ChannelInv' /\ EngineInv'
    BY NoneAssumption, <1>14 DEF waitForShutdown, HttpTypeOK, ChannelInv, EngineInv, InEngine, closeChan
  <2>3. OwnerInv'
    BY NoneAssumption, <1>14 DEF waitForShutdown, HttpTypeOK, OwnerInv, Stopping, ChannelInv, EngineInv
  <2>4. ResultInv'
    BY <1>14 DEF waitForShutdown, HttpTypeOK, ResultInv, Bounded, ChannelInv
  <2>5. StartupInv' /\ StartupShutdownPreventsServing'
    BY <1>14 DEF waitForShutdown, HttpTypeOK, StartupInv, StartupShutdownPreventsServing,
               EngineInv
  <2> QED
    BY <2>1, <2>2, <2>3, <2>4, <2>5
<1>15. ASSUME NEW c \in Stoppers, ShutdownStarting(c) PROVE HttpInv'
  <2>1. HttpTypeOK'
    BY <1>15 DEF ShutdownStarting, HttpTypeOK, ServePCs, ShutdownPCs, Contexts, Channels
  <2>2. ChannelInv' /\ EngineInv'
    BY NoneAssumption, <1>15 DEF ShutdownStarting, HttpTypeOK, ChannelInv, EngineInv, InEngine, closeChan
  <2>3. OwnerInv'
    <3>1. listener # None /\ \A d \in Stoppers : ~Stopping(d)
      BY <1>15 DEF ShutdownStarting, ChannelInv, EngineInv, OwnerInv
    <3>2. \A d \in Stoppers : pc'[d] = IF d = c THEN "close listener" ELSE pc[d]
      BY <1>15 DEF ShutdownStarting, HttpTypeOK
    <3>3. held'[c] = listener /\ state' = "stopping"
      BY <1>15 DEF ShutdownStarting, HttpTypeOK
    <3>4. \A d \in Stoppers : Stopping(d)' => d = c
      BY <3>1, <3>2 DEF Stopping
    <3>5. \A d \in Stoppers : pc'[d] = "close listener" => d = c
      BY <3>1, <3>2 DEF Stopping
    <3> QED
      BY <3>1, <3>3, <3>4, <3>5 DEF OwnerInv
  <2>4. ResultInv'
    BY <1>15 DEF ShutdownStarting, HttpTypeOK, ResultInv, Bounded, ChannelInv
  <2>5. StartupInv' /\ StartupShutdownPreventsServing'
    BY <1>15 DEF ShutdownStarting, HttpTypeOK, StartupInv, StartupShutdownPreventsServing,
               EngineInv
  <2> QED
    BY <2>1, <2>2, <2>3, <2>4, <2>5
<1>16. ASSUME NEW c \in Stoppers, CloseListener(c) PROVE HttpInv'
  <2>0. PICK e \in CloseOutcomes({held[c]}) : err' = [err EXCEPT ![c] = e]
    BY <1>16 DEF CloseListener
  <2>1. HttpTypeOK'
    <3>1. e \subseteq Causes
      BY CauseFacts
    <3>2. err' \in [Stoppers -> SUBSET (Causes \cup ErrNilShutdownContext
                                         \cup ErrUnboundedShutdownContext)]
      BY <2>0, <3>1 DEF HttpTypeOK
    <3> QED
      BY <1>16, <3>2 DEF CloseListener, HttpTypeOK, ShutdownPCs
  <2>2. ChannelInv' /\ EngineInv'
    BY NoneAssumption, <1>16 DEF CloseListener, HttpTypeOK, ChannelInv, EngineInv, InEngine, closeChan
  <2>3. OwnerInv'
    BY <1>16, OwnerKept DEF CloseListener, Stopping, adapterVars
  <2>4. ResultInv'
    <3>1. e \subseteq Causes
      BY CauseFacts
    <3> QED
      BY <1>16, <2>0, <3>1 DEF CloseListener, HttpTypeOK, ResultInv, Bounded
  <2>5. StartupInv' /\ StartupShutdownPreventsServing'
    BY <1>16 DEF CloseListener, HttpTypeOK, StartupInv, StartupShutdownPreventsServing,
               EngineInv
  <2> QED
    BY <2>1, <2>2, <2>3, <2>4, <2>5
<1>17. ASSUME NEW c \in Stoppers, ShutdownServing(c) PROVE HttpInv'
  <2>1. HttpTypeOK'
    BY <1>17 DEF ShutdownServing, HttpTypeOK, ServePCs, ShutdownPCs, Contexts, Channels
  <2>2. ChannelInv' /\ EngineInv'
    BY NoneAssumption, <1>17 DEF ShutdownServing, HttpTypeOK, ChannelInv, EngineInv, InEngine, closeChan
  <2>3. OwnerInv'
    BY NoneAssumption, <1>17 DEF ShutdownServing, HttpTypeOK, OwnerInv, Stopping, ChannelInv, EngineInv
  <2>4. ResultInv'
    BY <1>17 DEF ShutdownServing, HttpTypeOK, ResultInv, Bounded, ChannelInv
  <2>5. StartupInv' /\ StartupShutdownPreventsServing'
    BY <1>17 DEF ShutdownServing, HttpTypeOK, StartupInv, StartupShutdownPreventsServing,
               EngineInv
  <2> QED
    BY <2>1, <2>2, <2>3, <2>4, <2>5
<1>18. ASSUME NEW c \in Stoppers, EngineNotRunning(c) PROVE HttpInv'
  <2>1. HttpTypeOK'
    BY <1>18 DEF EngineNotRunning, HttpTypeOK, ServePCs, ShutdownPCs, Contexts, Channels
  <2>2. ChannelInv' /\ EngineInv'
    BY NoneAssumption, <1>18 DEF EngineNotRunning, HttpTypeOK, ChannelInv, EngineInv, InEngine, closeChan
  <2>3. OwnerInv'
    BY <1>18, OwnerKept DEF EngineNotRunning, Stopping, adapterVars
  <2>4. ResultInv'
    BY <1>18 DEF EngineNotRunning, HttpTypeOK, ResultInv, Bounded, ChannelInv
  <2>5. StartupInv' /\ StartupShutdownPreventsServing'
    BY <1>18 DEF EngineNotRunning, HttpTypeOK, StartupInv, StartupShutdownPreventsServing,
               EngineInv
  <2> QED
    BY <2>1, <2>2, <2>3, <2>4, <2>5
<1>19. ASSUME NEW c \in Stoppers, EngineStop(c) PROVE HttpInv'
  <2>0. PICK e \in CloseOutcomes(registered) : closeErr' = [closeErr EXCEPT ![c] = e]
    BY <1>19 DEF EngineStop
  <2>1. HttpTypeOK'
    <3>1. closeErr' \in [Stoppers -> SUBSET CloseError]
      BY <2>0, CauseFacts DEF HttpTypeOK
    <3> QED
      BY <1>19, <3>1 DEF EngineStop, HttpTypeOK, ShutdownPCs
  <2>2. ChannelInv' /\ EngineInv'
    BY NoneAssumption, <1>19 DEF EngineStop, HttpTypeOK, ChannelInv, EngineInv, InEngine, closeChan
  <2>3. OwnerInv'
    BY <1>19, OwnerKept DEF EngineStop, Stopping, adapterVars
  <2>4. ResultInv'
    BY <1>19 DEF EngineStop, HttpTypeOK, ResultInv, Bounded, ChannelInv
  <2>5. StartupInv' /\ StartupShutdownPreventsServing'
    BY <1>19 DEF EngineStop, HttpTypeOK, StartupInv, StartupShutdownPreventsServing,
               EngineInv
  <2> QED
    BY <2>1, <2>2, <2>3, <2>4, <2>5
<1>20. ASSUME NEW c \in Stoppers, EngineDrained(c) PROVE HttpInv'
  <2>1. HttpTypeOK'
    BY CauseFacts, <1>20 DEF EngineDrained, HttpTypeOK, ServePCs, ShutdownPCs, Contexts, Channels
  <2>2. ChannelInv' /\ EngineInv'
    BY NoneAssumption, <1>20 DEF EngineDrained, HttpTypeOK, ChannelInv, EngineInv, InEngine, closeChan
  <2>3. OwnerInv'
    BY <1>20, OwnerKept DEF EngineDrained, Stopping, adapterVars
  <2>4. ResultInv'
    BY CauseFacts, <1>20 DEF EngineDrained, HttpTypeOK, ResultInv, Bounded, ChannelInv
  <2>5. StartupInv' /\ StartupShutdownPreventsServing'
    BY <1>20 DEF EngineDrained, HttpTypeOK, StartupInv, StartupShutdownPreventsServing,
               EngineInv
  <2> QED
    BY <2>1, <2>2, <2>3, <2>4, <2>5
<1>21. ASSUME NEW c \in Stoppers, EngineDrainExpires(c) PROVE HttpInv'
  <2>1. HttpTypeOK'
    BY CauseFacts, <1>21 DEF EngineDrainExpires, HttpTypeOK, ServePCs, ShutdownPCs, Contexts, Channels
  <2>2. ChannelInv' /\ EngineInv'
    BY NoneAssumption, <1>21 DEF EngineDrainExpires, HttpTypeOK, ChannelInv, EngineInv, InEngine, closeChan
  <2>3. OwnerInv'
    BY <1>21, OwnerKept DEF EngineDrainExpires, Stopping, adapterVars
  <2>4. ResultInv'
    BY CauseFacts, <1>21 DEF EngineDrainExpires, HttpTypeOK, ResultInv, Bounded, ChannelInv
  <2>5. StartupInv' /\ StartupShutdownPreventsServing'
    BY <1>21 DEF EngineDrainExpires, HttpTypeOK, StartupInv, StartupShutdownPreventsServing,
               EngineInv
  <2> QED
    BY <2>1, <2>2, <2>3, <2>4, <2>5
<1>22. ASSUME NEW c \in Stoppers, ServeExited(c) PROVE HttpInv'
  <2>1. HttpTypeOK'
    BY <1>22 DEF ServeExited, HttpTypeOK, ServePCs, ShutdownPCs, Contexts, Channels
  <2>2. ChannelInv' /\ EngineInv'
    BY NoneAssumption, <1>22 DEF ServeExited, HttpTypeOK, ChannelInv, EngineInv, InEngine, closeChan
  <2>3. OwnerInv'
    BY <1>22, OwnerKept DEF ServeExited, Stopping, adapterVars
  <2>4. ResultInv'
    BY <1>22 DEF ServeExited, HttpTypeOK, ResultInv, Bounded, ChannelInv
  <2>5. StartupInv' /\ StartupShutdownPreventsServing'
    BY <1>22 DEF ServeExited, HttpTypeOK, StartupInv, StartupShutdownPreventsServing,
               EngineInv
  <2> QED
    BY <2>1, <2>2, <2>3, <2>4, <2>5
<1>23. ASSUME NEW c \in Stoppers, ServeExitExpires(c) PROVE HttpInv'
  <2>1. HttpTypeOK'
    BY CauseFacts, <1>23 DEF ServeExitExpires, HttpTypeOK, ServePCs, ShutdownPCs, Contexts, Channels
  <2>2. ChannelInv' /\ EngineInv'
    BY NoneAssumption, <1>23 DEF ServeExitExpires, HttpTypeOK, ChannelInv, EngineInv, InEngine, closeChan
  <2>3. OwnerInv'
    BY <1>23, OwnerKept DEF ServeExitExpires, Stopping, adapterVars
  <2>4. ResultInv'
    BY CauseFacts, <1>23 DEF ServeExitExpires, HttpTypeOK, ResultInv, Bounded, ChannelInv
  <2>5. StartupInv' /\ StartupShutdownPreventsServing'
    BY <1>23 DEF ServeExitExpires, HttpTypeOK, StartupInv, StartupShutdownPreventsServing,
               EngineInv
  <2> QED
    BY <2>1, <2>2, <2>3, <2>4, <2>5
<1>24. ASSUME NEW c \in Stoppers, finishShutdown(c) PROVE HttpInv'
  <2>1. HttpTypeOK'
    BY CauseFacts, <1>24 DEF finishShutdown, HttpTypeOK, ServePCs, ShutdownPCs, Contexts, Channels, ChannelInv, OwnerInv,
               Stopping, ResultInv, closeChan
  <2>2. ChannelInv' /\ EngineInv'
    BY NoneAssumption, <1>24 DEF finishShutdown, HttpTypeOK, ChannelInv, EngineInv, InEngine, closeChan
  <2>3. OwnerInv'
    BY NoneAssumption, <1>24 DEF finishShutdown, HttpTypeOK, OwnerInv, Stopping, ChannelInv, EngineInv
  <2>4. ResultInv'
    BY CauseFacts, <1>24 DEF finishShutdown, HttpTypeOK, ResultInv, Bounded, ChannelInv, OwnerInv,
               Stopping
  <2>5. StartupInv' /\ StartupShutdownPreventsServing'
    BY <1>24 DEF finishShutdown, HttpTypeOK, StartupInv, StartupShutdownPreventsServing,
               EngineInv
  <2> QED
    BY <2>1, <2>2, <2>3, <2>4, <2>5
<1>25. ASSUME NEW c \in Stoppers, ShutdownReturn(c) PROVE HttpInv'
  <2>1. HttpTypeOK'
    BY <1>25 DEF ShutdownReturn, HttpTypeOK, ServePCs, ShutdownPCs, Contexts, Channels
  <2>2. ChannelInv' /\ EngineInv'
    BY NoneAssumption, <1>25 DEF ShutdownReturn, HttpTypeOK, ChannelInv, EngineInv, InEngine, closeChan
  <2>3. OwnerInv'
    BY NoneAssumption, <1>25 DEF ShutdownReturn, HttpTypeOK, OwnerInv, Stopping, ChannelInv, EngineInv
  <2>4. ResultInv'
    BY <1>25 DEF ShutdownReturn, HttpTypeOK, ResultInv, Bounded, ChannelInv
  <2>5. StartupInv' /\ StartupShutdownPreventsServing'
    BY <1>25 DEF ShutdownReturn, HttpTypeOK, StartupInv, StartupShutdownPreventsServing,
               EngineInv
  <2> QED
    BY <2>1, <2>2, <2>3, <2>4, <2>5
<1>26. ASSUME NEW c \in Stoppers, ContextExpires(c) PROVE HttpInv'
  <2>1. HttpTypeOK'
    BY <1>26 DEF ContextExpires, HttpTypeOK, ServePCs, ShutdownPCs, Contexts, Channels
  <2>2. ChannelInv' /\ EngineInv'
    BY NoneAssumption, <1>26 DEF ContextExpires, HttpTypeOK, ChannelInv, EngineInv, InEngine, closeChan
  <2>3. OwnerInv'
    BY NoneAssumption, <1>26 DEF ContextExpires, HttpTypeOK, OwnerInv, Stopping, ChannelInv, EngineInv
  <2>4. ResultInv'
    BY <1>26 DEF ContextExpires, HttpTypeOK, ResultInv, Bounded, ChannelInv
  <2>5. StartupInv' /\ StartupShutdownPreventsServing'
    BY <1>26 DEF ContextExpires, HttpTypeOK, StartupInv, StartupShutdownPreventsServing,
               EngineInv
  <2> QED
    BY <2>1, <2>2, <2>3, <2>4, <2>5
<1>27. ASSUME NEW r \in Requests, RequestStart(r) PROVE HttpInv'
  <2>1. HttpTypeOK'
    BY <1>27 DEF RequestStart, HttpTypeOK, ServePCs, ShutdownPCs, Contexts, Channels
  <2>2. ChannelInv' /\ EngineInv'
    BY NoneAssumption, <1>27 DEF RequestStart, HttpTypeOK, ChannelInv, EngineInv, InEngine, closeChan
  <2>3. OwnerInv' /\ ResultInv'
    BY <1>27 DEF RequestStart, OwnerInv, Stopping, ResultInv, Bounded
  <2>4. StartupInv' /\ StartupShutdownPreventsServing'
    BY <1>27 DEF RequestStart, HttpTypeOK, StartupInv, StartupShutdownPreventsServing,
               EngineInv
  <2> QED
    BY <2>1, <2>2, <2>3, <2>4
<1>28. ASSUME NEW r \in Requests, RequestFinish(r) PROVE HttpInv'
  <2>1. HttpTypeOK'
    BY <1>28 DEF RequestFinish, HttpTypeOK, ServePCs, ShutdownPCs, Contexts, Channels
  <2>2. ChannelInv' /\ EngineInv'
    BY NoneAssumption, <1>28 DEF RequestFinish, HttpTypeOK, ChannelInv, EngineInv, InEngine, closeChan
  <2>3. OwnerInv' /\ ResultInv'
    BY <1>28 DEF RequestFinish, OwnerInv, Stopping, ResultInv, Bounded
  <2>4. StartupInv' /\ StartupShutdownPreventsServing'
    BY <1>28 DEF RequestFinish, HttpTypeOK, StartupInv, StartupShutdownPreventsServing,
               EngineInv
  <2> QED
    BY <2>1, <2>2, <2>3, <2>4
<1>29. CASE UNCHANGED httpVars
  BY <1>29 DEF httpVars, HttpTypeOK, ChannelInv, EngineInv, InEngine, OwnerInv, Stopping,
               StartupInv, ResultInv, Bounded, StartupShutdownPreventsServing
<1> QED
  BY <1>1, <1>2, <1>3, <1>4, <1>5, <1>6, <1>7, <1>8, <1>9, <1>10, <1>11, <1>12,
     <1>13, <1>14, <1>15, <1>16, <1>17, <1>18, <1>19, <1>20, <1>21, <1>22, <1>23,
     <1>24, <1>25, <1>26, <1>27, <1>28, <1>29
  DEF HttpNext, ServeEntry, ServeStep, ShutdownEntry, ShutdownStep

(* The invariant behind every theorem of this module.                        *)
LEMMA HttpInductive == HttpSpec => []HttpInv
BY InitInv, StepInv, PTL DEF HttpSpec

(* server.go:83-92 and 199, 202, 269: the fields keep their types, and no    *)
(* channel is closed twice or while nil.                                     *)
THEOREM HttpTypeCorrect == HttpSpec => []HttpTypeOK
<1>1. HttpInv => HttpTypeOK
  BY DEF HttpInv
<1> QED
  BY <1>1, HttpInductive, PTL

(* server.go:159-176 and 244: one Serve call at a time, and a startup        *)
(* Shutdown that never dereferences a nil listener.                          *)
THEOREM SingleServe == HttpSpec => []OneServeAtATime
<1>1. HttpInv => OneServeAtATime
  BY DEF HttpInv, ChannelInv, EngineInv, OwnerInv, OneServeAtATime
<1> QED
  BY <1>1, HttpInductive, PTL

(* server.go:188-189 and 238-248: after a Shutdown during startup no         *)
(* connection is ever accepted.                                              *)
THEOREM StartupShutdown == HttpSpec => []StartupShutdownPreventsServing
<1>1. HttpInv => StartupShutdownPreventsServing
  BY DEF HttpInv
<1> QED
  BY <1>1, HttpInductive, PTL

-----------------------------------------------------------------------------
(* What a nil result of Shutdown means.                                      *)

(* A stop that has nothing to report has seen Serve leave, and the callers   *)
(* are told what the stop recorded.                                          *)
LeftInv ==
    /\ \A c \in Stoppers : pc[c] = "finish" /\ err[c] = {} => serveDone # "open"
    /\ state = "stopped" /\ shutdownErr = {} => serveDone # "open"
    /\ \A c \in Stoppers :
          Bounded(c) /\ pc[c] \in {"return", "done"} => state = "stopped" /\ err[c] = shutdownErr

(* Fiber's engine learns of one listener at most, and a stop that reached    *)
(* the engine has closed it.                                                 *)
RegisteredInv ==
    /\ state \in {"idle", "starting"} => registered = {}
    /\ registered # {} => \A s \in Servers : spc[s] \notin {"setup", "armed"}
    /\ \A s \in Servers : spc[s] = "accepting" => s \in registered
    /\ (\E c \in Stoppers : origin[c] = "engine") => registered # {} /\ registered \cap bound = {}

(* A stop that went through the engine and has no error has drained it.      *)
DrainInv ==
    \A c \in Stoppers :
        /\ pc[c] \in {"start", "wait", "engine"} => origin[c] = "none"
        /\ pc[c] = "close listener" => origin[c] = "startup"
        /\ pc[c] = "drain" => origin[c] = "engine"
        /\ /\ origin[c] = "engine" /\ err[c] = {}
           /\ pc[c] \in {"await exit", "finish", "return", "done"}
           => \A r \in Requests : request[r] # "active"

LEMMA LeftStep == HttpInv /\ LeftInv /\ [HttpNext]_httpVars => LeftInv'
<1> SUFFICES ASSUME HttpInv, LeftInv, [HttpNext]_httpVars PROVE LeftInv'
  OBVIOUS
<1> USE DEF adapterVars, serveVars, stopVars, engineVars
<1>0. /\ pc \in [Stoppers -> ShutdownPCs] /\ ctx \in [Stoppers -> Contexts]
      /\ \E S : err \in [Stoppers -> S]
  BY DEF HttpInv, HttpTypeOK
<1>1. ASSUME UNCHANGED <<state, shutdownErr, stopVars, ctx>>,
             serveDone' = serveDone \/ serveDone' # "open"
      PROVE  LeftInv'
  BY <1>1 DEF LeftInv, Bounded
<1>2. ASSUME NEW s \in Servers, ServeFirst(s) PROVE LeftInv'
  <2>1. state = "idle" /\ state' = "starting" /\ UNCHANGED <<shutdownErr, stopVars, ctx>>
    BY <1>2 DEF ServeFirst
  <2>2. \A c \in Stoppers : pc[c] # "finish"
    BY <2>1 DEF HttpInv, OwnerInv, Stopping
  <2> QED
    BY <2>1, <2>2 DEF LeftInv, Bounded
<1>3. ASSUME NEW s \in Servers, BeforeServe(s) PROVE LeftInv'
  <2>1. /\ state' = state \/ (state = "starting" /\ state' = "serving")
        /\ UNCHANGED <<serveDone, shutdownErr, stopVars, ctx>>
    BY <1>3 DEF BeforeServe
  <2> QED
    BY <2>1 DEF LeftInv, Bounded
<1>4. ASSUME NEW s \in Servers, ServeEpilogue(s) PROVE LeftInv'
  <2>1. /\ state' \in {state, "stopped"} /\ (state = "stopped" => state' = "stopped")
        /\ UNCHANGED <<shutdownErr, stopVars, ctx>> /\ serveDone' # "open"
    BY <1>4 DEF ServeEpilogue, closeChan
  <2> QED
    BY <2>1 DEF LeftInv, Bounded
<1>5. ASSUME NEW s \in Servers,
             \/ ServeNil(s) \/ ServeRefused(s) \/ EngineRegister(s) \/ EngineAcceptEnds(s)
             \/ EngineAcceptFails(s) \/ OwnerCloses(s)
      PROVE  LeftInv'
  BY <1>1, <1>5 DEF ServeNil, ServeRefused, EngineRegister, EngineAcceptEnds, EngineAcceptFails,
                    OwnerCloses
<1>6. ASSUME NEW r \in Requests, RequestStart(r) \/ RequestFinish(r) PROVE LeftInv'
  BY <1>1, <1>6 DEF RequestStart, RequestFinish
(* A step of one Shutdown call that leaves the adapter's fields alone. *)
<1>7. ASSUME NEW c \in Stoppers, NEW l, NEW e, pc' = [pc EXCEPT ![c] = l], err' = [err EXCEPT ![c] = e],
             UNCHANGED <<state, serveDone, shutdownErr, ctx>>,
             l = "finish" /\ e = {} => serveDone # "open",
             Bounded(c) /\ l \in {"return", "done"} => state = "stopped" /\ e = shutdownErr
      PROVE  LeftInv'
  <2>1. /\ pc'[c] = l /\ err'[c] = e
        /\ \A d \in Stoppers : d # c => pc'[d] = pc[d] /\ err'[d] = err[d]
    BY <1>0, <1>7
  <2>2. \A d \in Stoppers : Bounded(d)' <=> Bounded(d)
    BY <1>7 DEF Bounded
  <2> QED
    BY <1>7, <2>1, <2>2 DEF LeftInv
<1>8. \A c \in Stoppers : [err EXCEPT ![c] = err[c]] = err
  BY <1>0
<1>9. ASSUME NEW c \in Stoppers, ShutdownInvalid(c) PROVE LeftInv'
  <2>1. PICK e : err' = [err EXCEPT ![c] = e]
    BY <1>9 DEF ShutdownInvalid
  <2> QED
    BY <1>7, <1>9, <2>1 DEF ShutdownInvalid
<1>10. ASSUME NEW c \in Stoppers, ShutdownIdle(c) PROVE LeftInv'
  <2>1. /\ state = "idle" /\ state' = "stopped" /\ UNCHANGED <<serveDone, shutdownErr, err, ctx>>
        /\ pc[c] = "start" /\ pc' = [pc EXCEPT ![c] = "return"]
    BY <1>10 DEF ShutdownIdle
  <2>2. serveDone # "open" /\ shutdownErr = {} /\ err[c] = {}
    BY <2>1 DEF HttpInv, ChannelInv, ResultInv
  <2>3. \A d \in Stoppers : pc'[d] = IF d = c THEN "return" ELSE pc[d]
    BY <1>0, <2>1
  <2> QED
    BY <2>1, <2>2, <2>3 DEF LeftInv, Bounded
<1>11. ASSUME NEW c \in Stoppers, ShutdownStopped(c) PROVE LeftInv'
  BY <1>7, <1>11 DEF ShutdownStopped
<1>12. ASSUME NEW c \in Stoppers, ShutdownJoin(c) PROVE LeftInv'
  BY <1>7, <1>8, <1>12 DEF ShutdownJoin
<1>13. ASSUME NEW c \in Stoppers, waitForShutdown(c) PROVE LeftInv'
  <2>1. state = "stopped"
    <3>1. Bounded(c) /\ shutdownDone = "closed"
      BY <1>13 DEF waitForShutdown, HttpInv, ResultInv
    <3> QED
      BY <3>1 DEF HttpInv, HttpTypeOK, ChannelInv
  <2> QED
    BY <1>7, <1>13, <2>1 DEF waitForShutdown
<1>14. ASSUME NEW c \in Stoppers, NEW l \in {"close listener", "engine"}, state' = "stopping",
              state # "stopped", pc' = [pc EXCEPT ![c] = l],
              UNCHANGED <<serveDone, shutdownErr, err, ctx>>
       PROVE  LeftInv'
  <2>1. \A d \in Stoppers : pc'[d] = IF d = c THEN l ELSE pc[d]
    BY <1>0, <1>14
  <2> QED
    BY <1>14, <2>1 DEF LeftInv, Bounded
<1>15. ASSUME NEW c \in Stoppers, ShutdownStarting(c) \/ ShutdownServing(c) PROVE LeftInv'
  BY <1>14, <1>15 DEF ShutdownStarting, ShutdownServing
<1>16. ASSUME NEW c \in Stoppers, CloseListener(c) PROVE LeftInv'
  <2>1. PICK e : err' = [err EXCEPT ![c] = e]
    BY <1>16 DEF CloseListener
  <2> QED
    BY <1>7, <1>16, <2>1 DEF CloseListener
<1>17. ASSUME NEW c \in Stoppers, EngineNotRunning(c) \/ EngineStop(c) PROVE LeftInv'
  <2>1. PICK l \in {"await exit", "drain"} : pc' = [pc EXCEPT ![c] = l]
    BY <1>17 DEF EngineNotRunning, EngineStop
  <2>2. err' = [err EXCEPT ![c] = err[c]] /\ UNCHANGED <<state, serveDone, shutdownErr, ctx>>
    BY <1>8, <1>17 DEF EngineNotRunning, EngineStop
  <2> QED
    BY <1>7, <2>1, <2>2
<1>18. ASSUME NEW c \in Stoppers, EngineDrained(c) \/ EngineDrainExpires(c) PROVE LeftInv'
  BY <1>7, <1>18 DEF EngineDrained, EngineDrainExpires
<1>19. ASSUME NEW c \in Stoppers, ServeExited(c) PROVE LeftInv'
  BY <1>7, <1>8, <1>19 DEF ServeExited
<1>20. ASSUME NEW c \in Stoppers, ServeExitExpires(c) PROVE LeftInv'
  <2>1. err[c] \cup ContextError # {} /\ err' = [err EXCEPT ![c] = err[c] \cup ContextError]
    BY <1>0, <1>20 DEF ServeExitExpires, ContextError
  <2> QED
    BY <1>7, <1>20, <2>1 DEF ServeExitExpires
<1>21. ASSUME NEW c \in Stoppers, finishShutdown(c) PROVE LeftInv'
  <2>1. /\ pc[c] = "finish" /\ state' = "stopped" /\ shutdownErr' = err[c]
        /\ pc' = [pc EXCEPT ![c] = "return"] /\ UNCHANGED <<serveDone, err, ctx>>
    BY <1>21 DEF finishShutdown
  <2>2. state = "stopping" /\ \A d \in Stoppers : pc[d] = "finish" => d = c
    BY <2>1 DEF HttpInv, OwnerInv, Stopping
  <2>3. \A d \in Stoppers : pc'[d] = IF d = c THEN "return" ELSE pc[d]
    BY <1>0, <2>1
  <2>4. \A d \in Stoppers : Bounded(d) => pc[d] \notin {"return", "done"}
    BY <2>2 DEF LeftInv
  <2>5. \A d \in Stoppers : Bounded(d)' <=> Bounded(d)
    BY <2>1 DEF Bounded
  <2> QED
    BY <2>1, <2>2, <2>3, <2>4, <2>5 DEF LeftInv
<1>22. ASSUME NEW c \in Stoppers, ShutdownReturn(c) PROVE LeftInv'
  <2>1. state = "stopped" /\ err[c] = shutdownErr
    BY <1>22 DEF ShutdownReturn, HttpInv, ResultInv
  <2> QED
    BY <1>7, <1>8, <1>22, <2>1 DEF ShutdownReturn
<1>23. ASSUME NEW c \in Stoppers, ContextExpires(c) PROVE LeftInv'
  <2>1. UNCHANGED <<state, serveDone, shutdownErr, pc, err>>
    BY <1>23 DEF ContextExpires
  <2>2. \A d \in Stoppers : Bounded(d)' <=> Bounded(d)
    BY <1>0, <1>23 DEF ContextExpires, Bounded
  <2> QED
    BY <2>1, <2>2 DEF LeftInv
<1>24. CASE UNCHANGED httpVars
  BY <1>1, <1>24 DEF httpVars
<1> QED
  BY <1>2, <1>3, <1>4, <1>5, <1>6, <1>9, <1>10, <1>11, <1>12, <1>13, <1>15, <1>16, <1>17, <1>18,
     <1>19, <1>20, <1>21, <1>22, <1>23, <1>24
  DEF HttpNext, ServeEntry, ServeStep, ShutdownEntry, ShutdownStep

(* server.go:248 and 258: whatever the listeners, the engine and the other    *)
(* callers do, a Shutdown that returns nil leaves no Serve call inside Fiber. *)
THEOREM NilMeansServeLeft == HttpSpec => []SuccessMeansServeLeft
<1>1. HttpInit => LeftInv
  BY DEF HttpInit, LeftInv
<1>2. HttpInv /\ LeftInv => SuccessMeansServeLeft
  <2> SUFFICES ASSUME HttpInv, LeftInv, NEW c \in Stoppers, pc[c] = "done", Bounded(c), err[c] = {},
                      NEW s \in Servers
               PROVE  ~InEngine(s)
    BY DEF SuccessMeansServeLeft
  <2>1. listener = None
    BY DEF LeftInv, HttpInv, EngineInv
  <2> QED
    BY <2>1, NoneAssumption DEF HttpInv, EngineInv
<1> QED
  BY <1>1, <1>2, LeftStep, HttpInductive, PTL DEF HttpSpec

LEMMA RegisteredStep == HttpInv /\ RegisteredInv /\ [HttpNext]_httpVars => RegisteredInv'
<1> SUFFICES ASSUME HttpInv, RegisteredInv, [HttpNext]_httpVars PROVE RegisteredInv'
  OBVIOUS
<1> USE DEF adapterVars, serveVars, stopVars, engineVars
<1>0. spc \in [Servers -> ServePCs] /\ \E S : origin \in [Stoppers -> S]
  BY DEF HttpInv, HttpTypeOK
(* A step that neither enters the engine nor starts a stop. *)
<1>1. ASSUME registered' = registered, bound' \subseteq bound,
             state' \in {"idle", "starting"} => state \in {"idle", "starting"},
             \A s \in Servers : spc'[s] \in {"setup", "armed"} => spc[s] \in {"setup", "armed"},
             \A s \in Servers : spc'[s] = "accepting" => spc[s] = "accepting",
             \A c \in Stoppers : origin'[c] = "engine" => origin[c] = "engine"
      PROVE  RegisteredInv'
  <2>1. /\ state' \in {"idle", "starting"} => registered' = {}
        /\ registered' # {} => \A s \in Servers : spc'[s] \notin {"setup", "armed"}
        /\ \A s \in Servers : spc'[s] = "accepting" => s \in registered'
    BY <1>1 DEF RegisteredInv
  <2>2. (\E c \in Stoppers : origin'[c] = "engine") =>
            registered' # {} /\ registered' \cap bound' = {}
    BY <1>1 DEF RegisteredInv
  <2> QED
    BY <2>1, <2>2 DEF RegisteredInv
<1>2. ASSUME NEW s \in Servers, NEW l \in {"returned", "done"}, spc' = [spc EXCEPT ![s] = l],
             UNCHANGED <<registered, bound, origin>>,
             state' \in {"idle", "starting"} => state' = state
      PROVE  RegisteredInv'
  <2>1. \A t \in Servers : spc'[t] = IF t = s THEN l ELSE spc[t]
    BY <1>0, <1>2
  <2> QED
    BY <1>1, <1>2, <2>1
<1>3. ASSUME NEW s \in Servers,
             \/ ServeNil(s) \/ ServeRefused(s) \/ EngineAcceptEnds(s)
             \/ EngineAcceptFails(s) \/ ServeEpilogue(s)
      PROVE  RegisteredInv'
  BY <1>2, <1>3 DEF ServeNil, ServeRefused, EngineAcceptEnds, EngineAcceptFails, ServeEpilogue
<1>4. ASSUME NEW s \in Servers, ServeFirst(s) PROVE RegisteredInv'
  <2>1. /\ state = "idle" /\ spc' = [spc EXCEPT ![s] = "setup"]
        /\ UNCHANGED <<registered, bound, origin>>
    BY <1>4 DEF ServeFirst
  <2>2. \A t \in Servers : spc'[t] = IF t = s THEN "setup" ELSE spc[t]
    BY <1>0, <2>1
  <2>3. registered = {}
    BY <2>1 DEF RegisteredInv
  <2> QED
    BY <2>1, <2>2, <2>3 DEF RegisteredInv
<1>5. ASSUME NEW s \in Servers, BeforeServe(s) PROVE RegisteredInv'
  <2>1. /\ \E l \in {"armed", "returned"} : spc' = [spc EXCEPT ![s] = l]
        /\ spc[s] = "setup" /\ UNCHANGED <<registered, bound, origin>>
        /\ state' \in {"idle", "starting"} => state \in {"idle", "starting"}
    BY <1>5 DEF BeforeServe
  <2>2. \A t \in Servers : t # s => spc'[t] = spc[t]
    BY <1>0, <2>1
  <2>3. spc'[s] # "accepting"
    BY <1>0, <2>1
  <2> QED
    BY <1>1, <2>1, <2>2, <2>3
<1>6. ASSUME NEW s \in Servers, EngineRegister(s) PROVE RegisteredInv'
  <2>1. /\ spc[s] = "armed" /\ registered' = registered \cup {s}
        /\ spc' = [spc EXCEPT ![s] = "accepting"] /\ UNCHANGED <<state, bound, origin>>
    BY <1>6 DEF EngineRegister
  <2>2. registered = {}
    BY <2>1 DEF RegisteredInv
  <2>3. listener = s /\ state # "starting"
    BY <2>1 DEF HttpInv, EngineInv, InEngine
  <2>4. state # "idle"
    BY <2>3, NoneAssumption DEF HttpInv, EngineInv, ChannelInv
  <2>5. \A t \in Servers : t # s => spc[t] \notin {"setup", "armed"}
    BY <2>3 DEF HttpInv, EngineInv, InEngine
  <2>6. \A t \in Servers : spc'[t] = IF t = s THEN "accepting" ELSE spc[t]
    BY <1>0, <2>1
  <2>7. \A t \in Servers : spc'[t] \notin {"setup", "armed"}
    BY <2>5, <2>6
  <2>8. \A t \in Servers : spc'[t] = "accepting" => t \in registered'
    BY <2>1, <2>6 DEF RegisteredInv
  <2>9. \A c \in Stoppers : origin'[c] # "engine"
    BY <2>1, <2>2 DEF RegisteredInv
  <2> QED
    BY <2>1, <2>3, <2>4, <2>7, <2>8, <2>9 DEF RegisteredInv
<1>7. ASSUME NEW s \in Servers, OwnerCloses(s) PROVE RegisteredInv'
  BY <1>1, <1>7 DEF OwnerCloses
<1>8. ASSUME NEW r \in Requests, RequestStart(r) \/ RequestFinish(r) PROVE RegisteredInv'
  BY <1>1, <1>8 DEF RequestStart, RequestFinish
<1>9. ASSUME NEW c \in Stoppers, EngineStop(c) PROVE RegisteredInv'
  <2>1. /\ registered # {} /\ bound' = bound \ registered
        /\ UNCHANGED <<state, spc, registered>>
    BY <1>9 DEF EngineStop
  <2>2. registered' # {} /\ registered' \cap bound' = {}
    BY <2>1
  <2> QED
    BY <2>1, <2>2 DEF RegisteredInv
<1>10. ASSUME NEW c \in Stoppers, NEW o \in {"startup", "window"}, origin' = [origin EXCEPT ![c] = o],
              UNCHANGED <<registered, bound, spc>>, state' \in {state, "stopping"}
       PROVE  RegisteredInv'
  <2>1. \A d \in Stoppers : origin'[d] = "engine" => origin[d] = "engine"
    BY <1>0, <1>10
  <2> QED
    BY <1>1, <1>10, <2>1
<1>11. ASSUME NEW c \in Stoppers, ShutdownStarting(c) \/ EngineNotRunning(c) PROVE RegisteredInv'
  BY <1>10, <1>11 DEF ShutdownStarting, EngineNotRunning
<1>12. ASSUME NEW c \in Stoppers,
              \/ ShutdownInvalid(c) \/ ShutdownIdle(c) \/ ShutdownStopped(c) \/ ShutdownJoin(c)
              \/ ShutdownServing(c) \/ waitForShutdown(c) \/ CloseListener(c)
       PROVE  RegisteredInv'
  BY <1>1, <1>12 DEF ShutdownInvalid, ShutdownIdle, ShutdownStopped, ShutdownJoin,
                     ShutdownServing, waitForShutdown, CloseListener
<1>13. ASSUME NEW c \in Stoppers,
              \/ EngineDrained(c) \/ EngineDrainExpires(c) \/ ServeExited(c) \/ ServeExitExpires(c)
              \/ finishShutdown(c) \/ ShutdownReturn(c) \/ ContextExpires(c)
       PROVE  RegisteredInv'
  BY <1>1, <1>13 DEF EngineDrained, EngineDrainExpires, ServeExited, ServeExitExpires,
                     finishShutdown, ShutdownReturn, ContextExpires
<1>14. CASE UNCHANGED httpVars
  BY <1>1, <1>14 DEF httpVars
<1> QED
  BY <1>3, <1>4, <1>5, <1>6, <1>7, <1>8, <1>9, <1>11, <1>12, <1>13, <1>14
  DEF HttpNext, ServeEntry, ServeStep, ShutdownEntry, ShutdownStep

LEMMA DrainStep == HttpInv /\ RegisteredInv /\ DrainInv /\ [HttpNext]_httpVars => DrainInv'
<1> SUFFICES ASSUME HttpInv, RegisteredInv, DrainInv, [HttpNext]_httpVars PROVE DrainInv'
  OBVIOUS
<1> USE DEF adapterVars, serveVars, stopVars, engineVars
<1>0. /\ pc \in [Stoppers -> ShutdownPCs] /\ (\E S : origin \in [Stoppers -> S])
      /\ (\E S : err \in [Stoppers -> S]) /\ request \in [Requests -> {"idle", "active", "done"}]
      /\ bound \subseteq Servers
  BY DEF HttpInv, HttpTypeOK
<1>1. ASSUME UNCHANGED <<pc, origin, err, request>> PROVE DrainInv'
  BY <1>1 DEF DrainInv
<1>2. ASSUME NEW s \in Servers,
             \/ ServeEntry(s) \/ ServeStep(s) \/ EngineAcceptFails(s) \/ OwnerCloses(s)
      PROVE  DrainInv'
  <2>1. CASE ServeEntry(s)
    BY <1>1, <2>1 DEF ServeEntry, ServeNil, ServeFirst, ServeRefused
  <2>2. CASE ServeStep(s)
    BY <1>1, <2>2 DEF ServeStep, BeforeServe, EngineRegister, EngineAcceptEnds, ServeEpilogue
  <2>3. CASE EngineAcceptFails(s) \/ OwnerCloses(s)
    BY <1>1, <2>3 DEF EngineAcceptFails, OwnerCloses
  <2> QED
    BY <1>2, <2>1, <2>2, <2>3
(* Once the engine was stopped nothing accepts, so no request starts. *)
<1>3. ASSUME NEW r \in Requests, RequestStart(r) PROVE DrainInv'
  <2>1. \A c \in Stoppers : origin[c] # "engine"
    <3>1. PICK s \in bound : spc[s] = "accepting"
      BY <1>3 DEF RequestStart
    <3>2. s \in registered \cap bound
      BY <1>0, <3>1 DEF RegisteredInv
    <3> QED
      BY <3>2 DEF RegisteredInv
  <2>2. UNCHANGED <<pc, origin, err>>
    BY <1>3 DEF RequestStart
  <2> QED
    BY <2>1, <2>2 DEF DrainInv
<1>4. ASSUME NEW r \in Requests, RequestFinish(r) PROVE DrainInv'
  <2>1. UNCHANGED <<pc, origin, err>> /\ \A q \in Requests : request'[q] = "active" => request[q] = "active"
    BY <1>0, <1>4 DEF RequestFinish
  <2> QED
    BY <2>1 DEF DrainInv
(* A step of one Shutdown call, by what it leaves of itself. *)
<1>5. ASSUME NEW c \in Stoppers, NEW l, NEW o, NEW e, pc'[c] = l, origin'[c] = o, err'[c] = e,
             \A d \in Stoppers : d # c => pc'[d] = pc[d] /\ origin'[d] = origin[d] /\ err'[d] = err[d],
             request' = request,
             l \in {"start", "wait", "engine"} => o = "none",
             l = "close listener" => o = "startup",
             l = "drain" => o = "engine",
             o = "engine" /\ e = {} /\ l \in {"await exit", "finish", "return", "done"} =>
                 \A r \in Requests : request[r] # "active"
      PROVE  DrainInv'
  <2> SUFFICES ASSUME NEW d \in Stoppers
               PROVE  /\ pc'[d] \in {"start", "wait", "engine"} => origin'[d] = "none"
                      /\ pc'[d] = "close listener" => origin'[d] = "startup"
                      /\ pc'[d] = "drain" => origin'[d] = "engine"
                      /\ /\ origin'[d] = "engine" /\ err'[d] = {}
                         /\ pc'[d] \in {"await exit", "finish", "return", "done"}
                         => \A r \in Requests : request'[r] # "active"
    BY DEF DrainInv
  <2>1. CASE d = c
    BY <1>5, <2>1
  <2>2. CASE d # c
    BY <1>5, <2>2 DEF DrainInv
  <2> QED
    BY <2>1, <2>2
<1>7. ASSUME NEW c \in Stoppers, pc[c] \in {"start", "wait", "engine"} PROVE origin[c] = "none"
  BY <1>7 DEF DrainInv
<1>8. ASSUME NEW c \in Stoppers, ShutdownInvalid(c) PROVE DrainInv'
  <2>1. pc'[c] = "done" /\ request' = request /\ origin'[c] = "none"
    BY <1>0, <1>7, <1>8 DEF ShutdownInvalid
  <2>2. \A d \in Stoppers : d # c => pc'[d] = pc[d] /\ origin'[d] = origin[d] /\ err'[d] = err[d]
    BY <1>0, <1>8 DEF ShutdownInvalid
  <2> QED
    BY <1>5, <2>1, <2>2
<1>9. ASSUME NEW c \in Stoppers, ShutdownIdle(c) \/ ShutdownJoin(c) \/ ShutdownServing(c) PROVE DrainInv'
  <2>1. pc'[c] \in {"return", "wait", "engine"} /\ request' = request /\ origin'[c] = "none"
    BY <1>0, <1>7, <1>9 DEF ShutdownIdle, ShutdownJoin, ShutdownServing
  <2>2. \A d \in Stoppers : d # c => pc'[d] = pc[d] /\ origin'[d] = origin[d] /\ err'[d] = err[d]
    BY <1>0, <1>9 DEF ShutdownIdle, ShutdownJoin, ShutdownServing
  <2> QED
    BY <1>5, <2>1, <2>2
<1>10. ASSUME NEW c \in Stoppers, ShutdownStopped(c) \/ waitForShutdown(c) PROVE DrainInv'
  <2>1. pc'[c] = "return" /\ request' = request /\ origin'[c] = "none"
    BY <1>0, <1>7, <1>10 DEF ShutdownStopped, waitForShutdown
  <2>2. \A d \in Stoppers : d # c => pc'[d] = pc[d] /\ origin'[d] = origin[d] /\ err'[d] = err[d]
    BY <1>0, <1>10 DEF ShutdownStopped, waitForShutdown
  <2> QED
    BY <1>5, <2>1, <2>2
<1>11. ASSUME NEW c \in Stoppers, ShutdownStarting(c) PROVE DrainInv'
  <2>1. pc'[c] = "close listener" /\ request' = request /\ origin'[c] = "startup"
    BY <1>0, <1>11 DEF ShutdownStarting
  <2>2. \A d \in Stoppers : d # c => pc'[d] = pc[d] /\ origin'[d] = origin[d] /\ err'[d] = err[d]
    BY <1>0, <1>11 DEF ShutdownStarting
  <2> QED
    BY <1>5, <2>1, <2>2
<1>12. ASSUME NEW c \in Stoppers, CloseListener(c) PROVE DrainInv'
  <2>1. pc'[c] = "await exit" /\ request' = request /\ origin'[c] = "startup"
    BY <1>0, <1>12 DEF CloseListener, DrainInv
  <2>2. PICK e : err' = [err EXCEPT ![c] = e]
    BY <1>12 DEF CloseListener
  <2>3. \A d \in Stoppers : d # c => pc'[d] = pc[d] /\ origin'[d] = origin[d] /\ err'[d] = err[d]
    BY <1>0, <1>12, <2>2 DEF CloseListener
  <2> QED
    BY <1>5, <2>1, <2>3
<1>13. ASSUME NEW c \in Stoppers, EngineNotRunning(c) PROVE DrainInv'
  <2>1. pc'[c] = "await exit" /\ request' = request /\ origin'[c] = "window"
    BY <1>0, <1>13 DEF EngineNotRunning
  <2>2. \A d \in Stoppers : d # c => pc'[d] = pc[d] /\ origin'[d] = origin[d] /\ err'[d] = err[d]
    BY <1>0, <1>13 DEF EngineNotRunning
  <2> QED
    BY <1>5, <2>1, <2>2
<1>14. ASSUME NEW c \in Stoppers, EngineStop(c) PROVE DrainInv'
  <2>1. pc'[c] = "drain" /\ request' = request /\ origin'[c] = "engine"
    BY <1>0, <1>14 DEF EngineStop
  <2>2. \A d \in Stoppers : d # c => pc'[d] = pc[d] /\ origin'[d] = origin[d] /\ err'[d] = err[d]
    BY <1>0, <1>14 DEF EngineStop
  <2> QED
    BY <1>5, <2>1, <2>2
<1>15. ASSUME NEW c \in Stoppers, EngineDrained(c) PROVE DrainInv'
  <2>1. pc'[c] = "await exit" /\ request' = request /\ \A r \in Requests : request[r] # "active"
    BY <1>0, <1>15 DEF EngineDrained
  <2>2. \A d \in Stoppers : d # c => pc'[d] = pc[d] /\ origin'[d] = origin[d] /\ err'[d] = err[d]
    BY <1>0, <1>15 DEF EngineDrained
  <2> QED
    BY <1>5, <2>1, <2>2
<1>16. ASSUME NEW c \in Stoppers, EngineDrainExpires(c) \/ ServeExitExpires(c) PROVE DrainInv'
  <2>1. pc'[c] \in {"await exit", "finish"} /\ request' = request /\ err'[c] # {}
    BY <1>0, <1>16 DEF EngineDrainExpires, ServeExitExpires, ContextError
  <2>2. \A d \in Stoppers : d # c => pc'[d] = pc[d] /\ origin'[d] = origin[d] /\ err'[d] = err[d]
    BY <1>0, <1>16 DEF EngineDrainExpires, ServeExitExpires
  <2> QED
    BY <1>5, <2>1, <2>2
<1>17. ASSUME NEW c \in Stoppers, ServeExited(c) \/ finishShutdown(c) \/ ShutdownReturn(c) PROVE DrainInv'
  <2>1. pc'[c] \in {"finish", "return", "done"} /\ request' = request /\ err' = err /\ origin' = origin
    BY <1>0, <1>17 DEF ServeExited, finishShutdown, ShutdownReturn
  <2>2. \A d \in Stoppers : d # c => pc'[d] = pc[d] /\ origin'[d] = origin[d] /\ err'[d] = err[d]
    BY <1>0, <1>17 DEF ServeExited, finishShutdown, ShutdownReturn
  <2>3. origin[c] = "engine" /\ err[c] = {} => \A r \in Requests : request[r] # "active"
    BY <1>17 DEF ServeExited, finishShutdown, ShutdownReturn, DrainInv
  <2> QED
    BY <1>5, <2>1, <2>2, <2>3
<1>18. ASSUME NEW c \in Stoppers, ContextExpires(c) PROVE DrainInv'
  BY <1>1, <1>18 DEF ContextExpires
<1>19. CASE UNCHANGED httpVars
  BY <1>1, <1>19 DEF httpVars
<1> QED
  BY <1>2, <1>3, <1>4, <1>8, <1>9, <1>10, <1>11, <1>12, <1>13, <1>14, <1>15, <1>16, <1>17, <1>18,
     <1>19
  DEF HttpNext, ShutdownEntry, ShutdownStep

(* server.go:254-258: a Shutdown that went through the running engine and     *)
(* returns nil has drained every request, and no listener the engine knows is *)
(* open for another.                                                          *)
THEOREM NilMeansDrained == HttpSpec => []SuccessMeansDrained
<1>1. HttpInit => RegisteredInv /\ DrainInv
  BY DEF HttpInit, RegisteredInv, DrainInv
<1>2. RegisteredInv /\ DrainInv => SuccessMeansDrained
  BY DEF RegisteredInv, DrainInv, SuccessMeansDrained
<1> QED
  BY <1>1, <1>2, RegisteredStep, DrainStep, HttpInductive, PTL DEF HttpSpec

-----------------------------------------------------------------------------
(* The refinement.  Most steps leave the three abstract variables alone; the *)
(* others are one abstract action each.                                      *)
Given(c) == IF pc[c] = "done" /\ Bounded(c) THEN err[c] ELSE {"unanswered"}

Phase == IF state \in {"starting", "serving"} THEN "running" ELSE state

(* A step that keeps the phase, the shared result and the answers given is a *)
(* stuttering step of the abstract lifecycle.                                *)
LEMMA Stutter ==
    ASSUME Phase' = Phase, shutdownErr' = shutdownErr,
           \A c \in Stoppers : Given(c)' = Given(c)
    PROVE  UNCHANGED Abstract!lifecycleVars
BY DEF Phase, Given, Abstract!lifecycleVars

(* Every step of the adapter is a step of the abstract lifecycle or stutters. *)
LEMMA StepRefines ==
    HttpInv /\ [HttpNext]_httpVars => [Abstract!LifecycleNext]_Abstract!lifecycleVars
<1> SUFFICES ASSUME HttpInv, [HttpNext]_httpVars
             PROVE  Abstract!LifecycleNext \/ UNCHANGED Abstract!lifecycleVars
  OBVIOUS
<1> USE DEF adapterVars, serveVars, stopVars, engineVars
<1> USE DEF Abstract!LifecycleNext
<1>1. ASSUME NEW s \in Servers, ServeFirst(s) PROVE Abstract!Start
  BY <1>1 DEF ServeFirst, Abstract!Start, Bounded
<1>2. ASSUME NEW s \in Servers, BeforeServe(s) PROVE UNCHANGED Abstract!lifecycleVars
  <2>1. Phase' = Phase
    BY <1>2 DEF BeforeServe, Phase
  <2> QED
    BY <1>2, <2>1, Stutter DEF BeforeServe, Given, Bounded
<1>3. ASSUME NEW s \in Servers, ServeEpilogue(s)
      PROVE  Abstract!Collapse \/ UNCHANGED Abstract!lifecycleVars
  <2>1. CASE state \in {"starting", "serving"}
    BY <1>3, <2>1 DEF ServeEpilogue, Abstract!Collapse, Bounded
  <2>2. CASE state \notin {"starting", "serving"}
    BY <1>3, <2>2, Stutter DEF ServeEpilogue, Phase, Given, Bounded
  <2> QED
    BY <2>1, <2>2
<1>4. ASSUME NEW s \in Servers,
             \/ ServeNil(s) \/ ServeRefused(s) \/ EngineRegister(s) \/ EngineAcceptEnds(s)
             \/ EngineAcceptFails(s) \/ OwnerCloses(s)
      PROVE  UNCHANGED Abstract!lifecycleVars
  BY <1>4, Stutter DEF ServeNil, ServeRefused, EngineRegister, EngineAcceptEnds,
                       EngineAcceptFails, OwnerCloses, Phase, Given, Bounded
<1>5. ASSUME NEW c \in Stoppers, ShutdownIdle(c) PROVE Abstract!StopIdle
  <2>1. \A d \in Stoppers : Given(d)' = Given(d)
    BY <1>5 DEF ShutdownIdle, Given, Bounded, HttpInv, HttpTypeOK
  <2> QED
    BY <1>5, <2>1 DEF ShutdownIdle, Abstract!StopIdle, Given
<1>6. ASSUME NEW c \in Stoppers, ShutdownStarting(c) \/ ShutdownServing(c)
      PROVE  Abstract!BeginStop
  <2>1. \A d \in Stoppers : Given(d)' = Given(d)
    BY <1>6 DEF ShutdownStarting, ShutdownServing, Given, Bounded, HttpInv, HttpTypeOK
  <2> QED
    BY <1>6, <2>1 DEF ShutdownStarting, ShutdownServing, Abstract!BeginStop, Given
<1>7. ASSUME NEW c \in Stoppers, finishShutdown(c) PROVE Abstract!FinishStop
  <2>1. \A d \in Stoppers : Given(d)' = Given(d)
    BY <1>7 DEF finishShutdown, Given, Bounded, HttpInv, HttpTypeOK
  <2>2. state = "stopping" /\ err[c] \in SUBSET Causes
    BY <1>7 DEF finishShutdown, HttpInv, OwnerInv, Stopping, ResultInv
  <2> QED
    BY <1>7, <2>1, <2>2 DEF finishShutdown, Abstract!FinishStop, Given
<1>8. ASSUME NEW c \in Stoppers, ShutdownReturn(c) PROVE Abstract!Answer(c)
  <2>1. state = "stopped" /\ err[c] = shutdownErr /\ Bounded(c)
    BY <1>8 DEF ShutdownReturn, HttpInv, ResultInv
  <2>2. Given(c) = {"unanswered"} /\ Given(c)' = shutdownErr
    BY <1>8, <2>1 DEF ShutdownReturn, Given, Bounded, HttpInv, HttpTypeOK
  <2>3. \A d \in Stoppers : d # c => Given(d)' = Given(d)
    BY <1>8 DEF ShutdownReturn, Given, Bounded, HttpInv, HttpTypeOK
  <2>4. [d \in Stoppers |-> Given(d)]'
            = [[d \in Stoppers |-> Given(d)] EXCEPT ![c] = shutdownErr]
    BY <2>2, <2>3
  <2> QED
    BY <1>8, <2>1, <2>2, <2>4 DEF ShutdownReturn, Abstract!Answer, Abstract!Unanswered, Given
<1>9. ASSUME NEW c \in Stoppers, ShutdownInvalid(c) \/ ContextExpires(c)
      PROVE  UNCHANGED Abstract!lifecycleVars
  <2>1. \A d \in Stoppers : Given(d)' = Given(d)
    BY <1>9 DEF ShutdownInvalid, ContextExpires, Given, Bounded, HttpInv, HttpTypeOK
  <2> QED
    BY <1>9, <2>1, Stutter DEF ShutdownInvalid, ContextExpires, Phase
<1>10. ASSUME NEW c \in Stoppers,
              \/ ShutdownStopped(c) \/ ShutdownJoin(c) \/ waitForShutdown(c)
              \/ CloseListener(c) \/ EngineNotRunning(c) \/ EngineStop(c)
              \/ EngineDrained(c) \/ EngineDrainExpires(c)
              \/ ServeExited(c) \/ ServeExitExpires(c)
       PROVE  UNCHANGED Abstract!lifecycleVars
  <2> USE DEF ShutdownStopped, ShutdownJoin, waitForShutdown, CloseListener,
              EngineNotRunning, EngineStop, EngineDrained, EngineDrainExpires, ServeExited,
              ServeExitExpires
  <2>1. /\ state' = state /\ shutdownErr' = shutdownErr /\ ctx' = ctx
        /\ pc[c] # "done"
        /\ \A d \in Stoppers : d # c => pc'[d] = pc[d] /\ err'[d] = err[d]
    BY <1>10 DEF HttpInv, HttpTypeOK
  <2>2. pc'[c] # "done"
    BY <1>10 DEF HttpInv, HttpTypeOK
  <2>3. \A d \in Stoppers : Given(d)' = Given(d)
    BY <2>1, <2>2 DEF Given, Bounded
  <2> QED
    BY <2>1, <2>3, Stutter DEF Phase
<1>11. ASSUME NEW r \in Requests, RequestStart(r) \/ RequestFinish(r)
       PROVE  UNCHANGED Abstract!lifecycleVars
  BY <1>11, Stutter DEF RequestStart, RequestFinish, Phase, Given, Bounded
<1>12. CASE UNCHANGED httpVars
  BY <1>12, Stutter DEF httpVars, Phase, Given, Bounded
<1> QED
  BY <1>1, <1>2, <1>3, <1>4, <1>5, <1>6, <1>7, <1>8, <1>9, <1>10, <1>11, <1>12
  DEF HttpNext, ServeEntry, ServeStep, ShutdownEntry, ShutdownStep

(* server.go:212-214, "Concurrent callers wait for that same terminal        *)
(* result": the adapter implements the abstract lifecycle.                   *)
THEOREM Refinement == HttpSpec => ImplementsLifecycle
<1>1. HttpInit => Abstract!LifecycleInit
  BY DEF HttpInit, Abstract!LifecycleInit, Abstract!Unanswered
<1>2. HttpInv /\ [HttpNext]_httpVars => [Abstract!LifecycleNext]_Abstract!lifecycleVars
  BY StepRefines
<1> QED
  BY <1>1, <1>2, HttpInductive, PTL DEF HttpSpec, ImplementsLifecycle, Abstract!LifecycleSpec

-----------------------------------------------------------------------------
(* What follows from the refinement for the adapter's own variables. *)

AgreeInv ==
    \A c \in Stoppers :
        Given(c) # {"unanswered"} => state = "stopped" /\ Given(c) = shutdownErr

LEMMA AbstractStep ==
    ASSUME [Abstract!LifecycleNext]_Abstract!lifecycleVars
    PROVE  /\ state = "stopped" => state' = "stopped" /\ shutdownErr' = shutdownErr
           /\ AgreeInv => AgreeInv'
<1> DEFINE Final == /\ state = "stopped" => state' = "stopped" /\ shutdownErr' = shutdownErr
                    /\ AgreeInv => AgreeInv'
<1>1. ASSUME Phase # "stopped", \A c \in Stoppers : Given(c)' = Given(c) PROVE Final
  <2>1. state # "stopped"
    BY <1>1 DEF Phase
  <2> QED
    BY <1>1, <2>1 DEF AgreeInv
<1>2. CASE \/ Abstract!Start \/ Abstract!StopIdle \/ Abstract!Collapse
         \/ Abstract!BeginStop \/ Abstract!FinishStop
  <2>1. Phase # "stopped"
    BY <1>2 DEF Abstract!Start, Abstract!StopIdle, Abstract!Collapse, Abstract!BeginStop,
                Abstract!FinishStop, Phase
  <2>2. [c \in Stoppers |-> Given(c)]' = [c \in Stoppers |-> Given(c)]
    BY <1>2 DEF Abstract!Start, Abstract!StopIdle, Abstract!Collapse, Abstract!BeginStop,
                Abstract!FinishStop, Given
  <2>3. \A c \in Stoppers : Given(c)' = Given(c)
    BY <2>2
  <2> QED
    BY <1>1, <2>1, <2>3
<1>3. ASSUME NEW c \in Stoppers, Abstract!Answer(c) PROVE Final
  <2>1. Phase' = Phase /\ Phase = "stopped" /\ shutdownErr' = shutdownErr
    BY <1>3 DEF Abstract!Answer, Phase
  <2>2. state' = state
    BY <2>1 DEF Phase
  <2>3. [d \in Stoppers |-> Given(d)]'
            = [[d \in Stoppers |-> Given(d)] EXCEPT ![c] = shutdownErr]
    BY <1>3 DEF Abstract!Answer, Given
  <2>4. \A d \in Stoppers : Given(d)' = IF d = c THEN shutdownErr ELSE Given(d)
    BY <2>3
  <2>5. state = "stopped"
    BY <2>1 DEF Phase
  <2> QED
    BY <2>1, <2>2, <2>4, <2>5 DEF AgreeInv
<1>4. CASE UNCHANGED Abstract!lifecycleVars
  <2>1. Phase' = Phase /\ shutdownErr' = shutdownErr
    BY <1>4 DEF Abstract!lifecycleVars, Phase
  <2>2. [c \in Stoppers |-> Given(c)]' = [c \in Stoppers |-> Given(c)]
    BY <1>4 DEF Abstract!lifecycleVars, Given
  <2>3. \A c \in Stoppers : Given(c)' = Given(c)
    BY <2>2
  <2>4. state = "stopped" <=> state' = "stopped"
    BY <2>1 DEF Phase
  <2> QED
    BY <2>1, <2>3, <2>4 DEF AgreeInv
<1> QED
  BY <1>2, <1>3, <1>4 DEF Abstract!LifecycleNext

(* server.go:212-214 and 230-233: once the adapter is stopped it stays so    *)
(* and its result is never replaced, whoever calls afterwards.               *)
THEOREM HttpStopIsFinal ==
    HttpSpec => [][state = "stopped" => state' = "stopped" /\ shutdownErr' = shutdownErr]_httpVars
<1>1. HttpInv /\ [HttpNext]_httpVars =>
          [state = "stopped" => state' = "stopped" /\ shutdownErr' = shutdownErr]_httpVars
  BY StepRefines, AbstractStep
<1> QED
  BY <1>1, HttpInductive, PTL DEF HttpSpec

(* server.go:212-214 and 230-233: two Shutdown callers with bounded          *)
(* contexts are never told different results, however late the second comes. *)
THEOREM HttpResultIsShared ==
    HttpSpec => [](\A c, d \in Stoppers :
                      /\ pc[c] = "done" /\ Bounded(c)
                      /\ pc[d] = "done" /\ Bounded(d)
                      => state = "stopped" /\ err[c] = shutdownErr /\ err[d] = err[c])
<1>1. HttpInit => AgreeInv
  BY DEF HttpInit, AgreeInv, Given
<1>2. HttpInv /\ AgreeInv /\ [HttpNext]_httpVars => AgreeInv'
  BY StepRefines, AbstractStep
<1>3. HttpInv /\ AgreeInv =>
          \A c, d \in Stoppers :
              /\ pc[c] = "done" /\ Bounded(c)
              /\ pc[d] = "done" /\ Bounded(d)
              => state = "stopped" /\ err[c] = shutdownErr /\ err[d] = err[c]
  <2> SUFFICES ASSUME HttpInv, AgreeInv, NEW c \in Stoppers, pc[c] = "done", Bounded(c)
               PROVE  state = "stopped" /\ err[c] = shutdownErr
    OBVIOUS
  <2>1. Given(c) = err[c] /\ err[c] \subseteq Causes
    BY DEF Given, HttpInv, ResultInv
  <2>2. "unanswered" \notin Causes
    BY DEF Causes, ContextError, CloseError
  <2>3. err[c] # {"unanswered"}
    BY <2>1, <2>2
  <2> QED
    BY <2>1, <2>3 DEF AgreeInv
<1> QED
  BY <1>1, <1>2, <1>3, HttpInductive, PTL DEF HttpSpec
=============================================================================
