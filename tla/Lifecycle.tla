----------------------------- MODULE Lifecycle ------------------------------
(***************************************************************************)
(* What both transport adapters promise about their lifecycle: a server is *)
(* used once, it stops once, and every Shutdown caller that is answered    *)
(* gets the one result that the stop produced, never before it is known    *)
(* (grpcserver/server.go:42 and 181-182, httpserver/server.go:212-214).    *)
(***************************************************************************)
CONSTANTS
    Stoppers,   \* goroutines that call Shutdown
    Causes      \* the errors a stop can report

VARIABLES
    phase,      \* idle, running, stopping or stopped
    result,     \* the joined causes of the stop; {} is a nil error
    answer      \* per stopper: the result it was given, or Unanswered

lifecycleVars == <<phase, result, answer>>

Unanswered == {"unanswered"}

LifecycleInit ==
    /\ phase = "idle"
    /\ result = {}
    /\ answer = [c \in Stoppers |-> Unanswered]

(* A first Serve call. *)
Start ==
    /\ phase = "idle"
    /\ phase' = "running"
    /\ UNCHANGED <<result, answer>>

(* Shutdown before any Serve. *)
StopIdle ==
    /\ phase = "idle"
    /\ phase' = "stopped"
    /\ UNCHANGED <<result, answer>>

(* The serving loop ends by itself. *)
Collapse ==
    /\ phase = "running"
    /\ phase' = "stopped"
    /\ UNCHANGED <<result, answer>>

BeginStop ==
    /\ phase = "running"
    /\ phase' = "stopping"
    /\ UNCHANGED <<result, answer>>

FinishStop ==
    /\ phase = "stopping"
    /\ phase' = "stopped"
    /\ result' \in SUBSET Causes
    /\ UNCHANGED answer

Answer(c) ==
    /\ phase = "stopped"
    /\ answer[c] = Unanswered
    /\ answer' = [answer EXCEPT ![c] = result]
    /\ UNCHANGED <<phase, result>>

LifecycleNext ==
    \/ Start \/ StopIdle \/ Collapse \/ BeginStop \/ FinishStop
    \/ \E c \in Stoppers : Answer(c)

LifecycleSpec == LifecycleInit /\ [][LifecycleNext]_lifecycleVars
=============================================================================
