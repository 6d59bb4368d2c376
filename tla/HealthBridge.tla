---------------------------- MODULE HealthBridge ----------------------------
(***************************************************************************)
(* The readiness Tracker (pkg/api/health/readiness.go) and the bridge that *)
(* projects it into the standard gRPC health service                       *)
(* (pkg/api/grpcserver/health.go).                                         *)
(*                                                                         *)
(* The runtime owner stores readiness values; any number of goroutines run *)
(* refresh (RefreshHealth, every Check or List before it reads, and every  *)
(* Watch stream before it opens), and Watch streams of the gRPC health     *)
(* service receive what is published.                                      *)
(* A refresh is two steps, because it loads the tracker before it takes    *)
(* the bridge's mutex.                                                     *)
(***************************************************************************)
EXTENDS Readiness

CONSTANTS
    Callers,    \* goroutines that may run refresh
    Watchers,   \* Watch streams of the gRPC health service
    Stored,     \* the readiness values the runtime owner stores
    MaxStores   \* bound on the number of Store calls

ASSUME StoredAssumption == Stored \subseteq ReadinessValues
ASSUME MaxStoresAssumption == MaxStores \in Nat

VARIABLES
    tracker,   \* Tracker.state
    stores,    \* number of Store calls so far
    stopped,   \* healthBridge.stopped
    status,    \* the status the gRPC health service holds for ""
    loaded,    \* per caller: the status computed before the lock, or Nothing
    pending,   \* per watcher: its update channel of capacity one
    received,  \* per watcher: the update taken from its channel and not yet sent
    sent,      \* per watcher: the last status sent on the stream
    watching,  \* the open Watch streams
    stored,    \* history: the value of the last Store
    fresh,     \* history: the callers whose load is later than the last Store
    settled    \* history: a fresh refresh has completed since the last Store

bridgeVars == <<stopped, status, pending>>
ownerVars  == <<tracker, stores, stored>>
watchVars  == <<received, sent, watching>>
healthVars == <<tracker, stores, stopped, status, loaded, pending, received, sent,
                watching, stored, fresh, settled>>

SERVING     == "SERVING"
NOT_SERVING == "NOT_SERVING"
Nothing     == "nothing"
Statuses    == {SERVING, NOT_SERVING}

Snapshot == decode(tracker)

Project == IF Snapshot.Ready THEN SERVING ELSE NOT_SERVING

-----------------------------------------------------------------------------
(* External: google.golang.org/grpc/health.Server, as the bridge uses it.    *)
(* Setting a status replaces the unread update of every open Watch stream.   *)
(* That its Shutdown also makes it ignore later statuses is left out: what   *)
(* is shown here rests on the bridge's own flag.                             *)
SetServingStatus(s) ==
    /\ status' = s
    /\ pending' = [w \in Watchers |-> IF w \in watching THEN s ELSE pending[w]]

(* External: a Watch stream opens with the current status as its first       *)
(* update.  Its loop takes an update from the channel, drops it if it equals *)
(* the last one sent, and otherwise sends it, while the channel may already  *)
(* hold the next.  The stream ends when its client leaves.                   *)
WatchOpen(w) ==
    /\ w \notin watching
    /\ watching' = watching \cup {w}
    /\ pending' = [pending EXCEPT ![w] = status]
    /\ received' = [received EXCEPT ![w] = Nothing]
    /\ sent' = [sent EXCEPT ![w] = Nothing]
    /\ UNCHANGED <<ownerVars, stopped, status, loaded, fresh, settled>>

WatchReceive(w) ==
    /\ w \in watching
    /\ received[w] = Nothing
    /\ pending[w] # Nothing
    /\ received' = [received EXCEPT ![w] = IF pending[w] = sent[w] THEN Nothing ELSE pending[w]]
    /\ pending' = [pending EXCEPT ![w] = Nothing]
    /\ UNCHANGED <<ownerVars, stopped, status, loaded, sent, watching, fresh, settled>>

WatchSend(w) ==
    /\ w \in watching
    /\ received[w] # Nothing
    /\ sent' = [sent EXCEPT ![w] = received[w]]
    /\ received' = [received EXCEPT ![w] = Nothing]
    /\ UNCHANGED <<ownerVars, bridgeVars, loaded, watching, fresh, settled>>

WatchEnd(w) ==
    /\ w \in watching
    /\ watching' = watching \ {w}
    /\ pending' = [pending EXCEPT ![w] = Nothing]
    /\ received' = [received EXCEPT ![w] = Nothing]
    /\ sent' = [sent EXCEPT ![w] = Nothing]
    /\ UNCHANGED <<ownerVars, stopped, status, loaded, fresh, settled>>

-----------------------------------------------------------------------------
(* The runtime owner replaces the tracker's word. *)
Store(r) ==
    /\ stores < MaxStores
    /\ stores' = stores + 1
    /\ tracker' = encode(r)
    /\ stored' = r
    /\ fresh' = {}
    /\ settled' = FALSE
    /\ UNCHANGED <<bridgeVars, loaded, watchVars>>

(* refresh up to the lock: one atomic load of the tracker. *)
RefreshLoad(c) ==
    /\ loaded[c] = Nothing
    /\ loaded' = [loaded EXCEPT ![c] = Project]
    /\ fresh' = fresh \cup {c}
    /\ UNCHANGED <<ownerVars, bridgeVars, watchVars, settled>>

(* Faulty variants: the stopped check missing, and the published status that *)
(* keeps the old one when the service was already serving.                   *)
RefreshPublishUnguarded(c) ==
    /\ loaded[c] # Nothing
    /\ SetServingStatus(loaded[c])
    /\ loaded' = [loaded EXCEPT ![c] = Nothing]
    /\ settled' = (settled \/ c \in fresh)
    /\ fresh' = fresh \ {c}
    /\ UNCHANGED <<ownerVars, stopped, watchVars>>

RefreshPublishSticky(c) ==
    /\ loaded[c] # Nothing
    /\ IF stopped \/ status = SERVING
       THEN UNCHANGED <<status, pending>>
       ELSE SetServingStatus(loaded[c])
    /\ loaded' = [loaded EXCEPT ![c] = Nothing]
    /\ settled' = (settled \/ c \in fresh)
    /\ fresh' = fresh \ {c}
    /\ UNCHANGED <<ownerVars, stopped, watchVars>>

(* refresh under the lock. *)
RefreshPublish(c) ==
    /\ loaded[c] # Nothing
    /\ IF stopped THEN UNCHANGED <<status, pending>> ELSE SetServingStatus(loaded[c])
    /\ loaded' = [loaded EXCEPT ![c] = Nothing]
    /\ settled' = (settled \/ c \in fresh)
    /\ fresh' = fresh \ {c}
    /\ UNCHANGED <<ownerVars, stopped, watchVars>>

(* Faulty variants: the flag without the publication, and the publication    *)
(* without telling the open Watch streams.                                   *)
bridgeShutdownSilent ==
    /\ stopped' = TRUE
    /\ UNCHANGED <<status, pending>>

bridgeShutdownUnwatched ==
    /\ stopped' = TRUE
    /\ status' = IF stopped THEN status ELSE NOT_SERVING
    /\ UNCHANGED pending

(* healthBridge.shutdown, called by Server with its own mutex held. *)
bridgeShutdown ==
    IF stopped
    THEN UNCHANGED bridgeVars
    ELSE /\ stopped' = TRUE
         /\ SetServingStatus(NOT_SERVING)

-----------------------------------------------------------------------------

newHealthBridge ==
    /\ stopped = FALSE
    /\ status = NOT_SERVING
    /\ pending = [w \in Watchers |-> Nothing]

NewTracker ==
    /\ tracker = stateRuntimeUnavailable
    /\ stored = [Ready |-> FALSE, Reason |-> ReasonRuntimeUnavailable]
    /\ stores = 0

HealthInit ==
    /\ NewTracker
    /\ newHealthBridge
    /\ loaded = [c \in Callers |-> Nothing]
    /\ received = [w \in Watchers |-> Nothing]
    /\ sent = [w \in Watchers |-> Nothing]
    /\ watching = {}
    /\ fresh = {}
    /\ settled = FALSE

Refresh(c) == RefreshLoad(c) \/ RefreshPublish(c)

Watch(w) == WatchReceive(w) \/ WatchSend(w)

(* What happens to the health service apart from its shutdown. *)
HealthStep ==
    \/ \E r \in Stored : Store(r)
    \/ \E c \in Callers : Refresh(c)
    \/ \E w \in Watchers : WatchOpen(w) \/ Watch(w) \/ WatchEnd(w)

HealthShutdown ==
    /\ bridgeShutdown
    /\ UNCHANGED <<ownerVars, loaded, watchVars, fresh, settled>>

HealthNext == HealthStep \/ HealthShutdown

HealthSpec == HealthInit /\ [][HealthNext]_healthVars

(* A goroutine that entered refresh leaves it (a mutex held for a few        *)
(* instructions), health clients keep polling, and the loop of an open       *)
(* stream runs on.                                                           *)
HealthFairness ==
    /\ \A c \in Callers : WF_healthVars(Refresh(c))
    /\ \A w \in Watchers : WF_healthVars(Watch(w))

FairHealthSpec == HealthSpec /\ HealthFairness

-----------------------------------------------------------------------------
(* Properties. *)

(* The fields of Tracker and healthBridge, and the per-goroutine state of    *)
(* refresh and Watch, keep their types (readiness.go:33-35, health.go:11-17).*)
HealthTypeOK ==
    /\ tracker \in StateCodes
    /\ stores \in 0..MaxStores
    /\ stopped \in BOOLEAN
    /\ status \in Statuses
    /\ loaded \in [Callers -> Statuses \cup {Nothing}]
    /\ pending \in [Watchers -> Statuses \cup {Nothing}]
    /\ received \in [Watchers -> Statuses \cup {Nothing}]
    /\ sent \in [Watchers -> Statuses \cup {Nothing}]
    /\ watching \subseteq Watchers
    /\ stored \in ReadinessValues
    /\ fresh \subseteq Callers
    /\ settled \in BOOLEAN

(* readiness.go:53-54: what a transport reads back is the stored value with  *)
(* its reason dropped when ready and reduced to "unavailable" when it is not *)
(* one of the stable reasons, so no local error text crosses an API.         *)
SnapshotIsNormalised ==
    /\ Snapshot \in SnapshotValues
    /\ Snapshot.Ready = stored.Ready
    /\ ~stored.Ready /\ stored.Reason \in Reasons => Snapshot.Reason = stored.Reason
    /\ ~stored.Ready /\ stored.Reason \notin Reasons => Snapshot.Reason = ReasonUnavailable

(* health.go:33-35 and 39-47: once the bridge is shut down the service says  *)
(* NOT_SERVING, whatever refresh was between its load and its lock.          *)
StoppedIsNotServing == stopped => status = NOT_SERVING

(* health.go:36 and 46 with the Watch contract: an open stream has sent the  *)
(* current status, has it in hand or has it in its channel, so no            *)
(* publication is lost, whatever was published while it was sending.         *)
WatchersHoldStatus ==
    \A w \in watching :
        \/ pending[w] = status
        \/ pending[w] = Nothing /\ received[w] = status
        \/ pending[w] = Nothing /\ received[w] = Nothing /\ sent[w] = status

(* server.go:123-125, "RefreshHealth projects the current tracker snapshot   *)
(* into the standard gRPC health service": when a refresh that began after   *)
(* the last Store has completed, the published status is the tracker's.      *)
RefreshSettles == settled /\ ~stopped => status = Project

(* health.go:25-37: while refreshes keep coming, the published status agrees *)
(* with the tracker from some point on, even if refreshes overlap.           *)
StatusConverges == <>[](stopped \/ status = Project)

(* health.go:39-47: after shutdown, every Watch stream that was told SERVING *)
(* and stays open is told NOT_SERVING, and then never SERVING again.         *)
ShutdownReachesWatchers ==
    \A w \in Watchers :
        stopped ~> [](w \in watching => sent[w] \in {Nothing, NOT_SERVING})
=============================================================================
