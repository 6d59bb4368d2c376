------------------------- MODULE HealthBridgeProofs -------------------------
(***************************************************************************)
(* The health bridge, proved for any number of refreshing goroutines and   *)
(* Watch streams and any stored readiness values.  The invariant is a      *)
(* conjunction of the four properties plus what they need: the tracker     *)
(* holds the code of the last stored value.                                *)
(***************************************************************************)
EXTENDS HealthBridge, TLAPS

HealthInv ==
    /\ HealthTypeOK
    /\ tracker = encode(stored)
    /\ StoppedIsNotServing
    /\ WatchersHoldStatus

(* readiness.go:70-86: encode yields one of the six codes.                   *)
LEMMA EncodeType == \A r \in ReadinessValues : encode(r) \in StateCodes
BY DEF encode, StateCodes, stateUnavailable, stateRuntimeUnavailable, stateRecovering,
       stateDraining, stateFailed, stateReady

(* readiness.go:88-103: decode, as a table over the codes.                   *)
LEMMA DecodeTable ==
    /\ decode(stateReady) = [Ready |-> TRUE, Reason |-> NoReason]
    /\ decode(stateRuntimeUnavailable) = [Ready |-> FALSE, Reason |-> ReasonRuntimeUnavailable]
    /\ decode(stateRecovering) = [Ready |-> FALSE, Reason |-> ReasonRecovering]
    /\ decode(stateDraining) = [Ready |-> FALSE, Reason |-> ReasonDraining]
    /\ decode(stateFailed) = [Ready |-> FALSE, Reason |-> ReasonFailed]
    /\ decode(stateUnavailable) = [Ready |-> FALSE, Reason |-> ReasonUnavailable]
BY DEF decode, stateUnavailable, stateRuntimeUnavailable, stateRecovering, stateDraining,
       stateFailed, stateReady

(* readiness.go:70-103: what decode makes of an encoded value.               *)
LEMMA DecodeEncode ==
    ASSUME NEW r \in ReadinessValues
    PROVE  /\ decode(encode(r)) \in SnapshotValues
           /\ decode(encode(r)).Ready = r.Ready
           /\ ~r.Ready /\ r.Reason \in Reasons => decode(encode(r)).Reason = r.Reason
           /\ ~r.Ready /\ r.Reason \notin Reasons
                  => decode(encode(r)).Reason = ReasonUnavailable
<1>0. r.Ready \in BOOLEAN
  BY DEF ReadinessValues
<1>1. CASE r.Ready
  <2>1. decode(encode(r)) = [Ready |-> TRUE, Reason |-> NoReason]
    BY <1>1, DecodeTable DEF encode
  <2>2. [Ready |-> TRUE, Reason |-> NoReason] \in SnapshotValues
    BY DEF SnapshotValues
  <2>3. r.Ready = TRUE
    BY <1>0, <1>1
  <2> QED
    BY <1>1, <2>1, <2>2, <2>3
<1>2. CASE ~r.Ready
  <2> DEFINE reason == IF r.Reason \in Reasons THEN r.Reason ELSE ReasonUnavailable
  <2>1. decode(encode(r)) = [Ready |-> FALSE, Reason |-> reason]
    BY <1>2, DecodeTable DEF encode, Reasons, ReasonUnavailable, ReasonRuntimeUnavailable,
       ReasonRecovering, ReasonDraining, ReasonFailed
  <2>2. reason \in Reasons
    BY DEF Reasons
  <2>3. [Ready |-> FALSE, Reason |-> reason] \in SnapshotValues
    BY <2>2 DEF SnapshotValues
  <2>4. r.Ready = FALSE
    BY <1>0, <1>2
  <2>5. decode(encode(r)).Ready = FALSE /\ decode(encode(r)).Reason = reason
    BY <2>1
  <2> QED
    BY <1>2, <2>1, <2>3, <2>4, <2>5
<1> QED
  BY <1>0, <1>1, <1>2

(* health.go:26-29: the projection is one of the two statuses, and changes   *)
(* only with the tracker.                                                    *)
LEMMA ProjectType == Project \in Statuses
BY DEF Project, Statuses

(* health.go:19-23: a new bridge, not stopped, with no stream open.          *)
LEMMA InitInv == HealthInit => HealthInv
<1> SUFFICES ASSUME HealthInit PROVE HealthInv
  OBVIOUS
<1>1. stored \in ReadinessValues
  BY DEF HealthInit, NewTracker, ReadinessValues, Reasons
<1>2. tracker \in StateCodes /\ stores \in 0..MaxStores
  BY MaxStoresAssumption DEF HealthInit, NewTracker, StateCodes, stateRuntimeUnavailable
<1>3. /\ stopped \in BOOLEAN /\ settled \in BOOLEAN /\ fresh \subseteq Callers
      /\ status \in Statuses /\ watching \subseteq Watchers
      /\ loaded \in [Callers -> Statuses \cup {Nothing}]
      /\ pending \in [Watchers -> Statuses \cup {Nothing}]
      /\ received \in [Watchers -> Statuses \cup {Nothing}]
      /\ sent \in [Watchers -> Statuses \cup {Nothing}]
  BY DEF HealthInit, newHealthBridge, Statuses
<1>4. HealthTypeOK
  BY <1>1, <1>2, <1>3 DEF HealthTypeOK
<1>5. tracker = encode(stored)
  BY DEF HealthInit, NewTracker, encode, ReasonRuntimeUnavailable, ReasonRecovering,
         ReasonDraining, ReasonFailed
<1> QED
  BY <1>4, <1>5 DEF HealthInit, HealthInv, StoppedIsNotServing, WatchersHoldStatus, newHealthBridge

(* Every half of a refresh, the stop, every Store and every step of a Watch  *)
(* stream keeps the invariant.                                               *)
LEMMA StepInv == HealthInv /\ [HealthNext]_healthVars => HealthInv'
<1> SUFFICES ASSUME HealthInv, [HealthNext]_healthVars PROVE HealthInv'
  OBVIOUS
<1> USE DEF HealthInv
<1>1. ASSUME NEW r \in Stored, Store(r) PROVE HealthInv'
  <2>1. r \in ReadinessValues /\ tracker' = encode(stored') /\ tracker' \in StateCodes
    BY <1>1, StoredAssumption, EncodeType DEF Store
  <2>2. stores' \in 0..MaxStores
    BY <1>1, MaxStoresAssumption DEF Store, HealthTypeOK
  <2>3. /\ stopped' = stopped /\ status' = status /\ pending' = pending
        /\ loaded' = loaded /\ received' = received /\ sent' = sent /\ watching' = watching
        /\ stored' = r /\ fresh' = {} /\ settled' = FALSE
    BY <1>1 DEF Store, bridgeVars, watchVars
  <2>4. HealthTypeOK'
    BY <2>1, <2>2, <2>3 DEF HealthTypeOK
  <2> QED
    BY <2>1, <2>3, <2>4 DEF StoppedIsNotServing, WatchersHoldStatus
<1>2. ASSUME NEW c \in Callers, RefreshLoad(c) PROVE HealthInv'
  BY <1>2, ProjectType
     DEF RefreshLoad, HealthTypeOK, StoppedIsNotServing, WatchersHoldStatus, ownerVars,
         bridgeVars, watchVars
<1>3. ASSUME NEW c \in Callers, RefreshPublish(c) PROVE HealthInv'
  <2>1. loaded[c] \in Statuses
    BY <1>3 DEF RefreshPublish, HealthTypeOK
  <2>2. HealthTypeOK'
    BY <1>3, <2>1 DEF RefreshPublish, SetServingStatus, HealthTypeOK, ownerVars, watchVars
  <2>3. StoppedIsNotServing'
    BY <1>3 DEF RefreshPublish, StoppedIsNotServing
  <2>4. WatchersHoldStatus'
    BY <1>3 DEF RefreshPublish, SetServingStatus, WatchersHoldStatus, HealthTypeOK, watchVars
  <2> QED
    BY <1>3, <2>2, <2>3, <2>4 DEF RefreshPublish, ownerVars
<1>4. ASSUME NEW w \in Watchers, WatchOpen(w) PROVE HealthInv'
  BY <1>4 DEF WatchOpen, HealthTypeOK, StoppedIsNotServing, WatchersHoldStatus, ownerVars
<1>5. ASSUME NEW w \in Watchers, Watch(w) PROVE HealthInv'
  <2>1. CASE WatchReceive(w)
    BY <2>1 DEF WatchReceive, HealthTypeOK, StoppedIsNotServing, WatchersHoldStatus, ownerVars
  <2>2. CASE WatchSend(w)
    BY <2>2 DEF WatchSend, HealthTypeOK, StoppedIsNotServing, WatchersHoldStatus, ownerVars,
                bridgeVars
  <2> QED
    BY <1>5, <2>1, <2>2 DEF Watch
<1>6. ASSUME NEW w \in Watchers, WatchEnd(w) PROVE HealthInv'
  BY <1>6 DEF WatchEnd, HealthTypeOK, StoppedIsNotServing, WatchersHoldStatus, ownerVars
<1>7. ASSUME HealthShutdown PROVE HealthInv'
  BY <1>7 DEF HealthShutdown, bridgeShutdown, SetServingStatus, HealthTypeOK, Statuses,
              StoppedIsNotServing, WatchersHoldStatus, ownerVars, bridgeVars, watchVars
<1>8. CASE UNCHANGED healthVars
  BY <1>8 DEF healthVars, HealthTypeOK, StoppedIsNotServing, WatchersHoldStatus
<1> QED
  BY <1>1, <1>2, <1>3, <1>4, <1>5, <1>6, <1>7, <1>8 DEF HealthNext, HealthStep, Refresh

(* The invariant behind the four theorems that follow.                       *)
LEMMA HealthInductive == HealthSpec => []HealthInv
BY InitInv, StepInv, PTL DEF HealthSpec

(* The types of Tracker, healthBridge and their callers.                     *)
THEOREM HealthTypeCorrect == HealthSpec => []HealthTypeOK
<1>1. HealthInv => HealthTypeOK
  BY DEF HealthInv
<1> QED
  BY <1>1, HealthInductive, PTL

(* health.go:33-35: however many refreshes are between load and lock, a      *)
(* stopped bridge says NOT_SERVING.                                          *)
THEOREM StoppedStaysNotServing == HealthSpec => []StoppedIsNotServing
<1>1. HealthInv => StoppedIsNotServing
  BY DEF HealthInv
<1> QED
  BY <1>1, HealthInductive, PTL

(* health.go:36 and 46: no open Watch stream misses a publication.           *)
THEOREM NoLostPublication == HealthSpec => []WatchersHoldStatus
<1>1. HealthInv => WatchersHoldStatus
  BY DEF HealthInv
<1> QED
  BY <1>1, HealthInductive, PTL

(* health.go:39-47, the safety half of ShutdownReachesWatchers: from the     *)
(* stop on, no Watch stream takes SERVING from its channel, not even one     *)
(* that had SERVING unread when the bridge stopped or that opens later; all  *)
(* it can still send as SERVING is the one update it had taken before.       *)
THEOREM StopEndsServing ==
    HealthSpec => [][stopped => \A w \in Watchers :
                        /\ received'[w] = SERVING => received[w] = SERVING
                        /\ sent'[w] = SERVING => SERVING \in {received[w], sent[w]}]_healthVars
<1> DEFINE Ends(w) == /\ received'[w] = SERVING => received[w] = SERVING
                      /\ sent'[w] = SERVING => SERVING \in {received[w], sent[w]}
<1>1. ASSUME HealthInv, HealthNext, stopped, NEW w \in Watchers
      PROVE  Ends(w)
  <2>1. NOT_SERVING # SERVING /\ Nothing # SERVING /\ status = NOT_SERVING
    BY <1>1 DEF HealthInv, StoppedIsNotServing, NOT_SERVING, SERVING, Nothing
  <2>2. /\ received \in [Watchers -> Statuses \cup {Nothing}]
        /\ sent \in [Watchers -> Statuses \cup {Nothing}]
    BY <1>1 DEF HealthInv, HealthTypeOK
  <2>3. CASE received' = received /\ sent' = sent
    BY <2>3
  <2>4. ASSUME NEW v \in Watchers, WatchReceive(v) PROVE Ends(w)
    <3>1. pending[v] = status
      BY <1>1, <2>4 DEF HealthInv, WatchersHoldStatus, WatchReceive
    <3> QED
      BY <2>1, <2>2, <2>4, <3>1 DEF WatchReceive
  <2>5. ASSUME NEW v \in Watchers, WatchSend(v) PROVE Ends(w)
    BY <2>1, <2>2, <2>5 DEF WatchSend
  <2>6. ASSUME NEW v \in Watchers, WatchOpen(v) \/ WatchEnd(v) PROVE Ends(w)
    BY <2>1, <2>2, <2>6 DEF WatchOpen, WatchEnd
  <2>7. ASSUME \/ \E r \in Stored : Store(r)
               \/ \E c \in Callers : Refresh(c)
               \/ HealthShutdown
        PROVE  received' = received /\ sent' = sent
    BY <2>7 DEF Store, Refresh, RefreshLoad, RefreshPublish, HealthShutdown, watchVars
  <2> QED
    BY <1>1, <2>3, <2>4, <2>5, <2>6, <2>7 DEF HealthNext, HealthStep, Watch
<1>2. HealthInv /\ [HealthNext]_healthVars =>
          [stopped => \A w \in Watchers : Ends(w)]_healthVars
  BY <1>1
<1> QED
  BY <1>2, HealthInductive, PTL DEF HealthSpec

(* readiness.go:53-103: transports only read normalised readiness.           *)
THEOREM NormalisedSnapshot == HealthSpec => []SnapshotIsNormalised
<1>1. HealthInv => SnapshotIsNormalised
  <2> SUFFICES ASSUME HealthInv PROVE SnapshotIsNormalised
    OBVIOUS
  <2>1. stored \in ReadinessValues /\ Snapshot = decode(encode(stored))
    BY DEF HealthInv, HealthTypeOK, Snapshot
  <2> QED
    BY <2>1, DecodeEncode DEF SnapshotIsNormalised
<1> QED
  BY <1>1, HealthInductive, PTL

-----------------------------------------------------------------------------
(* RefreshSettles holds when refreshes do not overlap, and only then: the    *)
(* run with two callers refutes it.  The invariant says that a fresh         *)
(* snapshot is current and that, once settled, no stale one is left.         *)
SerialInv ==
    /\ HealthTypeOK
    /\ \A c \in fresh : loaded[c] = Project
    /\ settled => \A c \in Callers : loaded[c] # Nothing => c \in fresh
    /\ RefreshSettles

(* server.go:123-125: with a single refreshing goroutine, a completed refresh *)
(* that began after the last Store leaves the tracker's status published.    *)
THEOREM SerialRefreshSettles ==
    ASSUME \A c, d \in Callers : c = d
    PROVE  HealthSpec => []RefreshSettles
<1>1. HealthInit => SerialInv
  <2> SUFFICES ASSUME HealthInit PROVE SerialInv
    OBVIOUS
  <2>1. HealthTypeOK
    BY InitInv DEF HealthInv
  <2> QED
    BY <2>1 DEF HealthInit, SerialInv, RefreshSettles
<1>2. HealthInv /\ SerialInv /\ [HealthNext]_healthVars => SerialInv'
  <2> SUFFICES ASSUME HealthInv, SerialInv, [HealthNext]_healthVars PROVE SerialInv'
    OBVIOUS
  <2>0. HealthTypeOK'
    BY StepInv DEF HealthInv
  <2>1. ASSUME NEW r \in Stored, Store(r) PROVE SerialInv'
    BY <2>0, <2>1 DEF Store, SerialInv, RefreshSettles
  <2>2. ASSUME tracker' = tracker PROVE Project' = Project
    BY <2>2 DEF Project, Snapshot
  <2>3. ASSUME NEW c \in Callers, RefreshLoad(c) PROVE SerialInv'
    <3>1. Project' = Project
      BY <2>2, <2>3 DEF RefreshLoad, ownerVars
    <3> QED
      BY <2>0, <2>3, <3>1 DEF RefreshLoad, SerialInv, HealthTypeOK, RefreshSettles, bridgeVars
  <2>4. ASSUME NEW c \in Callers, RefreshPublish(c) PROVE SerialInv'
    <3>1. Project' = Project
      BY <2>2, <2>4 DEF RefreshPublish, ownerVars
    <3>2. \A d \in Callers : d = c
      OBVIOUS
    <3>3. fresh' = {} /\ \A d \in Callers : loaded'[d] = Nothing
      BY <2>4, <3>2 DEF RefreshPublish, SerialInv, HealthTypeOK
    <3>4. settled' => c \in fresh
      BY <2>4 DEF RefreshPublish, SerialInv, HealthTypeOK
    <3>5. c \in fresh /\ ~stopped => status' = Project
      BY <2>4 DEF RefreshPublish, SetServingStatus, SerialInv
    <3>6. RefreshSettles'
      BY <2>4, <3>1, <3>4, <3>5 DEF RefreshPublish, RefreshSettles
    <3> QED
      BY <2>0, <3>3, <3>6 DEF SerialInv
  <2>5. ASSUME NEW w \in Watchers, WatchOpen(w) \/ Watch(w) \/ WatchEnd(w) PROVE SerialInv'
    <3>1. Project' = Project
      BY <2>2, <2>5 DEF WatchOpen, Watch, WatchReceive, WatchSend, WatchEnd, ownerVars
    <3> QED
      BY <2>0, <2>5, <3>1 DEF WatchOpen, Watch, WatchReceive, WatchSend, WatchEnd, bridgeVars,
         SerialInv, RefreshSettles
  <2>6. ASSUME HealthShutdown PROVE SerialInv'
    <3>1. Project' = Project
      BY <2>2, <2>6 DEF HealthShutdown, ownerVars
    <3>2. stopped'
      BY <2>6 DEF HealthShutdown, bridgeShutdown, bridgeVars
    <3> QED
      BY <2>0, <2>6, <3>1, <3>2 DEF HealthShutdown, SerialInv, RefreshSettles
  <2>7. CASE UNCHANGED healthVars
    <3>1. Project' = Project
      BY <2>2, <2>7 DEF healthVars
    <3> QED
      BY <2>0, <2>7, <3>1 DEF healthVars, SerialInv, RefreshSettles
  <2> QED
    BY <2>1, <2>3, <2>4, <2>5, <2>6, <2>7 DEF HealthNext, HealthStep, Refresh
<1>3. SerialInv => RefreshSettles
  BY DEF SerialInv
<1> QED
  BY <1>1, <1>2, <1>3, HealthInductive, PTL DEF HealthSpec
=============================================================================
