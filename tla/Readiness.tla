----------------------------- MODULE Readiness ------------------------------
(***************************************************************************)
(* pkg/api/health/readiness.go: the framework-neutral readiness value and  *)
(* its encoding in the Tracker's atomic word.                              *)
(***************************************************************************)
EXTENDS Naturals

ReasonUnavailable        == "unavailable"
ReasonRuntimeUnavailable == "runtime_unavailable"
ReasonRecovering         == "recovering"
ReasonDraining           == "draining"
ReasonFailed             == "failed"

Reasons == {ReasonUnavailable, ReasonRuntimeUnavailable, ReasonRecovering,
            ReasonDraining, ReasonFailed}

NoReason  == ""             \* the zero Reason
FreeText  == "local error"  \* any other string: Reason is a string type

(* What a caller may hand to Store, and what Snapshot may return. *)
ReadinessValues == [Ready: BOOLEAN, Reason: Reasons \cup {NoReason, FreeText}]
SnapshotValues  == {[Ready |-> TRUE, Reason |-> NoReason]}
                       \cup [Ready: {FALSE}, Reason: Reasons]

(* The state codes are consecutive from zero (iota). *)
stateUnavailable        == 0
stateRuntimeUnavailable == 1
stateRecovering         == 2
stateDraining           == 3
stateFailed             == 4
stateReady              == 5

StateCodes == 0..5

encode(r) ==
    CASE r.Ready                             -> stateReady
      [] ~r.Ready /\ r.Reason = ReasonRuntimeUnavailable -> stateRuntimeUnavailable
      [] ~r.Ready /\ r.Reason = ReasonRecovering         -> stateRecovering
      [] ~r.Ready /\ r.Reason = ReasonDraining           -> stateDraining
      [] ~r.Ready /\ r.Reason = ReasonFailed             -> stateFailed
      [] OTHER                               -> stateUnavailable

decode(code) ==
    CASE code = stateReady              -> [Ready |-> TRUE,  Reason |-> NoReason]
      [] code = stateRuntimeUnavailable -> [Ready |-> FALSE, Reason |-> ReasonRuntimeUnavailable]
      [] code = stateRecovering         -> [Ready |-> FALSE, Reason |-> ReasonRecovering]
      [] code = stateDraining           -> [Ready |-> FALSE, Reason |-> ReasonDraining]
      [] code = stateFailed             -> [Ready |-> FALSE, Reason |-> ReasonFailed]
      [] OTHER                          -> [Ready |-> FALSE, Reason |-> ReasonUnavailable]
=============================================================================
