--------------------------- MODULE MCHealthBridge ---------------------------
(* Small instances of HealthBridge with two refreshing goroutines.           *)
EXTENDS HealthBridge

(* Ready, ready with a stray reason, a known reason and a free-text one. *)
MCStored == {[Ready |-> TRUE,  Reason |-> NoReason],
             [Ready |-> TRUE,  Reason |-> ReasonDraining],
             [Ready |-> FALSE, Reason |-> ReasonDraining],
             [Ready |-> FALSE, Reason |-> FreeText]}
=============================================================================
