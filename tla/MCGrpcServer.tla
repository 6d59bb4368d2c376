---------------------------- MODULE MCGrpcServer ----------------------------
(* Small instances of GrpcServer.  The owner stores one ready value, which   *)
(* is what makes a published SERVING possible.                               *)
EXTENDS GrpcServer, TLC

MCStored == {[Ready |-> TRUE, Reason |-> NoReason]}
MCSymmetry == Permutations(Servers) \cup Permutations(Stoppers)
=============================================================================
