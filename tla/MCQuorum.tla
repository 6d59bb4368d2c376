------------------------------ MODULE MCQuorum ------------------------------
(* Every validator count around and inside the v1 bounds, with validator     *)
(* sets of up to seven members: the two smallest accepted sizes.             *)
EXTENDS QuorumParams

MCCounts == (-4)..260 \cup {1024, 65536, 1048576}
MCValidators == 1..7
=============================================================================
