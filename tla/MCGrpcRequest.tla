--------------------------- MODULE MCGrpcRequest ----------------------------
(* A health request and a stream, with two fields that meet the limit and    *)
(* with two that exceed it by one byte, which is so only with the 32 bytes   *)
(* that every field counts for.                                              *)
EXTENDS GrpcRequest

MCMetadata == {<<[key |-> 8, value |-> 0], [key |-> 8, value |-> 0]>>,
               <<[key |-> 8, value |-> 0], [key |-> 8, value |-> 1]>>}
MCStored == {[Ready |-> TRUE, Reason |-> NoReason]}
=============================================================================
