------------------------ MODULE MCInboundOperations ------------------------
(* A few inbound messages from a peer that uses a few request IDs again. *)
EXTENDS InboundOperations

CONSTANTS o1, o2, i1, i2
=============================================================================
