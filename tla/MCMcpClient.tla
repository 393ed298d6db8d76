------------------------------ MODULE MCMcpClient ------------------------------
(* A client that knows two versions, and a server that may know another one. *)
EXTENDS McpClient

CONSTANTS v1, v2, v3, k1, k2, q1, q2, l1, l2
=============================================================================
