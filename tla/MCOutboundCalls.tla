--------------------------- MODULE MCOutboundCalls ---------------------------
(* Two calls, a notification and batches over channels of one or two places. *)
EXTENDS OutboundCalls, TLC

CONSTANTS c1, c2, n1, b1, b2, r1, r2

BatchOfTwo == b1 :> {r1, r2}
NoBatches == << >>

\* The two single calls, and the two calls of one batch, are interchangeable.
Interchangeable == Permutations({c1, c2}) \cup Permutations({r1, r2})
=============================================================================
