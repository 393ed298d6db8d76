----------------------------- MODULE MCConnection -----------------------------
(* A connection whose handler of o1 calls the peer back. *)
EXTENDS Connection, TLC

CONSTANTS c1, h1, o1, i1

HandlerCalls == c1 :> None @@ h1 :> o1
NoBatches == << >>
=============================================================================
