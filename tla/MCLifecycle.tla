----------------------------- MODULE MCLifecycle -----------------------------
(* A server's connection and a client, each with a handler that shuts the     *)
(* other down, and a caller outside that does not wait for its shutdown.      *)
EXTENDS Lifecycle, TLC

CONSTANTS s1, k1, c1, c2, h1, h2, w1, w2, w3

EachOwns == c1 :> s1 @@ c2 :> k1
EachRuns == h1 :> c1 @@ h2 :> c2
CrossTargets == w1 :> c2 @@ w2 :> c1 @@ w3 :> c1
CrossCallers == w1 :> h1 @@ w2 :> h2 @@ w3 :> None
=============================================================================
