-------------------------------- MODULE MCWire --------------------------------
(* Two ends; the configuration chooses who makes the calls. *)
EXTENDS Wire, TLC

CONSTANTS a, b, c1, c2, c3

OneCaller == c1 :> a @@ c2 :> a @@ c3 :> a
BothCall == c1 :> a @@ c2 :> b @@ c3 :> b
=============================================================================
