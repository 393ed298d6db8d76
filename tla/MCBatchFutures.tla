---------------------------- MODULE MCBatchFutures ----------------------------
(* A batch of one or two calls and one that cannot be serialized, next to a  *)
(* single call and a notification that compete for the channel.              *)
EXTENDS BatchFutures, TLC

CONSTANTS m1, n1, b1, r1, r2, x1

OneCall == b1 :> {r1}
TwoCalls == b1 :> {r1, r2}
MCBatchOfBad == x1 :> b1
=============================================================================
