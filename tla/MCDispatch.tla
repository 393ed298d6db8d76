------------------------------ MODULE MCDispatch ------------------------------
(* A batch with a call, a notification and an invalid request, next to a     *)
(* single call.                                                              *)
EXTENDS Dispatch, TLC

CONSTANTS b1, m1, p1, p2, p3, p4, known, other

MCMessageOf == p1 :> b1 @@ p2 :> b1 @@ p3 :> b1 @@ p4 :> m1
MCNameOf == p1 :> known @@ p2 :> other @@ p3 :> known @@ p4 :> known
=============================================================================
