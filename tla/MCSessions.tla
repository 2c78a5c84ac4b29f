---------------------------- MODULE MCSessions ----------------------------
(* Instances of Sessions for TLC.                                           *)
EXTENDS Sessions, TLC

CONSTANTS t1, t2, u1, u2

OwnTurns == t1 :> u1 @@ t2 :> u2
===========================================================================
