--------------------------- MODULE MCPerception ---------------------------
(* Instances of Perception for TLC.                                         *)
EXTENDS Perception, TLC

Limits == ("transient" :> 3) @@ ("unknown" :> 2) @@ ("permanent" :> 1)
===========================================================================
