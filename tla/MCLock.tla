------------------------------- MODULE MCLock -------------------------------
(* Model-checking instance of OwnerLock. *)
EXTENDS OwnerLock, TLC

CONSTANTS w1, w2, w3

\* Two workers that finish within the key's lifetime and one that overstays it.
MCMaxCall == w1 :> 2 @@ w2 :> 1 @@ w3 :> 4
=============================================================================
