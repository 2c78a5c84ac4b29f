------------------------------ MODULE MCLedger ------------------------------
(* Model-checking instance of IdempotencyLedger. *)
EXTENDS IdempotencyLedger
=============================================================================
