----------------------------- MODULE MCDispatch -----------------------------
(* Instances of RunDispatch for TLC.                                        *)
EXTENDS RunDispatch

ThreeRuns == 1 .. 3
=============================================================================
