---------------------------- MODULE MCIngestion ----------------------------
(* Instances of Ingestion for TLC.                                          *)
EXTENDS Ingestion

\* The third item is a reply in the thread of the second and has its key.
ThreadKey == <<"a", "b", "b">>
============================================================================
