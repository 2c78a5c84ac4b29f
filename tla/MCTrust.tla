------------------------------ MODULE MCTrust ------------------------------
(* An instance of TrustRows for TLC.                                        *)
EXTENDS TrustRows, TLC

\* One approval short of autonomous, with a rejection behind it; and a row
\* that does not exist yet.
Records ==
  { "low" :> [a |-> 24, r |-> 1, level |-> "trusted"] @@ "medium" :> None }
============================================================================
