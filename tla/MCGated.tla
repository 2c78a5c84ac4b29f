------------------------------ MODULE MCGated ------------------------------
\* Two write calls and two requests: enough for a double click, for two
\* confirmations of one row and for a second pause behind a decided first.
EXTENDS GatedWrites

\* Prepared rows share nothing (each has its own ledger key), so a turn nobody
\* is present on prepares one.
MCInit == Init /\ (present \/ Cardinality(risky) <= 1)

MCSpec == MCInit /\ [][Next]_vars /\ Fairness
=============================================================================
