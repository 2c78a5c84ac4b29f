SPECIFICATION MCSpec
CONSTANTS
  N = 2
  Clients = {k1, k2}
  MaxCuts = 1
INVARIANTS AtMostOneWrite AsDecided PendingResumable ApprovedIsWorkedOn
PROPERTIES ReaperCatches
CHECK_DEADLOCK FALSE
