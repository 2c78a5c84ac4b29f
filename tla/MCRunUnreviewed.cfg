\* Nobody is present, and the provider asks for a new login.
SPECIFICATION Spec
CONSTANTS
  Steps <- WritePair
  Deps <- WritePairDeps
  Kind <- WritePairKind
  Presence = "absent"
  MaxTries = 2
  MaxRetries = 2
  ReapMax = 2
  MaxFaults = 0
INVARIANTS
  ReviewedBeforeRun
CHECK_DEADLOCK FALSE
