\* A human is present: the gate pauses, the founder approves or rejects.
SPECIFICATION Spec
CONSTANTS
  Steps <- WritePair
  Deps <- WritePairDeps
  Kind <- WritePairKind
  Presence = "present"
  MaxTries = 2
  MaxRetries = 2
  ReapMax = 2
  MaxFaults = 2
INVARIANTS
  DependenciesFirst
  ReviewedBeforeRun
  TrustEarned
  CheckpointAgrees
  CompletedIsClean
PROPERTIES
  EndedStepsStay
CHECK_DEADLOCK FALSE
