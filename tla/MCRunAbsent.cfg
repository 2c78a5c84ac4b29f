\* Nobody is present; a step of every kind, fair scheduling.
SPECIFICATION FairSpec
CONSTANTS
  Steps <- Founder
  Deps <- FounderDeps
  Kind <- FounderKind
  Presence = "absent"
  MaxTries = 2
  MaxRetries = 2
  ReapMax = 2
  MaxFaults = 1
PROPERTIES
  Settles
CHECK_DEADLOCK FALSE
