\* Two schedulers, three runs claimed two at a time, the last one poison.
SPECIFICATION FairSpec
CONSTANTS
  Schedulers = {p1, p2}
  Runs <- ThreeRuns
  Limit = 2
  MaxRetries = 2
  Poison = {3}
  MaxFaults = 2
INVARIANTS
  OneDriver
  WorkOnce
PROPERTIES
  EveryRunEnds
CHECK_DEADLOCK FALSE
