\* Two workers of one group; the second of three messages always raises, and
\* the stream keeps two.
SPECIFICATION FairSpec
CONSTANTS
  Workers = {w1, w2}
  MaxMsg = 3
  Poison = {2}
  MaxLen = 2
  Batch = 2
  MaxDeliveries = 2
  MaxAttempts = 2
  MaxFaults = 1
INVARIANTS
  NothingVanishes
PROPERTIES
  EveryMessageSettles
  LettersSettle
