\* Timely workers beside one whose body outlives the key.
CONSTANTS
  w1 = w1
  w2 = w2
  w3 = w3
  Workers = {w1, w2, w3}
  TTL = 3
  WaitTimeout = 1
  MaxCall <- MCMaxCall
SPECIFICATION FairLockSpec
INVARIANTS
  MutualExclusion
PROPERTIES
  BoundedWait
  StrandedKeyExpires
