\* Two turns of two users; a discovery shares the session of the first.
SPECIFICATION FairSpec
CONSTANTS
  t1 = t1
  t2 = t2
  u1 = u1
  u2 = u2
  Turns = {t1, t2}
  Users = {u1, u2}
  UserOf <- OwnTurns
  AnyMember = u1
  MaxRetries = 2
  Threshold = 1
  MaxFaults = 1
INVARIANTS
  NoOrphanSession
  ProcessNotForgotten
PROPERTIES
  StoppedWhenUnused
  EveryCallReturns
  RevokedSessionsClose
