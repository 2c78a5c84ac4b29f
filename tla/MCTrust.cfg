\* Two drives, one of them watched, and a rejection, on two rows.
SPECIFICATION FairSpec
CONSTANTS
  Keys = {"low", "medium"}
  Drives = {d1, d2}
  Present = {d1}
  Rejecters = {c1}
  Steps = 2
  Start <- Records
  Choices = {"learning"}
  None = None
  Free = Free
INVARIANTS
  LevelEarned
  CountsKept
PROPERTIES
  EveryoneFinishes
