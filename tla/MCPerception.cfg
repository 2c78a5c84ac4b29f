\* Two scheduler processes.
SPECIFICATION FairScheduleSpec
CONSTANTS
  Workers = {w1, w2}
  MaxCancelled = 2
  Threshold <- Limits
INVARIANTS
  SignalKept
PROPERTIES
  PolledAgain
  ReauthHeals
