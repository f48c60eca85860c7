\* The 30 minutes of a sync pass; nothing crashes.
CONSTANTS
  Name = {n1}
  Worker = {w1, w2}
  None = None
  MaxSources = 1
  MaxItem = 1
  Reuse = FALSE
  Crashes = FALSE
SPECIFICATION FairSpec
INVARIANT RunningIsLive
CHECK_DEADLOCK FALSE
