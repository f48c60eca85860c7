\* Two workers over one source, while items arrive.
CONSTANTS
  Name = {n1}
  Worker = {w1, w2}
  None = None
  MaxSources = 1
  MaxItem = 2
  Reuse = FALSE
  Crashes = TRUE
SPECIFICATION FairSpec
INVARIANT NothingSkipped
 
\* Every source has been removed and the bound admits no other.
CHECK_DEADLOCK FALSE
