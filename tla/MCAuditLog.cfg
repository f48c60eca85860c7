\* Two processes append while one or the other crashes, fails or has its clock set back.
CONSTANTS
  Process = {p1, p2}
  NoProcess = NoProcess
  Event = {e1}
  Entropy = {1, 2}
  MaxAttempts = 3
  MaxClock = 1
  MaxIDs = 2
SPECIFICATION FairSpec
INVARIANTS
  VerifyPasses
  IdsFollowInsertion
  AckedAreRecorded
  TamperDetected
PROPERTIES
  ChainSpec
  AppendReturns
