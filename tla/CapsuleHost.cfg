\* One ingestor capsule is installed, started, stopped and removed by two
\* workers, from the console and from the command line.
CONSTANTS
  Console = {w1, w2}
  Terminal = {w2}
  Capsule = {mail}
  Ingestor = {mail}
  Permissions = 1
  None = None
  MaxCalls = 3
SPECIFICATION LiveSpec
INVARIANTS
  AllOrNothing
  RecordOutlivesGrants
  OneTickerPerCapsule
PROPERTY
  EveryButtonReturns
\* Every call has returned and the bound admits no other.
CHECK_DEADLOCK FALSE
