\* The daemon's parts, each by itself.
CONSTANTS
  Flow = {f1}
  Visit = {v1, v2}
  Caller = {c1}
  Waiter = {w1, w2}
  InitRequest = {r1, r2}
  Adapter = {a1, a2}
  Handler = {h1, h2}
  None = None
  Capabilities <- Catalog
  Other = "other"
  Room = 1
  MaxLines = 2
  MaxRequests = 2
  MaxStarts = 2
  MaxHandlerCalls = 2
SPECIFICATION FairSpec
INVARIANTS
  EndIsLast
  NothingLeftOpen
PROPERTIES
  EverythingEnds
  
  TokenSpentOnce
\* Each part comes to its end: the daemon exits, the flows are over.
CHECK_DEADLOCK FALSE
