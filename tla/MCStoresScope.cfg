\* The grant that the calendar capsule asks for.
CONSTANTS
  Worker = {w1, w2}
  Handle = {h1, h2}
  Id = {i1, i2}
  Process = {p1, p2}
  Path = {a}
  None = None
  Letter <- Letters
  Now = 2
  MaxUpserts = 3
  Vector = {"u2", "v3"}
  Dim <- VectorDim
  MaxWrites = 2
  Body = {1, 2}
  MaxStarts = 2
  MaxAccesses = 3
  Plan <- StorePlan
  Versions <- StoreVersions
  Canonical = 2
  MaxOpens = 2
  File = {1, 2}
  Content = {"old", "new"}
  MaxFiles = 1
  MaxChanges = 3
  Message = {1, 2}
  Page = 1
  MaxFullSync = 2
  FirstId = 7
  LastId = 11
  MaxPasses = 3
  Base = 3
  Digits = 2
  MaxSec = 1
SPECIFICATION Spec
INVARIANT
  ScopedGrantServes
\* A rule has no steps, and the bounded parts come to their end.
CHECK_DEADLOCK FALSE
