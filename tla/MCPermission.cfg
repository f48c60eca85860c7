\* Four calls by two workers on one capability, with an expiry the clock may pass: two revokes or two resolutions
\* of one thing meet, and are cut short anywhere.
CONSTANTS
  Worker = {w1, w2}
  Principal = {p1}
  Capability = {"email.send"}
  Unregistered = {}
  DefaultApproval = {}
  Scope = {"any"}
  Covers <- MCCovers
  Base = 2
  Digits = 1
  Instant <- AroundNoon
  Expiry <- Noon
  None = None
  AuditFails = TRUE
  MaxCalls = 4
SPECIFICATION Spec
SYMMETRY Symmetry
INVARIANTS
  ResolutionRecordedOnce
  LogFollowsTables
  DecisionJustified
\* Every call has returned and the bound admits no other.
CHECK_DEADLOCK FALSE
