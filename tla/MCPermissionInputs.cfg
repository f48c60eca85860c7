\* Four calls by two workers over every kind of capability and flag, while the
\* audit log accepts every append.
CONSTANTS
  Worker = {w1, w2}
  Principal = {p1}
  Capability = {"files.read", "email.send"}
  Unregistered = {"files.fly"}
  DefaultApproval = {"email.send"}
  Scope = {"any"}
  Covers <- MCCovers
  Base = 2
  Digits = 1
  Instant <- Morning
  Expiry = {}
  None = None
  AuditFails = FALSE
  MaxCalls = 4
SPECIFICATION FairSpec
INVARIANTS
  ApprovalNeverBypassed
  
PROPERTY WaiterResumes
\* Every call has returned and the bound admits no other.
CHECK_DEADLOCK FALSE
