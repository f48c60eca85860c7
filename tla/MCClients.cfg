\* Codes are created, redeemed and raced for; clients get grants, call and are revoked.
CONSTANTS
  Worker = {w1, w2}
  Code = {k1}
  Base = 2
  Digits = 1
  Instant <- AroundNoon
  Expiry <- Noon
  None = None
  ListLimit = 5
  MaxCalls = 5
SPECIFICATION Spec
SYMMETRY Symmetry
INVARIANTS
  RedemptionSound
  OnlyThePairedPass
  CascadeCoversListed
\* Every call has returned and the bound admits no other.
CHECK_DEADLOCK FALSE
