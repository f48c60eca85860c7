\* Two calls into a capsule and two callbacks out of it, over two credentials,
\* while it may be uninstalled and its pipe may break.
CONSTANTS
  Request = {r1, r2}
  Callback = {b1, b2}
  Closer = {c1}
  Key = {k1, k2}
  None = None
  MaxCalls = 3
SPECIFICATION LiveSpec
INVARIANTS
  InvokedWasAnswered
  NoLostCredential
PROPERTIES
  ImplementsCalls
  
\* Every call has been made and every goroutine has ended.
CHECK_DEADLOCK FALSE
