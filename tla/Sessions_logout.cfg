\* A logout while a rotated token is within its grace window.
SPECIFICATION Spec
CONSTANTS
  t1 = t1  t2 = t2  t3 = t3
  f1 = f1  f2 = f2  u1 = u1  u2 = u2  r1 = r1  r2 = r2
  Tokens <- MCTokens
  Families <- MCFamily
  Users <- MCUser
  Requests <- MCRequests
  NoToken = NoToken
  NoFamily = NoFamily
  IdleTTL = 2
  AbsoluteTTL = 3
  Grace = 1
  MaxTime = 3
CHECK_DEADLOCK FALSE
INVARIANTS LogoutEndsSession
