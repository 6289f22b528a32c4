\* Two sessions of one user, two requests at once.
SPECIFICATION Spec
CONSTANTS
  t1 = t1  t2 = t2  t3 = t3
  f1 = f1  f2 = f2  u1 = u1  u2 = u2  r1 = r1  r2 = r2
  Tokens <- MCTokens
  Families <- MCFamilies
  Users <- MCUser
  Requests <- MCRequests
  NoToken = NoToken
  NoFamily = NoFamily
  IdleTTL = 1
  AbsoluteTTL = 2
  Grace = 1
  MaxTime = 2
CHECK_DEADLOCK FALSE
SYMMETRY MCSymmetry
INVARIANTS FamilyCoherent OnlySparedLive
PROPERTY ImplementsLifecycle
