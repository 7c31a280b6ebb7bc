SPECIFICATION Spec
CONSTANTS
  Messages = {m1, m2, m3, m4}
  Sessions = {s1, s2, s3}
  SessionOf <- MCSessionOf
  MaxFiles = 2
  MaxSessions = 2
  Ttl = 1
  MaxTime = 2
  m1 = m1
  m2 = m2
  m3 = m3
  m4 = m4
  s1 = s1
  s2 = s2
  s3 = s3
INVARIANTS
  TypeOK
PROPERTIES
  OffersFollowDecisions
CHECK_DEADLOCK FALSE
SYMMETRY MCSymmetry
