SPECIFICATION Spec
CONSTANTS
  Requests = {q1, q2}
  Tokens = {t1, t2}
  NoRequest = NoRequest
  MaxTime = 1
  MaxEntries = 1
  UserOf <- MCUserOf
  Routes = {r1}
  Credentials = {c1}
  Policies = {p1}
  Rules = {f1, g1}
  Tools = {}
  Settings = {}
  Diagnostic = Diagnostic
  Users = {u1}
  Usernames = {n1, n2}
  Fields = {x1}
  Values = {}
  InitialConfigurations <- MCConfigurations
  r1 = r1
  c1 = c1
  p1 = p1
  f1 = f1
  g1 = g1
  u1 = u1
  n1 = n1
  n2 = n2
  x1 = x1
INVARIANTS
  TypeOK
  ReuseEndsWithToken
  OneCallPerToken
  AdmittedIsConsistent
PROPERTIES
  EveryRequestIsDecided
CHECK_DEADLOCK FALSE
