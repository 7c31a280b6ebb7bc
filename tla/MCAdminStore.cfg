SPECIFICATION Spec
CONSTANTS
  Admins = {a1, a2}
  NoAdmin = NoAdmin
  MaxChanges = 2
  Routes = {r1, r2}
  Credentials = {c1, c2, c3}
  Policies = {p1}
  Rules = {f1}
  Tools = {t1}
  Settings = {s1}
  Diagnostic = Diagnostic
  Users = {u1, u2}
  Usernames = {n1, n2}
  Fields = {x1}
  Values = {v1}
  InitialConfigurations <- MCInitialConfigurations
  r1 = r1
  c1 = c1
  p1 = p1
  f1 = f1
  u1 = u1
  n1 = n1
  n2 = n2
  x1 = x1
SYMMETRY MCSymmetry
INVARIANTS
  TypeOK
  Consistent
PROPERTIES
  OverwritesWhatWasSeen
  ImplementsConfigStore
CHECK_DEADLOCK FALSE
