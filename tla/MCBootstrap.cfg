SPECIFICATION BootstrapSpec
CONSTANTS
  Admins = {a1}
  NoAdmin = NoAdmin
  MaxChanges = 2
  Routes = {r1, r2}
  Credentials = {c1, c2}
  Policies = {}
  Rules = {}
  Tools = {}
  Settings = {}
  Diagnostic = Diagnostic
  Users = {u1, u2}
  Usernames = {n1, n2}
  Fields = {}
  Values = {Enabled}
  u1 = u1
  n1 = n1
  n2 = n2
  InitialConfigurations <- MCInitialConfigurations
  EnvRoutes <- MCEnvRoutes
  EnvTools <- MCNone
  EnvPolicies <- MCNone
  EnvDiagnostic <- MCEnvDiagnostic
  EnvSettings <- MCNone
  Enabled = Enabled
  Forced = FALSE
INVARIANT UsernamesDistinct
CHECK_DEADLOCK FALSE
