CONSTANTS
  Processes = {p1, p2}
  Requests = {c1, c2}
  Servers = {s1, s2, open}
  Anonymous = {open}
  Policies = {few}
  Icons = {i1, i2}
  MaxRevision = 4
SYMMETRY SettingsSymmetry
SPECIFICATION Spec
INVARIANTS
  TypeOK
  SecretsStayHome
  CachedIconIsItsRevision
PROPERTIES
  KeptFieldsSurvive
  RuntimeNeverGoesBack
