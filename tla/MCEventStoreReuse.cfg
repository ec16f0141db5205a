SPECIFICATION Spec
CONSTANTS
  c1 = c1
  c2 = c2
  user = user
  system = system
  main = main
  e1 = e1
  e2 = e2
  a1 = a1
  a2 = a2
  Client = {c1, c2}
  StreamId = {user, system}
  Branch = {main}
  EventId = {e1, e2}
  AuditId = {a1, a2}
  SystemStream = system
  MainBranch = main
  None = None
  MaxBatch = 2
SYMMETRY MCSymmetry
INVARIANTS
  VersionsNeverReused
