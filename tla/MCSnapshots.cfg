SPECIFICATION Spec
CONSTANTS
  p1 = p1
  p2 = p2
  Versions = {0}
  None = None
  Threads = {p1, p2}
  Processes = {p1, p2}
  Home <- MCHome
  Reducers <- MCReducers
  PurgeFolded = FALSE
  MaxEvents = 2
  MaxCount = 1
SYMMETRY MCSymmetry
INVARIANTS
  SnapshotsSound
PROPERTIES
  LatestOnlyAdvances
  RefinesStateReads
