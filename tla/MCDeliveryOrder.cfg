SPECIFICATION Spec
CONSTANTS
  a = a
  b = b
  system = system
  exact = exact
  glob = glob
  sync = sync
  observer = observer
  w1 = w1
  w2 = w2
  None = None
  SystemTopic = system
  Pattern <- MCPattern
  Topic = {a, system}
  Writer = {w1, w2}
  Writes <- AllToA
  RemoteWrites = {a}
  Sub = {exact}
  SyncSub = {}
  GlobSub = {}
  InitialSub = {}
  InitialEvents <- Empty
  QueueSize = 1
  MaxEvents <- TwoInEach
  NoticeMayBeMissed = TRUE
  MaxBatch = 1
SYMMETRY WriterSymmetry
CHECK_DEADLOCK FALSE
INVARIANTS
  InOrder
  CursorIsLastPushed
  AuditTruthful
