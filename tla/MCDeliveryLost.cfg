SPECIFICATION Spec
CONSTANTS
  a = a
  b = b
  system = system
  exact = exact
  glob = glob
  sync = sync
  observer = observer
  w1 = w1
  w2 = w2
  None = None
  SystemTopic = system
  Pattern <- MCPattern
  Topic = {a, system}
  Writer = {w1, w2}
  Writes <- AllToA
  RemoteWrites = {}
  Sub = {exact}
  SyncSub = {}
  GlobSub = {}
  InitialSub = {exact}
  InitialEvents <- Empty
  QueueSize = 2
  MaxEvents <- TwoInEach
  NoticeMayBeMissed = FALSE
  MaxBatch = 1
CHECK_DEADLOCK FALSE
INVARIANTS
  NoGap
