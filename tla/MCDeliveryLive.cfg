SPECIFICATION FairSpec
CONSTANTS
  a = a
  b = b
  system = system
  exact = exact
  glob = glob
  sync = sync
  observer = observer
  w1 = w1
  w2 = w2
  None = None
  SystemTopic = system
  Pattern <- MCPattern
  Topic = {a, b, system}
  Writer = {w1}
  Writes <- AllToA
  RemoteWrites = {b}
  Sub = {glob}
  SyncSub = {}
  GlobSub = {glob}
  InitialSub = {glob}
  InitialEvents <- OneEach
  QueueSize = 1
  MaxEvents <- ThreeInOne
  NoticeMayBeMissed = FALSE
  MaxBatch = 2
CHECK_DEADLOCK FALSE
PROPERTIES
  EventuallyHandled
  RefinesFeed
