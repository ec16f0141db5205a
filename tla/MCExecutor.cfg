SPECIFICATION FairSpec
CONSTANTS
  gc = gc
  snap = snap
  save = save
  h1 = h1
  h2 = h2
  Tasks = {gc, snap, save}
  Profile <- MCProfile
  GcTask = gc
  Handles = {h1, h2}
  First = h1
  AutoGc = TRUE
  Times = {0, 1}
  Interval = 1
  MaxRuns = 2
INVARIANTS
  OneOutcome
  Accounted
  CollectsAlone
PROPERTIES
  ShutsDown
  EventuallyExecuted
CHECK_DEADLOCK FALSE
