SPECIFICATION FairSpec
CONSTANTS
  c1 = c1
  c2 = c2
  e1 = e1
  e2 = e2
  Caller = {c1, c2}
  Bg = Bg
  Event = {e1, e2}
  MaxPoints = 2
INVARIANTS
  TypeOK
  HitsTrueUnlessInterrupted
  CleanIsSaved
PROPERTY ScheduledIsSaved
