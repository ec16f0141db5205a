SPECIFICATION AllFairSpec
CONSTANTS
  p = p
  q = q
  t1 = t1
  t2 = t2
  t3 = t3
  b1 = b1
  b2 = b2
  None = None
  Main = Main
  Process = {p, q}
  Thread = {t1, t2, t3}
  ProcessOf <- MCProcessOf
  Creator = {t1, t3}
  Closer = {t1, t2}
  Resolver = {t2}
  Branch = {b1, b2}
  Version = {0, 1}
  Creation <- MCCreation
  StreamPattern <- MCStreamPattern
  StreamName <- MCStreamName
  Statements = 3
INVARIANTS
  CachedChainsTrue
  ExistingResolves
  OneMostSpecific
PROPERTIES
  StampedOnceWhole
  OneGetsThrough
  ClosedForGood
  ResolveEnds
