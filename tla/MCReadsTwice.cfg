SPECIFICATION Spec
CONSTANTS
  t = t
  u = u
  g = g
  None = None
  Id = {1, 2, 3, 4, 5}
  Cause <- MCCause
  Group <- MCGroup
  Type <- MCType
  TypeVersion <- MCTypeVersion
  Size <- MCSize
  Stream <- MCStream
  Upcaster <- MCUpcaster
  Query <- BothWays
  Budget <- MCBudget
  InitialRows <- MCRows
  MaxWrites = 2
CHECK_DEADLOCK FALSE
INVARIANT ResumedWithoutRepeats
