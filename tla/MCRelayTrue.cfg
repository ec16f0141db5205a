SPECIFICATION Spec
CONSTANTS
  a1 = a1
  a2 = a2
  x = x
  y = y
  z = z
  p = p
  None = None
  Foreign = Foreign
  Agent = {a1, a2}
  Project = p
  Content = {x, y}
  StreamOf <- MCStreamOf
  OtherId <- MCOtherId
  MaxEvents = 2
  MaxOther = 1
  MaxAttempts = 2
INVARIANT TrueMeansAppended
