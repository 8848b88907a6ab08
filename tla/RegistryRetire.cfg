CONSTANTS
  o1 = o1
  s1 = s1
  None = None
  Sessions = {s1}
  Opens = {o1}
  MaxTurns = 0
  MaxDisposals = 0
  MaxDetaches = 1
SPECIFICATION FairSpec
PROPERTIES
  DetachRetires
CHECK_DEADLOCK FALSE
