CONSTANTS
  o1 = o1
  o2 = o2
  s1 = s1
  None = None
  Sessions = {s1}
  Opens = {o1, o2}
  MaxTurns = 2
  MaxDisposals = 1
  MaxDetaches = 0
SPECIFICATION Spec
INVARIANTS
  OneDriver
CHECK_DEADLOCK FALSE
