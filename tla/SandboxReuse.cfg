CONSTANTS
  r1 = r1
  s1 = s1
  None = None
  Requests = {r1}
  Sessions = {s1}
  Old = {s1}
  MaxEvents = 0
SPECIFICATION Spec
INVARIANTS
  ReusedBoxExists
CHECK_DEADLOCK FALSE
