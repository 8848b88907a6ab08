CONSTANTS
  r1 = r1
  r2 = r2
  r3 = r3
  s1 = s1
  None = None
  Requests = {r1, r2, r3}
  Sessions = {s1}
  Old = {s1}
  MaxEvents = 1
SPECIFICATION FairSpec
INVARIANTS
  TypeOK
  ClaimsAreCounted
  OneRunner
PROPERTIES
  NeverRemovedInUse
  RunnersEnd
CHECK_DEADLOCK FALSE
