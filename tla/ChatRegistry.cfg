CONSTANTS
  o1 = o1
  o2 = o2
  s1 = s1
  s2 = s2
  None = None
  Sessions = {s1, s2}
  Opens = {o1, o2}
  MaxTurns = 1
  MaxDisposals = 1
  MaxDetaches = 1
SPECIFICATION FairSpec
INVARIANTS
  TypeOK
  RegistryConsistent
  NoOrphanRuntime
PROPERTIES
  SettledTurnsRetire
CHECK_DEADLOCK FALSE
