CONSTANTS
  s1 = s1
  s2 = s2
  c1 = c1
  Senders = {s1, s2}
  Aborters = {}
  Closers = {c1}
  QueueCapacity = 1
  EventCapacity = 1
  MaxSends = 3
  MaxChunks = 0
SPECIFICATION Parts
SYMMETRY Symmetry
INVARIANTS
  TypeOK
  OneStream
  EveryMessageOnce
  CancelledIsStopping
  BrowserShowsTruth
PROPERTY ContractKept
CHECK_DEADLOCK FALSE
