CONSTANTS
  s1 = s1
  Senders = {s1}
  Aborters = {}
  Closers = {}
  QueueCapacity = 1
  EventCapacity = 2
  MaxSends = 2
  MaxChunks = 0
SPECIFICATION Spec
INVARIANTS
  QueuesDrained
CHECK_DEADLOCK FALSE
