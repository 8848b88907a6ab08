CONSTANTS
  Senders = {s}
  Aborters = {a}
  Closers = {c}
  Configurers = {g}
  Kinds = {"tool"}
  EventCapacity = 1
  MaxSends = 2
  QueueCapacity = 1
  MaxChunks = 1
SPECIFICATION Chats
INVARIANT TypeOK
PROPERTIES
  ContractKept
  EventsInOrder
  AbortSettles
CHECK_DEADLOCK FALSE
