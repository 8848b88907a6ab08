CONSTANTS
  c1 = c1
  Clients = {c1}
  LogCapacity = 2
  ChanCapacity = 1
  WireCapacity = 2
  MaxSeq = 5
  MaxLosses = 2
SPECIFICATION FairSpec
INVARIANTS
  TypeOK
  ViewIsPrefix
  LogIsContiguous
  ClosedViewIsComplete
  NoGhostSubscriber
PROPERTIES
  NeverBack
  FeedSpec
  EveryEventArrives
CHECK_DEADLOCK FALSE
