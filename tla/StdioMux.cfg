CONSTANTS
  Host = Host
  Runner = Runner
  None = None
  HostStreams = {1}
  RunnerStreams = {2}
  PipeCap = 1
  Backlog = 1
  MaxStreams = 1
  MaxBuffered = 1
  MaxData = 2
SPECIFICATION FairSpec
INVARIANTS
  TypeOK
  TableIsSwept
PROPERTIES
  StreamsAreQueues
  DataArrives
CHECK_DEADLOCK FALSE
