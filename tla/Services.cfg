CONSTANTS
  Callers = {c1, c2}
  Names = {s1, s2}
  None = None
  MaxOps = 2
  MaxRepeats = 2
  MaxLog = 1
  Locations = {"l"}
  Directories = {"w1", "w2"}
  TTL = 1
  MaxTime = 4
  MaxRequests = 2
  MaxFaults = 1
  MaxRevision = 2
  Models = {"large", "small"}
  Levels = {"low", "high"}
  Tools = {"shell"}
  ThinkingLevels <- TwoModels
  KeptSessions = 1
  MaxUpdates = 3
  MaxFailures = 1
  MaxRuns = 3
  MaxConns = 3
  RunnerCapacity = 2
  HostCapacity = 1
  Kinds = {"dashboard", "managed"}
  LogCapacity = 2
  ChanCapacity = 1
  MaxEvents = 5
  MaxBreaks = 2
  MaxRestarts = 1
  Browsers = {"browser"}
  CacheLog = 1
  CacheChan = 1
  WireCapacity = 1
  MaxSeq = 2
  MaxLosses = 0
  MaxFetches = 2
  Screens = {"x", "y"}
  MaxPending = 2
  MaxSends = 2
  MaxActivations = 1
  PluginDirs = {"d", "e"}
  MaxEdits = 4
  MaxLaunches = 3
  MaxTurns = 1
  MaxCrashes = 1
  Folders = {"f", "g"}
  MaxHints = 2
  MaxFolders = 2
  MaxLists = 4
  MaxUnsaved = 1
  MaxMoves = 1
SPECIFICATION Spec
SYMMETRY Symmetry
CHECK_DEADLOCK FALSE
INVARIANTS TypeOK StoreIsTrue CapabilitiesHeld PrefsTrue PluginSettles FollowersAreTold FilesWhole DesktopServed ProjectsKept
