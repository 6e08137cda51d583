SPECIFICATION MCSpec
CONSTANTS
  Thread = {"t"}
  Source = {"s"}
  Trusted = {}
  FailuresOf = 2
  FailureLimits <- MCLimits
  ErrorLimits <- MCLimits
  Window = 1
  MaxEvents = 3
  Timers <- MCTimers
  Repo = {"p"}
  Caller = {"c", "d"}
  MaxSets = 2
  Signal = {"nic"}
  Blob = {1, 2}
  ExpiryOf <- MCExpiryOf
  MachineOf <- MCMachineOf
  Grace = 1
  Life = 3
  Attempts = 2
  MaxDay = 2
  Skews <- MCSkews
  Client = {"c"}
  TokenLife = 1
  AccountLife = 2
  MaxSessions = 2
  MaxToday = 3
  Loops <- MCLoops
  MaxEnds = 2
  Provider = {"codex"}
  LoginClient = {"c", "d"}
  Pool = 1
  RunTimeout = 1
  WaitRun = 2
  WaitLogin = 3
  MaxJobs = 2
  Engine = {"g", "h"}
  Exec = {"g1", "g2"}
  EngineOf <- MCEngineOf
  MaxNodes = 2
  MaxSpans = 3
  HealthRun = {"a"}
  Threshold = 2
  MaxClock = 4
  MaxReads = 3
  Agent = {"x", "y"}
  OllamaAgent = "o"
  MaxStarts = 3
  ChatThread = {"x", "y"}
  MaxTurns = 1
  MaxItems = 1
  MaxDeltas = 1
  MaxQueue = 2
  Server = {"s", "r"}
  Tool = {"t"}
  Name = {"n"}
  FullName <- MCFullName
  MaxToolSessions = 2
  QueuedRun = {"a", "b", "c"}
  Heavy = {"a"}
  MaxRuns = 2
  LogRun = {"a"}
  Ttl = 1
  ArchiveAge = 2
  MaxAge = 3
  MaxLines = 1
  MaxDate = 5
  MaxWritten = 3
  Offers <- MCOffers
  Kept <- MCKept
  NodeType <- MCNodeType
  Prompted = {}
  Execution = {1, 2}
  TaskType = {"w", "x"}
  Child <- MCChild
  Given <- MCGiven
  Signals <- MCSignals
  Scope <- MCScope
  Tries <- MCTries
  None = None
  Broken = Broken
INVARIANT TypesOK AccessIsJudged ServerIsOrderly FilesAreKept NumbersAreTrue
CHECK_DEADLOCK FALSE
