SPECIFICATION MCSpec
CONSTANTS
  Stages <- MCStages
  Alternatives <- MCAlternatives
  MaxRetries = 2
  Nodes <- MCNodes
  Graph <- MCGraph
  Instant = "a"
  Skips <- MCSkips
  Execution = {e1, e2}
  RunState = {"pending", "running", "awaiting_review"}
  Stage = {tests}
  MergeField = {commit_before, commit_after}
  MaxEvents = 4
  CompactAt = 3
  DaemonModel = {"m1"}
  MaxSamples = 2
  Id = {"local", "codex-account"}
  TypeOf <- MCTypeOf
  AccountId = "codex-account"
  LocalType = "ollama"
  Model = {"m1", "m2"}
  Pulled = {"m1"}
  Reader = {"r"}
  Validator = {"v"}
  Puts <- MCPuts
  MaxEdits = 1
  CascadeModel = {"m1", "m2", "m3"}
  ModelTier <- MCModelTier
  ModelCost <- MCModelCost
  Caller = {"c"}
  Prompt = {"q"}
  Bindings <- MCBindings
  MaxEscalations = 2
  MaxTier = 5
  Budget = 2
  CacheEnabled = TRUE
  RouterModel = {"small", "big", "haiku", "codex"}
  Info <- MCInfo
  ActiveModel = "big"
  Task <- MCTask
  Economy <- MCEconomy
  LoadLevel = {"safe", "caution", "critical"}
  Exhausted <- MCExhausted
  Leader = {None, "codex"}
  GraphNode = {"a", "b", "c"}
  First = "a"
  Edges <- MCEdges
  MaxIterations = 2
  Requester = {w1, w2}
  MaxCheckpoints = 2
  TeamSize = 3
  MaxParallel = 2
  MaxRounds = 2
  Retries = 1
  Chain <- MCChain
  NodeAttempts = 2
  MaxSteps = 5
  MaxTokens = 3
  OnExceed = "pause"
  CallCost = 2
  MaxResumes = 2
  None = None
  Absent = Absent
PROPERTY ResumeContinues
CHECK_DEADLOCK FALSE
