SPECIFICATION MCSpec
CONSTANTS
  Callers = {a, b}
  MaxExtCalls = 2
  Names = {"a", "b"}
  Manifests <- MCManifests
  MaxLoads = 2
  Environments <- MCEnvironments
  Files <- MCFiles
  MaxMessages = 1
  MaxHandlers = 1
  MaxChain = 2
  Attachments <- MCAttachments
  HookEvents = {"before:message", "before:tool_call", "after:message"}
  SkillNames = {"s1", "s2"}
  PipelineTools = {"echo", "shell"}
  ReadOnly = {"echo"}
  Users = {u1, u2}
  Calls <- MCCalls
  Trust = "balanced"
  AutoApproved = {}
  LearnTTL = 1
  MaxTime = 2
  None = None
  RateMaxCalls = 2
  RateWindow = 2
  LimiterEnd = 9
  NoWindow = NoWindow
  JobIds = {k1, k2, k3}
  JobUsers = {u1, u2}
  MaxJobs = 2
  JobTimeout = 1
  LastStart = 0
  JobClockEnd = 2
  Never = Never
INVARIANTS
  OrchInv
  ExtInv
  CatalogInv
  ConfigInv
  PipelineInv
  RiskInv
  LimiterInv
CHECK_DEADLOCK FALSE
