CONSTANTS
  t1 = t1
  t2 = t2
  b1 = b1
  g1 = g1
  g2 = g2
  u1 = u1
  u2 = u2
  Installers = {i1}
  Releases = {1, 2}
  MaxPublished = 2
  MaxPluginOps = 3
  MaxEntries = 1
  Packages = {p1, p2, p3}
  Themes = {p3}
  UiRequests = {h1, h2}
  MaxUiRequests = 6
  MaxUiRestarts = 1
  Secrets = {1, 2}
  VaultServers = {1, 2}
  CurrentKey <- CurrentKeys
  PreviousKey <- PreviousKeys
  VaultRequests = {v1, v2}
  MaxVaultOps = 4
  SessionIds = {1, 2, 3}
  AuthRequests = {1, 2}
  SessionLimit = 1
  FailureLimit = 2
  ThrottleLimit = 1
  MaxRotations = 1
  MaxAuthRequests = 3
  ClientKeys = {k1, k2}
  Logins = {1, 2}
  Second = 2
  KeyWindow = 1
  KeyLimit = 1
  GlobalWindow = 1
  GlobalLimit = 1
  MaxTime = 4
  MaxHits = 2
  MaxPrunes = 1
  Boards = {b1}
  BoardTasks = {t1, t2}
  BoardOf <- TasksOfBoard
  BoardUsers = {u1, u2}
  TaskInputs = {"READY", "RUNNING"}
  MaxBoardOps = 3
  MaxAccessChanges = 1
  SkillIds = {k1}
  MaxRevisions = 3
  MaxEvalAttempts = 1
  MaxEvalErrors = 1
  Loads = {l1, l2}
  MaxProcesses = 1
  MaxServerEdits = 2
  MaxMcpFaults = 1
  MAX_INTERLEAVED_FRAMES = 2
  MAX_PENDING_REQUESTS = 2
  MAX_RECONNECT_ATTEMPTS = 1
  MaxGeneration = 3
  MaxRequestId = 3
  Facts = {f}
  AutoRuns = {r1, r2}
  MaxParagraphs = 2
  MaxBookRevisions = 3
  MaxProposals = 1
  BookIds = {b1}
  LibUsers = {u1}
  PrivateOwner = u1
  Lengths = {0, 6}
  ChunkChars = 3
  ChunkOverlap = 1
  MAX_LOADS = 1
  MaxLibOps = 2
  MaxRoleChanges = 1
  Routes = 2
  MaxLines = 3
  MaxUnits = 8
  MaxToolCalls = 1
  GateRuns = {g1, g2}
  GateProfile <- ProfileOfRun
  GateTools = {"library_search", "sandbox_exec", "no_such_tool", "book"}
  MaxGateCalls = 2
  MaxPolicyEdits = 1
  PolicyTokens = 2
  WrapTokens = 1
  HeadingTokens = 1
  Budgets = {2, 5, 8, 11}
  Sizes = {1, 2, 4}
  MaxRecent = 2
  MaxPinned = 1
  MaxFound = 2
  ChatModels = {1, 2, 3}
  WindowOf <- Windows
  CostOf <- Costs
  ModelRequests = {q1}
  TaskClasses = {"coding"}
  MaxRegistryOps = 3
  ConvIds = {1, 2}
  SpaceIds = {w}
  ConvUsers = {u1, u2}
  ConvRole <- RoleOfUser
  ConvRequests = {1, 2}
  MaxConvMessages = 2
  MaxConvOps = 4
  MaxMemberEdits = 1
  Chats = {"a", "b"}
  People = {"p1", "p2"}
  Typed = {"x"}
  PollLimit = 1
  MaxClicks = 3
  MaxUpsets = 1
  MaxTurns = 1
  MaxRunEvents = 1
SPECIFICATION Spec
INVARIANTS
  ServicesTypeOK
  PackagesAsApproved
  SignInsHeld
  McpAnswersFenced
  LimitsHeld
  LibraryConsistent
  OneKeyAfterRotation
  LedgerIsHistory
  LearningOnRecord
  ChatPageTrue
  RoundReadToItsEnd
  GatedByPolicy
  ForkIsPrefix
CHECK_DEADLOCK FALSE
