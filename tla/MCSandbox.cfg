CONSTANTS
  Conns = {c1, c2}
  Ids = {x, y}
  Durable = {start}
  Volatile = {write}
  Idempotent = {read}
  Capacity = 1
  MaxLines = 3
  MaxCrashes = 1
  MaxJournalFaults = 1
  Terminals = {t1}
  Workspace <- OneWorkspace
  Inputs = {i1}
  MaxActive = 1
  MaxActivePerWorkspace = 1
  MaxRetained = 1
  MaxProduced = 1
  MaxOutputBytes = 1
  MaxOthers = 1
  MaxRestarts = 1
  MaxTries = 2
  Containers = {c1, c2}
  MaxOps = 2
  MaxWrites = 1
  MaxDrops = 1
  MaxFaults = 1
  MaxReboots = 1
  FileNames = {"a", "b"}
  Children = {"x"}
  Matching = {"a", "x"}
  MaxInodes = 4
  MaxCopyEntries = 1
  MaxScanned = 3
  MaxContainerSteps = 1
  MaxFileOps = 2
  MaxFileCrashes = 1
  OutReaders = {r1, r2}
  MaxBytes = 3
  OutputLimit = 2
  ChunkBytes = 2
  ReadSizes = {1, 2}
  MaxOutReads = 3
  MaxOutAcks = 1
  Calls = {k1}
  MaxCommandOutput = 1
  MaxSendFaults = 1
  MaxCallDrops = 1
  MaxTerminals = 2
  MaxPrinted = 2
  ReadLimit = 2
  TwoByte = {1}
  MaxTtyClicks = 4
  MaxVisits = 2
  MaxTtyFaults = 1
SPECIFICATION Spec
INVARIANTS
  SandboxTypeOK
  OncePerRequest
  TerminalRecordsTrue
  PatchesRecoverable
  FilesAllOrNothing
PROPERTIES
  NeverRevived
CHECK_DEADLOCK FALSE
