CONSTANTS
  Runs = {r1}
  Conversations = {c1}
  Submissions = {s1}
  Fingerprints = {f1}
  CallIds = {k1}
  LeaseTicks = 1
  BatchSize = 1
  MaxDeltaEvents = 1
  MaxRounds = 1
  MaxToolCalls = 1
  ReportsUsage = FALSE
  Deletable = {}
  Revocable = FALSE
  MaxAttempts = 2
  MaxChunks = 1
  MaxMessages = 2
SPECIFICATION Spec
PROPERTIES
  ToolCallsFenced
CHECK_DEADLOCK FALSE
