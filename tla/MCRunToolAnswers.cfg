CONSTANTS
  Runs = {r1}
  Conversations = {c1}
  Submissions = {s1}
  Fingerprints = {f1}
  CallIds = {k1, k2}
  LeaseTicks = 1
  BatchSize = 1
  MaxDeltaEvents = 2
  MaxRounds = 2
  MaxToolCalls = 2
  ReportsUsage = TRUE
  Deletable = {}
  Revocable = FALSE
  MaxAttempts = 1
  MaxChunks = 2
  MaxMessages = 2
SPECIFICATION Spec
INVARIANTS
  ToolCallsAnswered
CHECK_DEADLOCK FALSE
