CONSTANTS
  Runs = {r1}
  Conversations = {c1}
  Submissions = {s1}
  Fingerprints = {f1}
  CallIds = {}
  LeaseTicks = 2
  BatchSize = 1
  MaxDeltaEvents = 1
  MaxRounds = 1
  MaxToolCalls = 0
  ReportsUsage = FALSE
  Deletable = {}
  Revocable = FALSE
  MaxAttempts = 2
  MaxChunks = 1
  MaxMessages = 2
SPECIFICATION Spec
PROPERTIES
  CancelTakesEffect
  EveryRunEnds
CHECK_DEADLOCK FALSE
