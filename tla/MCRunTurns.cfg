CONSTANTS
  Runs = {r1, r2}
  Conversations = {c1}
  Submissions = {s1, s2}
  Fingerprints = {f1, f2}
  CallIds = {}
  LeaseTicks = 1
  BatchSize = 1
  MaxDeltaEvents = 1
  MaxRounds = 1
  MaxToolCalls = 0
  ReportsUsage = FALSE
  Deletable = {}
  Revocable = FALSE
  MaxAttempts = 1
  MaxChunks = 1
  MaxMessages = 3
SPECIFICATION Spec
SYMMETRY Symmetry
INVARIANTS
  TurnsSound
CHECK_DEADLOCK FALSE
