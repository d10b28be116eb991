CONSTANTS
  Runs = {r1}
  Conversations = {c1}
  Submissions = {s1}
  Fingerprints = {f1}
  CallIds = {}
  LeaseTicks = 1
  BatchSize = 1
  MaxDeltaEvents = 1
  MaxRounds = 1
  MaxToolCalls = 0
  ReportsUsage = FALSE
  Deletable = {c1}
  Revocable = FALSE
  MaxAttempts = 2
  MaxChunks = 1
  MaxMessages = 2
SPECIFICATION Spec
INVARIANTS
  FencingInv
  EventsInOrder
  DeletedStaysEmpty
PROPERTIES
  TerminalIsFinal
  ImplementsTurns
CHECK_DEADLOCK FALSE
