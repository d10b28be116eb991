CONSTANTS
  Writers = {"w1", "w2"}
  Runs = {"r1"}
  RunOf <- OneRun
  Finals = {"w2"}
  Profiles = {"p1"}
  ProfileOf <- OneProfile
  Sockets = {"socket"}
  Pollers = {"poller"}
  RunFollowed <- RunOfAll
  PageSize = 2
  MaxInserts = 2
  MaxLosses = 1
  Deliveries = {d1}
  Schedulers = {w1, w2}
  max_attempts = 2
  MAX_CONCURRENT = 2
  MaxSchedulerCrashes = 1
  MaxPersistFaults = 1
  Conns = {c1, c2}
  Ids = {x, y}
  Durable = {start}
  Volatile = {}
  Idempotent = {}
  Capacity = 1
  MaxLines = 3
  MaxCrashes = 1
  MaxJournalFaults = 1
  Terminals = {t1}
  Workspace <- OneWorkspace
  Inputs = {}
  MaxActive = 1
  MaxActivePerWorkspace = 1
  MaxRetained = 1
  MaxProduced = 1
  MaxOutputBytes = 1
  MaxOthers = 0
  MaxRestarts = 1
  MaxTries = 0
SPECIFICATION PartSpec
INVARIANTS
  DeliveredAsCommitted
  OutcomeOfLastClaim
PROPERTIES
  EverythingArrives
  PollingStops
  DeliveriesSettle
  EveryLineAnswered
  TerminalsEnd
CHECK_DEADLOCK FALSE
