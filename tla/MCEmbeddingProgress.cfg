CONSTANTS
  Models = {"m1", "m2"}
  Workers = {w1}
  MaxAttempts = 1
  Batches = 1
  DefaultModel = "m1"
  Seedable = FALSE
  MaxRevision = 2
  MaxActivations = 1
  MaxRetries = 1
  MaxCrashes = 1
SPECIFICATION EmbeddingSpec
INVARIANTS
  NothingForgotten
PROPERTIES
  JobsSettle
CHECK_DEADLOCK FALSE
