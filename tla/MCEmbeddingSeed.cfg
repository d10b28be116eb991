CONSTANTS
  Models = {"m1", "m2"}
  Workers = {w1}
  MaxAttempts = 1
  Batches = 1
  DefaultModel = "m1"
  Seedable = TRUE
  MaxRevision = 2
  MaxActivations = 1
  MaxRetries = 0
  MaxCrashes = 0
SPECIFICATION EmbeddingSpec
PROPERTIES
  ModelChangeSchedules
CHECK_DEADLOCK FALSE
