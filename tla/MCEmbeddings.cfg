CONSTANTS
  Models = {"m1"}
  Workers = {w1, w2}
  MaxAttempts = 2
  Batches = 1
  DefaultModel = "m1"
  Seedable = TRUE
  MaxRevision = 2
  MaxActivations = 1
  MaxRetries = 0
  MaxCrashes = 0
SPECIFICATION EmbeddingSpec
SYMMETRY MCWorkerSymmetry
INVARIANTS
  JobsAndBooksAgree
CHECK_DEADLOCK FALSE
