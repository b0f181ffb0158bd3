SPECIFICATION Spec
CONSTANTS
  N = 4
  MaxParallel = 2
INVARIANTS TypeOK CountersMatch CompletedMeansAllIn NoCleanupUnderWork
PROPERTIES KeepsContract CancelEnds
CHECK_DEADLOCK FALSE
