\* Two evaluations with one retry each.
SPECIFICATION FairSpec
CONSTANTS
  RetryAttempts = 1
  MaxEvaluations = 2
CHECK_DEADLOCK FALSE
INVARIANT RetriesAreBounded
INVARIANT CallsTellTheirOutcome
INVARIANT StoredOutputPassedGate
PROPERTY EvaluationsSettle
