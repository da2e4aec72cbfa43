SPECIFICATION Spec
CONSTANTS
  MaxCommit = 2
  BackoffLimit = 0
  SuccessHistory = 1
  FailedHistory = 1
  Lagging <- Nothing
  Faults = {"rag"}
  Scheduled <- OnSchedule
  Strategies = {"Ignore"}
  Edits <- Nothing
INVARIANTS
  IncrementalRunHasItsBase
