SPECIFICATION FairSpec
CONSTANTS
  MaxCommit = 2
  BackoffLimit = 1
  SuccessHistory = 1
  FailedHistory = 1
  Lagging <- Nothing
  Faults = {"job", "report", "git", "kill", "evict"}
  Scheduled <- OneTime
  Strategies = {"Manual"}
  Edits = {"delete", "commit"}
INVARIANTS
  CommitIsIndexed
PROPERTIES
  OneTimeCompletes
  DeletionCompletes
CHECK_DEADLOCK FALSE
