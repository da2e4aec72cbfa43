SPECIFICATION Spec
CONSTANTS
  MaxCommit = 1
  BackoffLimit = 0
  SuccessHistory = 1
  FailedHistory = 1
  Lagging = {"object", "jobs", "cron"}
  Faults = {"git", "rag"}
  Scheduled <- OneTime
  Strategies = {"Manual"}
  Edits = {"delete"}
INVARIANTS
  TypeOK
  CompletedHasSucceeded
  NothingIsUnprotected
PROPERTIES
  PhasesFollowTheMachine
CHECK_DEADLOCK FALSE
