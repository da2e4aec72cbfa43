SPECIFICATION Spec
CONSTANTS
  MaxCommit = 1
  BackoffLimit = 0
  SuccessHistory = 1
  FailedHistory = 1
  Lagging <- Nothing
  Faults <- Nothing
  Scheduled <- OneTime
  Strategies = {"Ignore"}
  Edits = {"schedule"}
PROPERTIES
  PhasesFollowTheMachine
