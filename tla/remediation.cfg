SPECIFICATION Spec
CONSTANTS
  MaxCommit = 1
  BackoffLimit = 0
  SuccessHistory = 1
  FailedHistory = 1
  Lagging <- Nothing
  Faults = {"reconciler", "ragclient", "resources"}
  Scheduled <- OnSchedule
  Strategies = {"Auto"}
  Edits = {"lose"}
INVARIANTS
  RemediationQuiescesCron
