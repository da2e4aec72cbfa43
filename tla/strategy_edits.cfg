SPECIFICATION Spec
CONSTANTS
  MaxCommit = 1
  BackoffLimit = 0
  SuccessHistory = 1
  FailedHistory = 1
  Lagging <- Nothing
  Faults = {"detector"}
  Scheduled <- OnSchedule
  Strategies = {"Auto"}
  Edits = {"strategy", "lose"}
PROPERTIES
  UserSpecIsKept
