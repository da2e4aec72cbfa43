SPECIFICATION FairSpec
CONSTANTS
  MaxCommit = 1
  BackoffLimit = 0
  SuccessHistory = 1
  FailedHistory = 1
  Lagging <- Nothing
  Faults = {"report"}
  Scheduled <- OnSchedule
  Strategies = {"Auto"}
  Edits = {"lose"}
PROPERTIES
  RemediationEnds
