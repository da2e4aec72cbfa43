SPECIFICATION FairSpec
CONSTANTS
  MaxCommit = 2
  BackoffLimit = 0
  SuccessHistory = 1
  FailedHistory = 1
  Lagging <- Nothing
  Faults <- Nothing
  Scheduled <- OnSchedule
  Strategies = {"Auto"}
  Edits = {"lose"}
PROPERTIES
  DeletedIndexIsRecreated
