SPECIFICATION FairSpec
CONSTANTS
  MaxCommit = 1
  BackoffLimit = 0
  SuccessHistory = 1
  FailedHistory = 1
  Lagging <- Nothing
  Faults = {"git"}
  Scheduled <- OneTime
  Strategies = {"Manual"}
  Edits <- Nothing
PROPERTIES
  FailedJobIsReported
