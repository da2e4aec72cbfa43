SPECIFICATION FairSpec
CONSTANTS
  Paths = {1, 2}
  BatchSize = 2
  Scenarios <- MCScenarios
  Others <- OneDocument
INVARIANTS
  TypeOK
  GitRunIsComplete
  RecordedCommitIsABase
  StaticRunIsComplete
  StampCoversRows
  DocumentsAreLegible
  GoodFilesAreIndexed
PROPERTIES
  IndexIsIngested
  IndexCatchesUp
