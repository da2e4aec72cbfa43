SPECIFICATION Spec
CONSTANTS
  Paths = {1}
  BatchSize = 2
  Scenarios <- OneDeletion
  Others <- Nothing
INVARIANTS
  DeletedFilesLeave
