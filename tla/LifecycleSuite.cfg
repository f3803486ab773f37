SPECIFICATION Spec
CONSTANTS
  Process = {p1, p2, p3}
  None = None
  Root <- Suite
  RunIn <- SuiteRuns
  LocksOf <- SuiteLocks
  FileOf <- SuiteFiles
  File <- SuiteArchives
  MaxCommand = 4
  MaxRun = 2
  MaxId = 1
  MaxVersion = 2
SYMMETRY Processes
INVARIANT NothingLost
PROPERTIES ExecutedOnce RunningDataKept SnapshotsPreserved
CHECK_DEADLOCK FALSE
