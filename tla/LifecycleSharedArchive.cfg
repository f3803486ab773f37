SPECIFICATION Spec
CONSTANTS
  Process = {p1, p2}
  None = None
  Root <- Twins
  RunIn <- Twins
  LocksOf <- TwinLocks
  FileOf <- TwinFiles
  File <- TwinArchives
  MaxCommand = 4
  MaxRun = 2
  MaxId = 0
  MaxVersion = 1
SYMMETRY Processes
PROPERTY SnapshotsPreserved
CHECK_DEADLOCK FALSE
