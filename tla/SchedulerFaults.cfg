CONSTANTS
  WorkCount = 5
  Deps <- NetDeps
  Step <- NetStep
  StepOf <- NetStepOf
  StepNProc <- NetNProc
  GlobalNProc = 2
  MaxFaults = 2
  MaxRuns = 2
SPECIFICATION Spec
CHECK_DEADLOCK FALSE
INVARIANTS TypeOK DependenciesFinished LimitsRespected NoOrphans QueueSound DiskFollowsMemory ResultTrue
PROPERTIES FinishedIsFinal OnlyFailuresBlock DrainRecordsNoSuccess OrderSpec
