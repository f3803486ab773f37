CONSTANTS
  WorkCount = 5
  Deps <- NetDeps
  Step <- NetStep
  StepOf <- NetStepOf
  StepNProc <- NetNProc
  GlobalNProc = 2
  MaxFaults = 0
  MaxRuns = 3
SPECIFICATION FairSpec
CHECK_DEADLOCK FALSE
INVARIANT FailedDependencyBlocks
PROPERTY CancelledRunEnds RunEnds
