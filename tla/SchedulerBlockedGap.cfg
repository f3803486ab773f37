CONSTANTS
  WorkCount = 4
  Deps <- DiamondDeps
  Step <- DiamondStep
  StepOf <- DiamondStepOf
  StepNProc <- DiamondNProc
  GlobalNProc = 2
  MaxFaults = 1
  MaxRuns = 2
SPECIFICATION Spec
CHECK_DEADLOCK FALSE
INVARIANT FailedDependencyBlocks
