CONSTANTS
  None = None
  p1 = p1
  p2 = p2
  p3 = p3
  p4 = p4
  Process = {p1, p2, p3, p4}
  HostOf <- TwoHosts
  MaxFaults = 1
SPECIFICATION SettledSpec
CHECK_DEADLOCK FALSE
INVARIANTS MutualExclusion HolderIsNamed
PROPERTIES OwnedSpec StaleLockReclaimed
