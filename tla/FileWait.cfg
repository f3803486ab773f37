CONSTANTS
  Path <- Paths
  Top = "/"
  Parent <- ParentOf
  Targets <- Arguments
  Stamp = {"old", "new"}
  MaxChanges = 3
  MaxFaults = 1
SPECIFICATION FairSpec
CHECK_DEADLOCK FALSE
INVARIANTS OnlyRealChanges NotificationsSuffice
PROPERTY ChangeEndsWait
