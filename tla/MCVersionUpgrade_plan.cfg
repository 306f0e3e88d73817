SPECIFICATION FairSpec
CONSTANTS
  Pods = {p1}
  UpgradeHeights <- OneUpgrade
  MaxHeight = 3
  SetHaltHeight = TRUE
  StopsBefore = TRUE
  SnapshotHeight <- NoSnapshot
  MaxUnavailable = 1
  Percent = FALSE
  Faulty = FALSE
  MaxLosses = 0
PROPERTIES Upgraded
CHECK_DEADLOCK FALSE
