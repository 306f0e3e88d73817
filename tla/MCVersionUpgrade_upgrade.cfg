SPECIFICATION FairSpec
CONSTANTS
  Pods = {p1}
  UpgradeHeights <- TwoUpgrades
  MaxHeight = 4
  SetHaltHeight = TRUE
  StopsBefore = FALSE
  SnapshotHeight = 1
  MaxUnavailable = 1
  Percent = FALSE
  Faulty = TRUE
  MaxLosses = 1
INVARIANTS TypeOK
PROPERTIES ImplementsChainUpgrade Upgraded
CHECK_DEADLOCK FALSE
