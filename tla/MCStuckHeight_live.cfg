SPECIFICATION FairSpec
CONSTANTS
  Pods = {p1}
  NoPod = NoPod
  Heights = {h1}
  NoHeight = NoHeight
  NoSnapshot = NoSnapshot
  NoTime = NoTime
  StuckDuration = 1
  RateLimitWindow = 1
  MaxRetries = 1
  CreateVolumeSnapshot = TRUE
  Faulty = TRUE
  PodDeletion = TRUE
  MaxTime = 2
PROPERTIES RecoveryConcludes StuckNodeGetsScript
CHECK_DEADLOCK FALSE
