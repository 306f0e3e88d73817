SPECIFICATION FairSpec
CONSTANTS
  Pods = {p1, p2}
  NoPod = NoPod
  Idle = Idle
  NoTime = NoTime
  MinAvailable = 2
  Ordinal = NoPod
  DeletePod = TRUE
  Limit = 1
  Interval = 1
  Churn = FALSE
  Deletable = FALSE
  CRDsMissing = FALSE
  Faulty = TRUE
  MaxDisturbances = 0
  MaxTime = 2
INVARIANTS PodNotForgotten
PROPERTIES ImplementsSnapshotHold HeldPodReturns
CHECK_DEADLOCK FALSE
