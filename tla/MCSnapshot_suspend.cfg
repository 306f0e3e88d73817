SPECIFICATION FairSpec
CONSTANTS
  Pods = {p1}
  NoPod = NoPod
  Idle = Idle
  NoTime = NoTime
  MinAvailable = 1
  Ordinal = p1
  DeletePod = TRUE
  Limit = 1
  Interval = 1
  Churn = TRUE
  Deletable = TRUE
  CRDsMissing = TRUE
  Faulty = TRUE
  MaxDisturbances = 2
  MaxTime = 1
INVARIANTS TypeOK
PROPERTIES SuspendRestores
CHECK_DEADLOCK FALSE
