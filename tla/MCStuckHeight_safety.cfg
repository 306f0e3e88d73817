SPECIFICATION Spec
CONSTANTS
  Pods = {p1}
  NoPod = NoPod
  Heights = {h1, h2}
  NoHeight = NoHeight
  NoSnapshot = NoSnapshot
  NoTime = NoTime
  StuckDuration = 1
  RateLimitWindow = 2
  MaxRetries = 2
  CreateVolumeSnapshot = TRUE
  Faulty = TRUE
  PodDeletion = TRUE
  MaxTime = 3
INVARIANTS TypeOK Coherent CounterMatchesLog SlidingRate
PROPERTIES ScriptIsCounted SnapshotBeforeScript
VIEW Meaning
SYMMETRY HeightSymmetry
CHECK_DEADLOCK FALSE
