SPECIFICATION FairSpec
CONSTANTS
  MaxReplicas = 2
  Images = {i1, i2}
  Configs = {c1}
  MaxUnavailable = 50
  Percent = TRUE
  Faulty = TRUE
  DriftMitigation = TRUE
  MaxDisturbances = 2
INVARIANTS InformerSound
PROPERTIES ReplacementKept DisruptionBound RolloutCompletes
CHECK_DEADLOCK FALSE
