SPECIFICATION FairSpec
CONSTANTS
  N = 1
  Wants <- NoneOrOne
  Policies = {"Retain", "Delete"}
  Template = 100
  RestoreSize = 120
  Increase = 50
  IncreaseIsPercent = TRUE
  MaxSize = 170
  AutoDataSource = TRUE
  CacheLags = TRUE
  Faulty = TRUE
  MaxDisturbances = 3
INVARIANTS SizeBounded
PROPERTIES DataKept Released Served Grows
CHECK_DEADLOCK FALSE
