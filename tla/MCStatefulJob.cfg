SPECIFICATION FairSpec
CONSTANTS
  Interval = 2
  HistorySize = 3
  Faulty = TRUE
  MaxTime = 7
INVARIANTS TypeOK HistorySorted HistorySpaced
PROPERTIES ClaimUsedOnce DueJobRuns
CHECK_DEADLOCK FALSE
