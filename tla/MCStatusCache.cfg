SPECIFICATION Spec
CONSTANTS
  UIDs = {1, 2}
  Readers = {r1}
  Collectors = {g1, g2}
  NoCollector = NoCollector
  MinAvailable = 2
  Recreated = TRUE
  Invalidates = TRUE
INVARIANTS TypeOK CollectorMatchesEntry
PROPERTIES ResultStable
VIEW Meaning
SYMMETRY CollectorSymmetry
CHECK_DEADLOCK FALSE
