SPECIFICATION FairSpec
CONSTANTS
  N = 2
  Specs <- ScaleOrHide
  CacheLags = TRUE
  MaxDisturbances = 1
INVARIANTS IdentityKept
PROPERTIES AddressKept Converges
CHECK_DEADLOCK FALSE
