\* Pages of one or two rows over a collection of up to three.
SPECIFICATION BrowsingSpec
CONSTANTS
  Rows = {r1, r2, r3}
  Limits = {0, 1}
  DefaultLimit = 2
  MaxLimit = 2
  Unknown = Unknown
SYMMETRY Symmetry
CHECK_DEADLOCK FALSE
INVARIANTS
  BrowsingTypeOK
  NothingMissed
  ListAndReadAgree
