SPECIFICATION Spec
CONSTANTS
  ORDER = 4
  SearchKeys = {1, 2, 3, 4, 5}
  Deletable = {2, 3, 4}
  ScanKeys = {3}
  Copies = {1, 2}
  MaxPages = 20
  Restarts = FALSE
INVARIANTS
  SearchIsExact
  RangeIsExact
CHECK_DEADLOCK FALSE
