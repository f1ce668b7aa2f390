SPECIFICATION Spec
CONSTANTS
  ORDER = 4
  SearchKeys = {1, 2, 3, 4}
  Deletable = {2, 3}
  ScanKeys = {3}
  Copies = {1, 2, 3}
  MaxPages = 20
  Restarts = FALSE
INVARIANTS
  SearchIsExact
CHECK_DEADLOCK FALSE
