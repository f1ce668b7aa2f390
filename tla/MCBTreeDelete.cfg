SPECIFICATION Spec
CONSTANTS
  ORDER = 2
  SearchKeys = {1, 2}
  Deletable = {1, 2}
  ScanKeys = {1}
  Copies = {1}
  MaxPages = 6
  Restarts = TRUE
INVARIANTS
  DeleteNeverRaises
CHECK_DEADLOCK FALSE
