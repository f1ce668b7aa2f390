SPECIFICATION Spec
CONSTANTS
  ORDER = 2
  SearchKeys = {1,2,3,4,5,6,7}
  Deletable = {2,5}
  ScanKeys = {3,7}
  Copies = {1}
  MaxPages = 20
  Restarts = TRUE
INVARIANTS
  TypeOK
  SearchIsExact
  RangeIsExact
  LeavesAreChained
  TreeIsBalanced
  PinsAreReturned
PROPERTIES
  ImplementsIndex
CHECK_DEADLOCK FALSE
