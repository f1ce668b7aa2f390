SPECIFICATION Spec
CONSTANTS
  Names = {"t", "u"}
  Cols = {"k"}
  MaxFiles = 3
  MaxRows = 2
  Crashes = 0
  Failures = 1
INVARIANTS
  TablesPersist
CHECK_DEADLOCK FALSE
