SPECIFICATION Spec
CONSTANTS
  PAGE_SIZE = 22
  HEADER_SIZE = 6
  SLOT_SIZE = 6
  Lengths = {10}
  Spaces = {0}
  MaxPages = 5
  MaxInserts = 4
INVARIANTS
  InsertedRowsAreScanned
CHECK_DEADLOCK FALSE
