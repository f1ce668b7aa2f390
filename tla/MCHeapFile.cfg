SPECIFICATION Spec
CONSTANTS
  PAGE_SIZE = 22
  HEADER_SIZE = 6
  SLOT_SIZE = 6
  Lengths = {2, 10, 17, 23}
  Spaces = {0, 22}
  MaxPages = 5
  MaxInserts = 4
INVARIANTS
  TypeOK
  ScanIsExact
  PagesAreSound
  DirectoryAgrees
  CrashKeepsCommitted
PROPERTIES
  SlotsAreNotReused
CHECK_DEADLOCK FALSE
