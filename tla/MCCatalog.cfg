SPECIFICATION FairSpec
CONSTANTS
  Names = {"t", "u"}
  Cols = {"k"}
  MaxFiles = 3
  MaxRows = 2
  Crashes = 1
  Failures = 1
INVARIANTS
  TypeOK
  FileIdsAreUnique
  NamedFilesExist
  CatalogIsDurable
  RowsSurvive
  IndexesSurvive
PROPERTIES
  StatementsEnd
CHECK_DEADLOCK FALSE
