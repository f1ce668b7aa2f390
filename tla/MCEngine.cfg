SPECIFICATION Spec
CONSTANTS
  Columns <- MCColumns
  Inserts <- MCInserts
  Deletes <- MCDeletes
  Indexable <- MCIndexable
  Queries <- MCQueries
  MaxSlots = 4
  MaxIndexes = 2
INVARIANTS
  TypeOK
  RowsAreExact
  IndexesAgree
  SelectIsExact
PROPERTIES
  DeleteIsExact
CHECK_DEADLOCK FALSE
