SPECIFICATION Spec
CONSTANTS
  Columns <- MCColumns
  Inserts <- MCInserts
  Deletes <- MCDeletes
  Indexable <- MCIndexable
  Queries <- Pairs
  MaxSlots = 3
  MaxIndexes = 1
INVARIANTS
  IndexesOnlySpeedUp
CHECK_DEADLOCK FALSE
