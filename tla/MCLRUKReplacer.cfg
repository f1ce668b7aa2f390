SPECIFICATION Spec
CONSTANTS
  K = 2
  Frames = {f1, f2, f3}
  MaxTime = 6
INVARIANTS
  TypeOK
  VictimHasLargestKDistance
  VictimIsUnique
CHECK_DEADLOCK FALSE
