CONSTANTS
  Fan = 2
  Blocks <- MCBlocks
  Holes <- MCHoles
  Huge = {2, 4}
  Absent = {4, 9}
SPECIFICATION Spec
INVARIANTS
  TypeOK
  CollectsMappedPages
PROPERTY
  WalkTerminates
CHECK_DEADLOCK FALSE
