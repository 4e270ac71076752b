SPECIFICATION Spec
INVARIANTS
  TypeOK
  NoneLost
  CollectedFollows
PROPERTIES
  FlagFlushes
CHECK_DEADLOCK FALSE
CONSTANTS
  ResultSize = 3
  MaxContent = 5
  MaxBytes = 7
