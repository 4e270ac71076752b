SPECIFICATION Spec
CHECK_DEADLOCK FALSE
CONSTANTS
  Kinds <- MCKinds
  MaxIfs = 2
  MaxBody = 3
  Trigger = 1
INVARIANTS
  TypeOK
  ScopesKnown
  FlagsKnown
  IncludesKnown
