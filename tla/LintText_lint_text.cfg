SPECIFICATION Spec
CHECK_DEADLOCK FALSE
CONSTANTS
  Texts <- MCTexts
INVARIANTS
  TypeOK
  ElidedIsCode
  PairsMatch
