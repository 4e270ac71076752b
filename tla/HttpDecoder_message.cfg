SPECIFICATION Spec
\* inflate with a negative size may end the process.
CHECK_DEADLOCK FALSE
INVARIANTS
  TypeOK
  L7InBounds
  ChunksDecoded
  InflateInOrder
CONSTANTS
  Messages <- AllMessages
  Digits <- BinaryDigits
  Behind <- SomeBehind
