SPECIFICATION Spec
INVARIANTS
  SizeIsDecoded
CONSTANTS
  Messages <- TextMessage
  Digits <- BinaryDigits
  Behind <- Nothing
