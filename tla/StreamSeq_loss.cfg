SPECIFICATION Spec
INVARIANTS
  TypeOK
  InStep
  DisorderCounted
PROPERTIES
  RepairedByMissing
CONSTANTS
  StreamIds = {s1}
  SeqRange = 6
  Isns = {0, 4}
  Segments <- AnyCut
  MaxPackets = 4
  MaxCount = 2
