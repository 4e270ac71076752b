SPECIFICATION Spec
INVARIANTS
  TypeOK
  RowsKept
PROPERTIES
  CallReturns
CONSTANTS
  p1 = p1
  p2 = p2
  Procs = {p1, p2}
  Other = Other
  None = None
  Tables <- OneTable
  RowTable = "save_result"
  RowLimit = 0
  MaxRows = 2
  BadRows <- QuotedPattern
