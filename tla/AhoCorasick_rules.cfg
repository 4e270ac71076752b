SPECIFICATION Spec
INVARIANTS
  TypeOK
  SearchIsNaive
CONSTANTS
  RuleLists <- Files
  Chars = {"a", "b"}
  MaxN = 2
  StreamIds = {s1, s2}
  MaxContent = 2
  MaxText = 4
