SPECIFICATION Spec
CHECK_DEADLOCK FALSE
CONSTANTS
  CommandLines <- MCCommandLines
  Configs <- MCAllConfigs
  Dirs <- MCDirs
  Chain <- MCChain
  Text <- MCText
  ErrorCategories <- MCErrorCategories
  LegacyCategories <- MCLegacyCategories
  DefaultFilters <- MCDefaultFilters
  DefaultLength = 4
  NoFile = NoFile
  Unreadable = Unreadable
  BadNumber = BadNumber
  AllCategories = AllCategories
  NoMark = NoMark
INVARIANTS
  TypeOK
  FiltersAsGiven
  OwnErrors
  CountsAgree
