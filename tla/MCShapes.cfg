SPECIFICATION BothSpec
CONSTANTS
  States = {0, 3, 7}
  MaxLength = 5
  Bytes = {0, 3, 7, 11}
  Lengths = {0, 2, 4, 5}
  Leftovers = {3}
INVARIANTS
  CollapseIsLossless
  RelationIsExact
  RunsTilePrefix
  StopsOnlyWhenFull
  LanguagesAgree
  CommandLineAgrees
CHECK_DEADLOCK FALSE
