SPECIFICATION Spec
CONSTANTS
  Calls <- MCCalls
  Lanes = 2
INVARIANTS
  ColumnsFollowItems
  ReturnsReference
CHECK_DEADLOCK FALSE
