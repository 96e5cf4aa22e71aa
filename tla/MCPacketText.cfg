\* A client that sends what is not ASCII as it is.
SPECIFICATION Spec
CONSTANTS
  Escapes = FALSE
  Scenarios <- MCScenarios
  Ids <- MCIds
  Snapshots <- MCSnapshots
  MaxScenarios = 2
  MaxPairs = 2
  MaxSnapshots = 4
  LooseCalls <- MCLooseCalls
INVARIANTS
  OwnPacketIsValid
CHECK_DEADLOCK FALSE
