\* A client that escapes what is not ASCII.
SPECIFICATION Spec
CONSTANTS
  Escapes = TRUE
  Scenarios <- MCScenarios
  Ids <- MCIds
  Snapshots <- MCSnapshots
  MaxScenarios = 2
  MaxPairs = 2
  MaxSnapshots = 4
  LooseCalls <- MCLooseCalls
INVARIANTS
  VerdictIsExact
  IdsMeanOneScenario
  ToolsAgree
  ChoicesReconstructOutput
  SchemasSuffice
  ProgramsAgree
CHECK_DEADLOCK FALSE
