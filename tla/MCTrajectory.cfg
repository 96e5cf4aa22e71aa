SPECIFICATION Spec
CONSTANTS
  Null = Null
  StateDefs <- DemoStates
  Rules <- DeclaredRules
  Authorities <- BothAuthorities
  Initial <- MoreStarts
  Callers = {c1, c2}
  MaxEvents = 3
  ParameterDefs <- DemoParameters
  PolicyBooks <- Books
  ThresholdSets <- MCThresholds
SYMMETRY Interchangeable
INVARIANTS
  EndsAreDerived
  DriftIsAccounted
  ValidationCarries
  PoliciesFollowResults
PROPERTIES
  WalksDeclaredGraph
