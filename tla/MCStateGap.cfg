SPECIFICATION Spec
CONSTANTS
  Null = Null
  StateDefs <- DemoStates
  Rules <- OpenRules
  Authorities <- BothAuthorities
  Initial <- Starts
  Callers = {c1, c2}
  MaxEvents = 3
  ParameterDefs <- DemoParameters
  PolicyBooks <- Books
  ThresholdSets <- MCThresholds
INVARIANT
  Connected
