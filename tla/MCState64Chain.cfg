SPECIFICATION Spec
CONSTANTS
  Sources <- Ends
  MaxStates = 3
  Null = Null
  Encoders <- MCEncoders
  Readings <- MCReadings
INVARIANTS
  MasksReplayChain
  ClassificationsAgree
  StatesSurviveEveryForm
CHECK_DEADLOCK FALSE
