SPECIFICATION Spec
CONSTANTS
  None = None
  Frames <- MCFrames
  MaxFrames = 2
  StdoutCapacity = 1
INVARIANTS
  AnswersStayInOrder
PROPERTIES
  StopsAfterClose
  OwedAnswersArrive
  ImplementsSession
CHECK_DEADLOCK FALSE
