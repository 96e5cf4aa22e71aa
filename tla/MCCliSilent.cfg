SPECIFICATION Spec
CONSTANTS
  Empty = Empty
  Word = Word
  Scripts <- PlainScripts
  StdinCapacity = 1
  StdoutCapacity = 1
  StderrCapacity = 2
INVARIANTS
  QuietFailureIsSilent
CHECK_DEADLOCK FALSE
