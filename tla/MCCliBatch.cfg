SPECIFICATION Spec
CONSTANTS
  Empty = Empty
  Word = Word
  Scripts <- MCScripts
  StdinCapacity = 1
  StdoutCapacity = 1
  StderrCapacity = 2
INVARIANTS
  AccountsForEveryLine
  ExitCodeTellsRefusals
PROPERTIES
  FinishesForAnyCaller
CHECK_DEADLOCK FALSE
