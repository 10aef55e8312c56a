CONSTANTS
  Files <- MCFiles
  Runs = {"run1"}
  SameSecond = FALSE
  MaxVersion = 2
  MaxLines = 2

SPECIFICATION Spec

INVARIANT
  ValueFresh

CHECK_DEADLOCK FALSE
