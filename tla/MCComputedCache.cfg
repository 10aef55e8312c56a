CONSTANTS
  Files <- MCFiles
  Runs = {"run1", "run2"}
  SameSecond = TRUE
  MaxVersion = 2
  MaxLines = 6

SPECIFICATION Spec

INVARIANT
  ValueFreshIfQuiet

PROPERTY
  ComputedOnce

CHECK_DEADLOCK FALSE
