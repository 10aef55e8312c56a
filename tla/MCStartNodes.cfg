CONSTANTS
  Graphs <- MCGraphs
  StartFiles <- MCStartFiles
  CommandLines <- MCCommandLines
  Rands <- MCRands
  MaxRuns = 2

SPECIFICATION Spec

INVARIANTS
  TypeOK
  RandomStartDistinct
  VerdictsRight

CHECK_DEADLOCK FALSE
