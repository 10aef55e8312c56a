SPECIFICATION AdapterSpec
CONSTANTS
  Stem <- Stems
  RSMFiles <- RowFiles
  AdapterRuns <- LongRuns
INVARIANT
  CleanupFreesAll
