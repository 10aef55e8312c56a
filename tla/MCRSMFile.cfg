SPECIFICATION AdapterSpec
CONSTANTS
  Stem <- Stems
  RSMFiles <- MCRSMFiles
  AdapterRuns <- MCAdapterRuns
INVARIANTS
  TypeOK
  BoxesSpellTheFile
  MatricesSpellTheFile
  OutcomeIsTheFiles
  StateFitForCalls
