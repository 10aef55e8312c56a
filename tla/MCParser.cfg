CONSTANTS
  Label <- MCLabel
  Count = "Count:"
  SIZE_MAX = 3
  Configs <- MCConfigs

SPECIFICATION Spec

INVARIANTS
  TypeOK
  RulesSpellTheFile
  NontermsExact
  StartIsFirst
  GraphTrueToFile
  ExitIffMalformed

PROPERTY
  SymbolsOnlyAppended
