CONSTANTS
  Stem <- MCStem
  ParserResults <- MCParserResults
  TERMS_CAPACITY = 16

SPECIFICATION AllSpec

INVARIANTS
  TypeOK
  InNormalForm
  LanguageKeptUnlessClash
  TermsSetInBoundsSingle
  IndicesExploded
  RuleBufferInBounds
  MatricesMatchGraph
  MinimizedIsomorphic
  AdvSlotsTile
  ViewIsTheSlots
  ResultsAgree

PROPERTIES
  InputSymbolsFixed
  SplitKeepsSpelling
  ComparisonReached
