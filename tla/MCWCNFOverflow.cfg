CONSTANTS
  Stem <- MCStem
  ParserResults <- ManyTerminals
  TERMS_CAPACITY = 16

SPECIFICATION Spec

INVARIANT
  TermsSetInBounds
