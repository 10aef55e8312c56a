CONSTANTS
  Stem <- MCStem
  ParserResults <- PlainIndex
  TERMS_CAPACITY = 16

SPECIFICATION Spec

INVARIANT
  IndexIgnoredOnPlain
