\* Checks that mark() returns for every builder chain the spec allows.
CONSTANTS
  Contexts <- MCContexts
  Writers = {w1, w2}
  Chains <- SpecChains
  NoTag = NoTag
  NoHolder = NoHolder
  LoggerReads <- OrderedReads
  MaxMarks = 2
  MaxTime = 1

SPECIFICATION Spec

SYMMETRY WriterSymmetry

INVARIANT MarkNeverPanics
