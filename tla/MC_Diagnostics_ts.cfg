\* Checks that a timeline is in timestamp order.
CONSTANTS
  Contexts <- MCContexts
  Writers = {w1, w2}
  Chains <- GoodChains
  NoTag = NoTag
  NoHolder = NoHolder
  LoggerReads <- OrderedReads
  MaxMarks = 2
  MaxTime = 1

SPECIFICATION Spec

SYMMETRY WriterSymmetry

INVARIANT TimestampsOrdered
