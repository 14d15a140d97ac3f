\* Checks that mark() returns when the logger serializes the timeline
\* whose status line it is handed.
CONSTANTS
  Contexts <- MCContexts
  Writers = {w1}
  Chains <- GoodChains
  NoTag = NoTag
  NoHolder = NoHolder
  LoggerReads <- SameContextReads
  MaxMarks = 1
  MaxTime = 1

SPECIFICATION FairSpec

PROPERTY MarkReturns

CHECK_DEADLOCK FALSE
