\* Two writers marking into both contexts, one chain that logProcess
\* accepts and one on which it panics, clearMarkers at any time, and a
\* logger that serializes the initialize timeline while a config_sync
\* mark() holds its lock.  No symmetry, as two properties are temporal.
\* A writer stuck for good, deadlocked or not, is what MarkReturns
\* reports, with the trace that leads there.
CONSTANTS
  Contexts <- MCContexts
  Writers = {w1, w2}
  Chains <- ProgressChains
  NoTag = NoTag
  NoHolder = NoHolder
  LoggerReads <- OrderedReads
  MaxMarks = 2
  MaxTime = 1

SPECIFICATION FairSpec

INVARIANT TypeOK

PROPERTY AppendsAreAtomic
PROPERTY MarkReturns

CHECK_DEADLOCK FALSE
