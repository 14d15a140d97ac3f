\* Go < 1.21: recover() returns nil after panic(nil), which ebRecover ignores.
\* Checks that every wrapped call returns while callers contend for seenLock.
CONSTANTS
  Callers <- MCCallers
  DiagWrappers <- MCDiagWrappers
  PlainWrappers <- MCPlainWrappers
  Signatures <- MCSignatures
  APIs <- MCAPIs
  InvalidAPIs <- MCInvalidAPIs
  NilPanic = NilPanic
  NilPanicMessage = NilPanicMessage
  GoRecoversNilPanic = FALSE
  ApiContext = api
  NoTag = NoTag
  MaxCalls = 2

SPECIFICATION Spec

PROPERTY EveryCallReturns

\* The host may stop calling into the SDK: every caller idle is a final state.
CHECK_DEADLOCK FALSE
