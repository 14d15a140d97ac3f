\* Go < 1.21: recover() returns nil after panic(nil), which ebRecover ignores.
\* Checks the spec's "a local log line is always emitted for an unexpected
\* failure" against a task that calls panic(nil).
CONSTANTS
  Callers <- MCCallers
  DiagWrappers <- MCDiagWrappers
  PlainWrappers <- MCPlainWrappers
  Signatures <- MCSignatures
  APIs <- MCAPIs
  InvalidAPIs <- MCInvalidAPIs
  NilPanic = NilPanic
  NilPanicMessage = NilPanicMessage
  GoRecoversNilPanic = FALSE
  ApiContext = api
  NoTag = NoTag
  MaxCalls = 2

SPECIFICATION Spec

INVARIANT EveryPanicLoggedLocally

CHECK_DEADLOCK FALSE
