\* Go >= 1.21: recover() returns a runtime.PanicNilError after panic(nil).
CONSTANTS
  Callers <- MCCallers
  DiagWrappers <- MCDiagWrappers
  PlainWrappers <- MCPlainWrappers
  Signatures <- MCSignatures
  APIs <- MCAPIs
  InvalidAPIs <- MCInvalidAPIs
  NilPanic = NilPanic
  NilPanicMessage = NilPanicMessage
  GoRecoversNilPanic = TRUE
  ApiContext = api
  NoTag = NoTag
  MaxCalls = 2

SPECIFICATION Spec

INVARIANT TypeOK
INVARIANT ReportedAtMostOnce
INVARIANT EveryPanicLoggedLocally

PROPERTY ReturnMarksOutcome
PROPERTY EverySignatureReported

\* The host may stop calling into the SDK: every caller idle is a final state.
CHECK_DEADLOCK FALSE
