\* Checks that no transport call panics its caller when uuid.NewString
\* panics inside newTransport.
CONSTANTS
  Codes <- MCCodes
  Payloads <- MCPayloads
  LocalModes = {FALSE, TRUE}
  SessionIdFailures = {FALSE, TRUE}
  MaxRetries = 1

SPECIFICATION Spec

CHECK_DEADLOCK FALSE

INVARIANT NoCallPanics
