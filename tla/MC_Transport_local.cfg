\* Checks the spec's "local mode makes all network operations no-ops"
\* against get(), which never reads options.LocalMode.
CONSTANTS
  Codes <- MCCodes
  Payloads <- MCPayloads
  LocalModes = {TRUE}
  SessionIdFailures = {FALSE}
  MaxRetries = 1

SPECIFICATION Spec

INVARIANT NetworkSilentInLocalMode
