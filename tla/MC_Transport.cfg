\* Every budget up to maxRetries, either local mode, a session id that may
\* fail; a panic on the nil transport ends the process, the one state
\* without a successor.
CONSTANTS
  Codes <- MCCodes
  Payloads <- MCPayloads
  LocalModes = {FALSE, TRUE}
  SessionIdFailures = {FALSE, TRUE}
  MaxRetries = 5

SPECIFICATION FairSpec

CHECK_DEADLOCK FALSE

INVARIANT TypeOK
INVARIANT LocalModeIsSilent

PROPERTY ImplementsRetryPolicy
