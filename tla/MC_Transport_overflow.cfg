\* Checks the spec's unbounded b, 10b, 100b, ... schedule against the
\* int64 Duration of retry() for retryablePostRequest budgets up to 11,
\* which the code accepts (the retries argument is not clamped).
CONSTANTS
  Codes <- MCCodes
  Payloads <- MCPayloads
  LocalModes = {FALSE}
  SessionIdFailures = {FALSE}
  MaxRetries = 11

SPECIFICATION Spec

INVARIANT SleepsArePositive
