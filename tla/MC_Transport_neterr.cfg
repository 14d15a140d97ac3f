\* Checks the spec's "a transport-level error is also retried if a retry
\* budget remains" against retry() and the closure of postRequestInternal.
CONSTANTS
  Codes <- MCCodes
  Payloads <- MCPayloads
  LocalModes = {FALSE, TRUE}
  SessionIdFailures = {FALSE}
  MaxRetries = 5

SPECIFICATION Spec


PROPERTY TransportErrorRetried
