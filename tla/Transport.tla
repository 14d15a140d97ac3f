------------------------------ MODULE Transport ------------------------------
(***************************************************************************)
(* The POST path of src/transport.go: postRequest and retryablePostRequest *)
(* enter postRequestInternal, which short-circuits in local mode, encodes  *)
(* the payload and hands retry() a closure that sends one request          *)
(* (doRequest) and classifies the reply.  retry() repeats the closure      *)
(* while it asks for a retry and the budget lasts, sleeping between        *)
(* attempts with a backoff multiplied by backoffMultiplier each time.      *)
(*                                                                         *)
(* A transport holds no mutable state, so concurrent calls do not          *)
(* interact; one caller issuing calls one after another is modelled.  A    *)
(* reply is one of: no response (client.Do failed: DNS, refused, the 3 s   *)
(* timeout, or a malformed URL in http.NewRequest), a response with an     *)
(* error (a failed redirect check: a 3xx response), or a status code with  *)
(* a body that decodes as JSON or not.  A response is its status code, 0   *)
(* standing for a nil response.  A time.Duration is the int64 count of     *)
(* nanoseconds, held in the limbs of module Duration so that it wraps.    *)
(***************************************************************************)
EXTENDS Naturals, Sequences

CONSTANTS
  Codes,              \* HTTP status codes the server may answer
  Payloads,           \* payloads callers pass: "json" or "unencodable"
  LocalModes,         \* values options.LocalMode may have
  SessionIdFailures,  \* whether uuid.NewString may panic: a subset of BOOLEAN
  MaxRetries          \* bound: retry budget callers pass (maxRetries)

\* time.Duration: a signed 64-bit integer, four limbs of 16 bits.
D == INSTANCE Duration WITH Base <- 65536, Width <- 4

BackoffMultiplier == 10                    \* backoffMultiplier
InitialBackoff == D!FromNat(1000000000)    \* time.Second
NoBackoff == D!FromNat(0)                  \* postRequest's backoff, 0

NilResponse == 0
RedirectCode == 302

\* What client.Do gives back: a response (or nil), an error, and a body.
NoResponse == [code |-> NilResponse, err |-> TRUE, body |-> "none"]
RedirectError == [code |-> RedirectCode, err |-> TRUE, body |-> "none"]
Replies ==
  {NoResponse, RedirectError}
  \cup [code : Codes, err : {FALSE}, body : {"json", "garbage"}]
NoReply == [code |-> NilResponse, err |-> FALSE, body |-> "none"]

\* The (response, error) pair a call returns.
Results ==
  [response : {NilResponse, RedirectCode} \cup Codes,
   error : {"none", "request", "encode", "transport", "decode", "status"}]
NilNil == [response |-> NilResponse, error |-> "none"]
EncodeError == [response |-> NilResponse, error |-> "encode"]

VARIABLES
  instance,   \* what newTransport returned: "none" yet, "nil" or "ok"
  localMode,  \* transport.options.LocalMode
  op,         \* the latest call: "post" or "get"
  pc,         \* "idle", "attempt" (fn about to run), "sleep" or "crashed"
  retries,    \* retry(): the remaining budget
  backoff,    \* retry(): the next sleep
  last,       \* the reply of the latest attempt
  result,     \* the (response, error) the latest call returned
  budget,     \* auxiliary: the retries argument of the current call
  attempts,   \* auxiliary: requests sent by the current call
  sleeps      \* auxiliary: the sleeps of the current call, in order

vars == <<instance, localMode, op, pc, retries, backoff, last, result, budget,
          attempts, sleeps>>

TypeOK ==
  /\ instance \in {"none", "nil", "ok"}
  /\ localMode \in LocalModes
  /\ op \in {"post", "get"}
  /\ pc \in {"idle", "attempt", "sleep", "crashed"}
  /\ retries \in 0..MaxRetries
  /\ backoff \in D!Durations
  /\ last \in Replies \cup {NoReply}
  /\ result \in Results
  /\ budget \in 0..MaxRetries
  /\ attempts \in Nat
  /\ sleeps \in Seq(D!Durations)

-----------------------------------------------------------------------------
(* Classifying a reply                                                     *)

\* shouldRetry: the whitelisted transient status codes.
ShouldRetry(code) == code \in {408, 500, 502, 503, 504, 522, 524, 599}

Is2xx(code) == code >= 200 /\ code < 300

\* The closure given to retry(): (response, retry, err) for a reply.  On a
\* client.Do error the closure retries only when a response came back.
Classify(r) ==
  CASE r.err ->
         [response |-> r.code, retry |-> r.code # NilResponse,
          error |-> "transport"]
    [] Is2xx(r.code) ->
         [response |-> r.code, retry |-> FALSE,
          error |-> IF r.body = "json" THEN "none" ELSE "decode"]
    [] OTHER ->
         [response |-> r.code, retry |-> ShouldRetry(r.code),
          error |-> "status"]

ResultOf(c) == [response |-> c.response, error |-> c.error]

-----------------------------------------------------------------------------
(* Actions                                                                 *)

Init ==
  /\ instance = "none"
  /\ localMode \in LocalModes
  /\ op = "post"
  /\ pc = "idle"
  /\ retries = 0
  /\ backoff = NoBackoff
  /\ last = NoReply
  /\ result = NilNil
  /\ budget = 0
  /\ attempts = 0
  /\ sleeps = <<>>

\* newTransport(secret, options): getSessionID (uuid.NewString) may panic;
\* the deferred recover logs the panic and newTransport returns nil.
NewTransport ==
  /\ instance = "none"
  /\ \E fails \in SessionIdFailures : instance' = IF fails THEN "nil" ELSE "ok"
  /\ UNCHANGED <<localMode, op, pc, retries, backoff, last, result, budget,
                 attempts, sleeps>>

\* A method called on the nil *transport dereferences it: a run-time panic
\* that no recover in transport.go stops; the caller's goroutine unwinds.
NilDereference ==
  /\ pc' = "crashed"
  /\ UNCHANGED <<retries, backoff, last, result, budget, attempts, sleeps>>

\* postRequestInternal returns res without calling retry().
ReturnEarly(res) ==
  /\ result' = res
  /\ attempts' = 0
  /\ UNCHANGED <<pc, retries, backoff, last, budget, sleeps>>

\* Mutant of PostRequestInternal: the payload encoded before the local
\* mode check.
PostRequestInternalEncodeFirst(r, b, payload) ==
  /\ pc = "idle"
  /\ instance # "none"
  /\ op' = "post"
  /\ CASE instance = "nil" -> NilDereference
       [] localMode \/ payload = "unencodable" ->
            ReturnEarly(IF payload = "unencodable" THEN EncodeError ELSE NilNil)
       [] OTHER ->
            /\ pc' = "attempt"
            /\ retries' = r /\ budget' = r
            /\ backoff' = b
            /\ attempts' = 0 /\ sleeps' = <<>> /\ last' = NoReply
            /\ UNCHANGED result
  /\ UNCHANGED <<instance, localMode>>

\* postRequestInternal(endpoint, in, out, r, b): transport.options is read
\* first; local mode returns (nil, nil); an unencodable payload returns
\* json.Marshal's error; otherwise retry(r, b, fn) starts.
PostRequestInternal(r, b, payload) ==
  /\ pc = "idle"
  /\ instance # "none"
  /\ op' = "post"
  /\ CASE instance = "nil" -> NilDereference
       [] localMode \/ payload = "unencodable" ->
            ReturnEarly(IF localMode THEN NilNil ELSE EncodeError)
       [] OTHER ->
            /\ pc' = "attempt"
            /\ retries' = r /\ budget' = r
            /\ backoff' = b
            /\ attempts' = 0 /\ sleeps' = <<>> /\ last' = NoReply
            /\ UNCHANGED result
  /\ UNCHANGED <<instance, localMode>>

\* postRequest: no retry, no backoff.
PostRequest ==
  \E p \in Payloads : PostRequestInternal(0, NoBackoff, p)

\* retryablePostRequest: the caller's budget, a one-second first backoff.
RetryablePostRequest ==
  \E r \in 0..MaxRetries, p \in Payloads :
    PostRequestInternal(r, InitialBackoff, p)

\* get(url, headers): http.NewRequest fails on a malformed url before the
\* transport is touched; otherwise transport.client.Do sends the request,
\* with no local mode test and no retry, and its pair is returned as is.
Get ==
  /\ pc = "idle"
  /\ instance # "none"
  /\ op' = "get"
  /\ \E wellFormed \in BOOLEAN :
       CASE ~wellFormed ->
              ReturnEarly([response |-> NilResponse, error |-> "request"])
         [] instance = "nil" -> NilDereference
         [] OTHER ->
              /\ \E r \in Replies :
                   result' = [response |-> r.code,
                              error |-> IF r.err THEN "transport" ELSE "none"]
              /\ attempts' = 1
              /\ UNCHANGED <<pc, retries, backoff, last, budget, sleeps>>
  /\ UNCHANGED <<instance, localMode>>

\* Mutant of Attempt: retries-- moved before the budget test.
AttemptDecrementFirst ==
  /\ pc = "attempt"
  /\ \E r \in Replies :
       LET c == Classify(r) IN
       /\ last' = r
       /\ attempts' = attempts + 1
       /\ retries' = IF c.retry THEN retries - 1 ELSE retries
       /\ IF c.retry /\ retries - 1 >= 0
            THEN /\ pc' = "sleep"
                 /\ UNCHANGED result
            ELSE /\ pc' = "idle"
                 /\ result' = ResultOf(c)
  /\ UNCHANGED <<instance, localMode, op, backoff, budget, sleeps>>

\* One iteration of retry(): fn() sends the request and classifies the
\* reply; without a retry, or with the budget spent, the pair is returned.
Attempt ==
  /\ pc = "attempt"
  /\ \E r \in Replies :
       LET c == Classify(r) IN
       /\ last' = r
       /\ attempts' = attempts + 1
       /\ IF c.retry /\ retries > 0
            THEN /\ pc' = "sleep"
                 /\ UNCHANGED result
            ELSE /\ pc' = "idle"
                 /\ result' = ResultOf(c)
  /\ UNCHANGED <<instance, localMode, op, retries, backoff, budget, sleeps>>

\* Mutant of Backoff: the backoff multiplied before the sleep.
BackoffMultipliedFirst ==
  /\ pc = "sleep"
  /\ retries' = retries - 1
  /\ sleeps' = Append(sleeps, D!Mul(backoff, BackoffMultiplier))
  /\ backoff' = D!Mul(backoff, BackoffMultiplier)
  /\ pc' = "attempt"
  /\ UNCHANGED <<instance, localMode, op, last, result, budget, attempts>>

\* retries--; time.Sleep(backoff); backoff = backoff * backoffMultiplier
Backoff ==
  /\ pc = "sleep"
  /\ retries' = retries - 1
  /\ sleeps' = Append(sleeps, backoff)
  /\ backoff' = D!Mul(backoff, BackoffMultiplier)
  /\ pc' = "attempt"
  /\ UNCHANGED <<instance, localMode, op, last, result, budget, attempts>>

Next ==
  \/ NewTransport
  \/ PostRequest \/ RetryablePostRequest \/ Get
  \/ Attempt \/ Backoff

Spec == Init /\ [][Next]_vars

\* retry() runs on the caller's goroutine and never blocks for good: each
\* request ends within the client's 3 s timeout and each sleep ends.  The
\* host is not obliged to call at all.
FairSpec == Spec /\ WF_vars(Attempt) /\ WF_vars(Backoff)

-----------------------------------------------------------------------------
(* Properties                                                              *)

\* The outcome of the closure before any attempt of the current call.
NoOutcome == [response |-> NilResponse, retry |-> FALSE, error |-> "none"]

\* The backoffs retry() can hold: 0, and time.Second times 10^k.
RECURSIVE Scaled(_)
Scaled(k) == IF k = 0 THEN InitialBackoff
             ELSE D!Mul(Scaled(k - 1), BackoffMultiplier)
Schedule == [k \in 0..MaxRetries |-> Scaled(k)]

\* A backoff of the schedule in whole seconds, for the policy (defined
\* for budgets up to 9, whose backoffs are below 2^31 s and never wrap).
Seconds(d) ==
  IF d = NoBackoff THEN 0
  ELSE 10 ^ (CHOOSE k \in DOMAIN Schedule : Schedule[k] = d)

Policy == INSTANCE RetryPolicy WITH
  Outcomes <- {Classify(r) : r \in Replies},
  Budgets <- 0..MaxRetries,
  Backoffs <- {Seconds(NoBackoff), Seconds(InitialBackoff)},
  Multiplier <- BackoffMultiplier,
  Answers <- Results,
  busy <- pc \in {"attempt", "sleep"},
  first <- Seconds(IF sleeps = <<>> THEN backoff ELSE sleeps[1]),
  sleeps <- [i \in 1..Len(sleeps) + IF pc = "sleep" THEN 1 ELSE 0 |->
               Seconds(IF i > Len(sleeps) THEN backoff ELSE sleeps[i])],
  outcome <- IF last = NoReply THEN NoOutcome ELSE Classify(last),
  answer <- result

\* retry() keeps the contract of spec section 4.1 at every step: a call
\* runs the closure until it asks for no retry or the budget is spent,
\* sleeps b, 10b, 100b, ... in between, returns the last closure's pair,
\* and (the host's calls aside) always returns.
ImplementsRetryPolicy == Policy!RSpec

\* In local mode postRequest and retryablePostRequest send no request and
\* return (nil, nil), whatever the payload (spec section 8).
LocalModeIsSilent ==
  localMode /\ op = "post" /\ pc = "idle" => attempts = 0 /\ result = NilNil

\* In local mode no network operation of the transport sends a request
\* (spec section 3: local mode makes all network operations no-ops).
NetworkSilentInLocalMode == localMode => attempts = 0

\* No call of the transport the SDK constructed panics its caller (spec
\* section 7: transport failures are returned errors, never panics).
NoCallPanics == pc # "crashed"

\* A transport-level error (no response: DNS, refused connection, timeout)
\* is retried while budget remains (spec, Transport, section 4.2).
TransportErrorRetried ==
  [][pc = "attempt" /\ retries > 0 /\ last' = NoResponse
       /\ attempts' = attempts + 1 => pc' = "sleep"]_vars

\* Every sleep of retry() is a pause: time.Sleep is handed a positive
\* duration, the schedule b, 10b, 100b, ... of spec section 4.1 that grows
\* without bound, with b = 1 s for retryablePostRequest.
SleepsArePositive == \A i \in 1..Len(sleeps) : ~D!NonPositive(sleeps[i])
=============================================================================
