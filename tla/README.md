# TLA+ models of the statsig-go-sdk resilience layer

This directory holds TLA+ models of the three primitives in `src/` that make
the SDK's outbound calls safe and observable. The TLC configurations beside
them check the models. Each definition is translated from the Go source. The
map in `PROJECT.json` gives the lines each one stands for.

## 1. Inventory

### Components and their state

| Component | Source | State | Operations |
|---|---|---|---|
| Diagnostics Timeline | `src/diagnostics.go` | Two `diagnosticsBase` values, `initialize` and `config_sync`. Each has a `markers` slice guarded by an `RWMutex`. `logProcess` hands a status line to the external logger (`global.Logger().LogStep`). A marker under construction is local to its goroutine. | the builder chain (`initialize()`/`configSync()`, key, step, action and tag selectors), `mark()` (stamp, `Lock`, append, `logProcess`, deferred `Unlock`), `clearMarkers()`, `serialize()` |
| Error Boundary | `src/error_boundary.go` | `seen` (the set of signatures already reported) under `seenLock`, plus `api`, `endpoint` and `sdkKey`. These are fixed by `newErrorBoundary`. | `captureCheckGate`, `captureGetConfig` and `captureGetLayer` (these three mark diagnostics), `captureGetClientInitializeResponse`, `captureVoid`, `ebRecover`, `logException`, `checkSeen` |
| Transport | `src/transport.go` (lines 1-152) | Immutable after `newTransport`: `api`, `sdkKey`, `sessionID`, `metadata` and `options.LocalMode`. `newTransport` returns nil when `uuid.NewString` panics. | `newTransport`, `postRequest`, `retryablePostRequest`, `postRequestInternal`, `doRequest`, `get` |
| Retry Engine | `src/transport.go` | Only per-call state: the remaining retries and the backoff | `retry`, `shouldRetry` |
| Tests | `src/data_adapter_test.go`, `src/transport.go` from line 153 | None | Tests of flag evaluation and the data adapter. Those components are outside `src/`. |

### How the components interact

- Host goroutines call the capture wrappers concurrently. A diagnostics
  wrapper marks `start` on the `api` diagnostics context and runs the task.
  It then marks `end(success=true)`. If the task panics, the deferred
  `ebRecover` runs `logException`, which does a dedup check-and-insert in
  `seen` and then POSTs to the collector. `ebRecover` then calls
  `LogError` and finally the recover callback, which marks
  `end(success=false)`.
- The error boundary uses its own `http.Client` and not the Transport. It
  shares only the diagnostics object.
- The config-sync and bootstrap paths use the Transport. They are outside
  `src/`. The retry loop blocks the calling goroutine in `time.Sleep`.

### What is hard

- **Concurrency.** Many goroutines append to one timeline. `mark()` reads
  the clock *before* it takes the lock. `append` is a read followed by a
  write. `clearMarkers` can run between any two `mark()` calls. Identical
  panics can happen at the same time in different goroutines.
- **Failure.** A task can panic, or can call `panic(nil)`. What `recover()`
  returns after `panic(nil)` depends on the Go version. The collector POST
  may fail, and the signature has already been inserted into `seen` by
  then. `logProcess` can panic on a nil field after the marker has been
  appended.
- **Retries and timeouts.** Retries depend on the reply classification, the
  budget and the backoff schedule. A timeout returns a nil response, and
  the closure never retries a nil response.

### What makes each component correct

- **Timeline.** Appends are atomic: nothing is lost or duplicated, and a
  cleared marker never comes back. `mark()` never crashes the goroutine for
  a chain the spec allows. The log is ordered as its readers assume.
- **Error boundary.** Each signature is POSTed at most once, and with a
  valid API it is eventually POSTed. Every panic is logged locally. Every
  diagnostics wrapper leaves exactly one start marker and one end marker,
  and the end marker's success tag matches the task's outcome.
- **Transport.** A call sends at most budget+1 requests. It sleeps `b`,
  `10b`, `100b`, and so on, returns the last reply's pair, and always
  returns. It retries only transient replies. Local mode never touches the
  network. No call panics its caller.
- **Liveness.** Every `mark()` and every wrapped call returns: the locks
  they take are released on every path, panics included.

## 2. Modules

| Module | Models | State | Actions |
|---|---|---|---|
| `DiagnosticsTimeline` | The abstract promise of a `diagnosticsBase`: an atomic, append-only log with a clear operation | `timeline[c]` | `Mark(c, m)`, `Clear(c)` |
| `Diagnostics` | `diagnostics.go` with concurrent writers | `timeline`, `lock`, `clock`, and per writer `pc`, `ctx`, `marker`, `local` (the slice its append read) and `marks` | `Build` (context, selectors, tags), `Stamp` (`time.Now()`), `Lock`, `ReadSlice` and `WriteSlice` (the two halves of `append`, with `logProcess` under the lock), `LogStep` (`logProcess` calls the logger, under the lock; the logger returns or first serializes a timeline from `LoggerReads`), `LogRead` (that `serialize()`: `RLock` waits while a writer holds or waits for `mu`), `Unlock` (the defer, which then lets a `logProcess` panic crash the goroutine), `ClearMarkers`, `Tick` (the clock) |
| `ErrorBoundary` | `error_boundary.go`. It composes `DiagnosticsTimeline` (`INSTANCE ... WITH`) for the `api` context. `error_boundary.go` calls `diagnostics.api()` and the keys `checkGate()`, `getConfig()` and `getLayer()`, which `src/diagnostics.go` does not define. So this timeline is the abstract atomic log, not the `Diagnostics` model. | `seen`, `seenLocked`, `api`, per caller `pc` and `call` (wrapper and task outcome), `posted` (the collector POSTs), and auxiliary `occurred`, `panics` and `logged` | `Call` (enter a wrapper), `MarkStart`, `RunTask` (return, recovered panic, or swallowed `panic(nil)`), `MarkEndOk`, `LockSeen` (`seenLock.Lock`), `CheckSeen` (the test; a seen signature returns through the deferred `Unlock`), `InsertSeen` (the insert, then the deferred `Unlock`), `Send` (NewRequest, `client.Do`), `LogError`, `MarkEndFail` (the recover callback) |
| `RetryPolicy` | The Retry Engine's contract (spec 4.1) in closed form: the sleep schedule is `b * 10^k`, with no loop and no multiplication | `busy`, `budget`, `first`, `sleeps`, `outcome` (the closure's latest triple), `answer` | `Begin(r, b)`, `Run` (one closure run: sleep or return its pair), `Bypass` (a host call that never enters `retry()`) |
| `Duration` | `time.Duration` as an int64 in two's complement: four 16-bit limbs, so that `backoff * backoffMultiplier` wraps as in Go | none (constants `Base`, `Width`) | operators `FromNat` (`time.Second`), `Mul` (the wrapping multiply), `Negative`, `NonPositive` (what `time.Sleep` skips) |
| `Transport` | `transport.go`: construction, the POST path, `get` and `retry` | `instance` (what `newTransport` returned), `localMode`, `op`, `pc`, `retries`, `backoff`, `last` reply, `result`, and auxiliary `budget`, `attempts` and `sleeps` | `NewTransport` (a session-id panic leaves nil), `PostRequest` and `RetryablePostRequest` (both through `PostRequestInternal`: nil dereference, local mode, encoding, `retry`), `Get` (NewRequest, nil dereference, `client.Do`), `Attempt` (`doRequest` plus the closure plus the loop test), `Backoff` (`retries--`, sleep, multiply) |

`Transport` implements `RetryPolicy`: `busy` is `pc` in `attempt` or
`sleep`; a pending sleep (`pc = "sleep"`) counts as taken, so the abstract
sleep happens at the attempt that asks for it and `Backoff` is a stutter;
`first` is the first sleep (or `backoff` before any); `outcome` is
`Classify(last)`; `answer` is `result`. The policy counts in seconds:
`Seconds` maps a backoff of the schedule `time.Second * 10^k` to `10^k`.

How the data is abstracted:

- A panic value is its rendered message, drawn from a small set.
  `panic(nil)` is a separate outcome.
- A POST is the signature it carries.
- A reply is one of three things: no response, a response with an error
  (a failed redirect check), or a status code with a JSON or undecodable
  body.
- A `time.Duration` is an int64 count of nanoseconds, held in limbs
  (module `Duration`), because the backoff overflows. Timestamps are whole seconds, because
  the code stores `Unix() * 1000`.
- Marker tags that no code reads (statusCode, region, URL, idListCount) are
  dropped.
- The log messages of `logProcess` are reduced to the nil dereferences it
  performs.

## 3. Runs

| Run | Config | Expect | What it shows |
|---|---|---|---|
| `eb_go121` | `MC_ErrorBoundary.cfg` | pass | On Go ≥ 1.21, two goroutines make two calls each, with a panic message, `panic(nil)`, a valid API and a malformed one. Results: at most one POST per signature, although `checkSeen`'s test and insert are separate steps that only `seenLock` keeps together (`ReportedAtMostOnce`). Every recovered signature is eventually POSTed (`EverySignatureReported`). Every panic is logged (`EveryPanicLoggedLocally`). Each diagnostics wrapper returns with exactly start then end, and the end marker's success equals the outcome (`ReturnMarksOutcome`). |
| `eb_go120` | `MC_ErrorBoundary_go120.cfg` | pass | On Go < 1.21, where `panic(nil)` never reaches `logException`, every wrapped call returns to the host while callers contend for `seenLock` (`EveryCallReturns`). |
| `eb_nil_panic` | `MC_ErrorBoundary_nillog.cfg` | violation | On Go < 1.21, `panic(nil)` is swallowed with no local log. |
| `diag_timestamps` | `MC_Diagnostics_ts.cfg` | violation | A timeline is not in timestamp order. |
| `diag_panic` | `MC_Diagnostics_panic.cfg` | violation | `mark()` panics for builder chains the spec allows. |
| `diag_logger_reentry` | `MC_Diagnostics_logger.cfg` | violation | A logger that serializes the timeline whose line it is handed blocks `mark()` for good. |
| `diag_progress` | `MC_Diagnostics_live.cfg` | pass | Two writers mark two markers each into both contexts while the clock ticks and `clearMarkers` runs. One chain panics in `logProcess`. The logger serializes the `initialize` timeline when handed a `config_sync` line. Results: `Diagnostics` implements `DiagnosticsTimeline` (`AppendsAreAtomic`). Under fair scheduling, every `mark()` returns or ends its goroutine (`MarkReturns`). |
| `transport` | `MC_Transport.cfg` | pass | Every budget 0..5, every reply sequence, either local mode, and a session id that may fail. `retry()` implements `RetryPolicy`, liveness included (`ImplementsRetryPolicy`). The run also checks `LocalModeIsSilent`. |
| `transport_neterr` | `MC_Transport_neterr.cfg` | violation | A transport error is never retried. |
| `transport_local_get` | `MC_Transport_local.cfg` | violation | In local mode `get()` still sends its request. |
| `transport_overflow` | `MC_Transport_overflow.cfg` | violation | With a `retryablePostRequest` budget of 11, the 11th sleep is negative, so `time.Sleep` does not pause (`SleepsArePositive`). |
| `transport_nil` | `MC_Transport_nil.cfg` | violation | After a session-id panic, the first call on the nil transport panics its caller. |

### Findings

1. **`panic(nil)` (`error_boundary.go:107`).** With Go < 1.21, `recover()`
   returns nil. `ebRecover` then does nothing: there is no log, no report
   and no end marker. The spec requires a local log line for every
   unexpected failure. The go.mod is not in `src/`, so both Go versions are
   checked.
2. **Transport errors are not retried (`transport.go:88`).** The closure
   returns `retry = response != nil`, and `client.Do` gives a nil response
   on a timeout, DNS failure or refused connection. The spec says these are
   retried.
3. **Timeline order (`diagnostics.go:219`).** The timestamp is taken before
   the lock, so the appended order can disagree with timestamp order.
4. **`logProcess` nil dereference (`diagnostics.go:235`).** A
   `download_config_specs` or `data_store_config_specs` marker without a
   step, or an end marker without `success`, panics after being appended.
   The spec calls both fields optional.

5. **`get()` ignores local mode (`transport.go:116`).** The spec
   (section 3) says local mode makes all network operations no-ops. `get`
   never reads `options.LocalMode`.
6. **Nil transport (`transport.go:37`).** `newTransport` recovers a panic
   of `uuid.NewString` and returns nil. `postRequestInternal` (line 77) and
   `get` (line 126) dereference it, and the caller panics. The spec says
   transport failures are returned errors and never panics.
7. **Backoff overflow (`transport.go:138`).** `retry()` multiplies the
   nanosecond backoff by 10 with no cap, and `retryablePostRequest` does
   not clamp its `retries` to `maxRetries`. The 11th sleep of a call is
   10^19 ns, which wraps to a negative `Duration`, so `time.Sleep` returns
   at once. The 12th is 10^20 mod 2^64 ns, about 246 years. The spec says
   the sleeps grow without bound. In practice the 10th sleep is already
   31 years, so this matters only to a caller that passes a large budget
   and relies on the schedule's shape.
8. **Logger under the write lock (`diagnostics.go:223`).** `mark()`
   calls `logProcess`, and through it the logger's `LogStep`, while it
   holds the timeline's write lock. `serialize()` takes the read lock of
   the same `RWMutex`, which is not reentrant. So a logging collaborator
   that serializes that timeline blocks the goroutine for good. A logger
   that reads the other context is safe while reads go one way only, as
   in `diag_progress`. Reads both ways can form a cycle of two writers.
   The spec names the event-logging collaborator as a consumer of
   `serialize()` and calls the status line a notification hook, but it
   states no rule that keeps the two apart.

### Bounds and why they suffice

- **ErrorBoundary.** Two callers with two calls each give every case:
  - one goroutine repeating a signature;
  - two goroutines racing with the same signature;
  - two distinct signatures;
  - interleaved wrappers on the shared timeline.

  About 420k states on Go ≥ 1.21 and 190k on Go < 1.21.
- **Diagnostics.** Two writers with two marks each and one clock tick give
  lost updates, clear/append races and timestamp inversion. The safety
  violation runs treat writers as symmetric (`SYMMETRY`). This is sound
  because no property names a writer. `diag_logger_reentry` needs one
  writer and one mark: the read of its own timeline never returns.
- **Transport.** Budgets range up to the code's `maxRetries` (5). The reply
  codes cover success, a client error, two whitelisted codes and one
  non-whitelisted 5xx. About 4k states. `transport_overflow` raises the
  budget to 11, the first that wraps, with one mode and no session-id
  failure (16k states).
- **Duration.** An `ASSUME` of `MC_Transport`, checked by every Transport
  run, compares the limb operators with integer arithmetic over all 256
  durations of base 4 and four limbs. Multiplying by 10 gives carries of
  up to 9 into every limb and a lost top carry, which is every case of the
  base-2^16 multiply of `Transport`.
- **`diag_progress`.** Two writers, both contexts, one chain that
  `logProcess` accepts and one on which it panics. The logger reads the
  `initialize` timeline from under a `config_sync` lock, so a writer waits
  in `LogRead` for another writer's `Lock`, `Unlock` and pending `Lock`.
  No symmetry is used, because two properties are temporal. About 100k
  states, 45 s.

### Fairness

- **Weak fairness for steps that do not wait.** Go schedules goroutines
  preemptively. A request ends within the client's 3 s timeout, and a
  sleep ends. So `ErrorBoundary` assumes weak fairness for each caller's
  in-call steps, `Diagnostics` for each writer's steps, and `Transport`
  for `Attempt` and `Backoff`.
- **Strong fairness for taking a mutex.** `LockSeen`, `Lock` and the
  logger's `RLock` (`LogRead`) wait for a mutex that other goroutines take and release again. Go's `sync.Mutex`
  switches to starvation mode after a waiter has waited 1 ms, and then
  hands the mutex to waiters in order. That justifies strong fairness.
- **No fairness for the host.** `Call`, `PostRequest`, `Get` and the
  writers' `Build` are not fair, because the host may stop calling.
- **Deadlock checking.**
  - The ErrorBoundary configs set `CHECK_DEADLOCK FALSE`: every caller
    idle is a final state.
  - The `transport` configs set it too, because a panic on the nil
    transport ends the process.
  - `diag_progress` and `diag_logger_reentry` leave stuck writers to
    `MarkReturns`, which reports them with a trace.
  - The other Diagnostics runs check deadlock.

## 4. Not modelled, and why

- **Out of scope.** What `serialize()` returns. It is modelled only where
  it waits: its `RLock`, as the logger's call. Markers are values and a
  clear sets the slice to nil, so a returned slice cannot change later. A
  snapshot property would hold by construction.
- **Out of scope.** The external logger, the host's tasks, the collector
  and the API server are nondeterministic environment. The logger is
  modelled only by which timelines it may serialize (`LoggerReads`).
- **Out of scope.** The test files.
- **Not modelled.** The composition of config sync, `Transport` and the
  `config_sync` timeline. The sync loop is not in this repository, so its
  order of marks and calls could come only from the spec. The two
  components share no state but the timeline, and the timeline's
  concurrency (writers, `clearMarkers`, the logger) is checked in
  `Diagnostics`. A `Transport` call holds no lock, so composing it
  adds no interleaving that the separate models miss.
- **Not modelled.** Request headers, URL trimming and `getStatsigMetadata`
  are data that no property tells apart.

## 5. Plan

1. *(done)* `ErrorBoundary` over `DiagnosticsTimeline`. This is the SDK's
   core promise: the host never crashes and each failure is reported once.
2. *(done)* `Diagnostics` refines `DiagnosticsTimeline`. Its violation runs
   cover timestamp order and `logProcess` panics.
3. *(done)* `Transport` with the retry engine. Its violation run covers
   transport errors.
4. *(done)* `RetryPolicy` and the refinement `ImplementsRetryPolicy`,
   which replaced `AttemptsWithinBudget` and `BackoffIsGeometric`. Also
   done:
   - `newTransport` with the nil transport, and `get`;
   - liveness of `retry()`, `mark()` and the capture wrappers.
5. *(not modelled)* A composed `SDK` module: the config-sync loop
   marking `config_sync` markers around its `Transport` calls. See
   "Not modelled".
6. *(done)* Backoff overflow: `Duration` holds the int64 in limbs, and
   `transport_overflow` checks budgets up to 11 against the spec's
   "b, 10b, 100b, ...".
7. *(done)* The logger called under the write lock: `LogStep` and the
   logger's `serialize()` (`LogRead`), checked by `diag_progress` and
   `diag_logger_reentry`.
