---------------------------- MODULE ErrorBoundary ----------------------------
(***************************************************************************)
(* The error boundary of src/error_boundary.go, used concurrently by host  *)
(* goroutines.  A caller enters one of the capture wrappers with a task;   *)
(* the task returns or panics.  A panic is recovered by ebRecover, which   *)
(* reports it through logException (deduplicated by the seen set under    *)
(* seenLock, then POSTed to the collector), logs it locally and runs the   *)
(* wrapper's recover callback.  The wrappers captureCheckGate,             *)
(* captureGetConfig and captureGetLayer also mark start/end markers on the *)
(* api diagnostics context, which is modelled by DiagnosticsTimeline.      *)
(*                                                                         *)
(* Data is abstracted: a task's panic value is a member of Signatures (its *)
(* rendered message), the value of a returning task is irrelevant, and a   *)
(* POST is the signature it carries.                                       *)
(***************************************************************************)
EXTENDS Naturals, Sequences, FiniteSets, Functions

CONSTANTS
  Callers,            \* host goroutines calling into the SDK
  DiagWrappers,       \* wrappers that mark diagnostics (their marker key)
  PlainWrappers,      \* captureGetClientInitializeResponse, captureVoid
  Signatures,         \* rendered messages of the panics tasks can raise
  NilPanic,           \* the outcome of a task that calls panic(nil)
  NilPanicMessage,    \* message of runtime.PanicNilError (Go >= 1.21)
  GoRecoversNilPanic, \* does recover() return non-nil after panic(nil)?
  APIs,               \* values options.API may have
  InvalidAPIs,        \* those for which http.NewRequest fails
  ApiContext,         \* the diagnostics context the wrappers mark
  NoTag,              \* an optional marker field left nil
  MaxCalls            \* bound: calls each caller makes

ASSUME GoRecoversNilPanic \in BOOLEAN
ASSUME InvalidAPIs \subseteq APIs
ASSUME MaxCalls \in Nat

Wrappers == DiagWrappers \cup PlainWrappers
Ok == "ok"                                \* the task returns normally
Outcomes == {Ok, NilPanic} \cup Signatures

\* A marker of the api context; "by" names the call that marked it (an
\* auxiliary field: the code's marker does not carry it).
Success == BOOLEAN \cup {NoTag}
EBMarkers == [key : DiagWrappers, action : {"start", "end"},
              success : Success, by : Callers \X Nat]

VARIABLES
  api,        \* errorBoundary.api, fixed at construction
  seen,       \* errorBoundary.seen
  seenLocked, \* errorBoundary.seenLock is held
  pc,         \* pc[t]: where caller t is in its current call
  call,       \* call[t]: wrapper and task outcome of t's current call
  calls,      \* calls[t]: number of calls t has started
  posted,     \* POSTs sent to the collector, in order (their signatures)
  occurred,   \* auxiliary: signatures that have reached logException
  panics,     \* auxiliary: panics[t], panics raised by t's tasks
  logged,     \* auxiliary: logged[t], LogError lines emitted for t
  timeline    \* the diagnostics timelines (only ApiContext is marked)

vars == <<api, seen, seenLocked, pc, call, calls, posted, occurred, panics,
          logged, timeline>>

Timeline == INSTANCE DiagnosticsTimeline
              WITH Contexts <- {ApiContext}, Markers <- EBMarkers

PCs == {"idle", "markStart", "task", "markEndOk", "lockSeen", "checkSeen",
        "insertSeen", "send", "logError", "markEndFail"}

TypeOK ==
  /\ api \in APIs
  /\ seen \subseteq Signatures \cup {NilPanicMessage}
  /\ seenLocked \in BOOLEAN
  /\ pc \in [Callers -> PCs]
  /\ call \in [Callers -> [wrapper : Wrappers, outcome : Outcomes]]
  /\ calls \in [Callers -> 0..MaxCalls]
  /\ posted \in Seq(Signatures \cup {NilPanicMessage})
  /\ Timeline!TypeOK

-----------------------------------------------------------------------------
(* Helpers                                                                 *)

\* Mutant of ExceptionString: the exception taken to be nil.
ExceptionStringUnknown(t) == "Unknown"

\* The exceptionString of logException: the error's message (the "Unknown"
\* branch is for a nil error, which toError never returns for a non-nil
\* recovered value).
ExceptionString(t) ==
  IF call[t].outcome = NilPanic THEN NilPanicMessage ELSE call[t].outcome

\* e.diagnostics.api().<key>().<action>()[.success(v)].mark()
MarkApi(t, action, success) ==
  Timeline!Mark(ApiContext, [key |-> call[t].wrapper, action |-> action,
                             success |-> success, by |-> <<t, calls[t]>>])

\* The wrapper returns to the host caller.
Return(t) == pc' = [pc EXCEPT ![t] = "idle"]

\* The recover callback of the wrapper runs, or the wrapper returns.
AfterLog(t) ==
  pc' = [pc EXCEPT ![t] = IF call[t].wrapper \in DiagWrappers
                            THEN "markEndFail" ELSE "idle"]

Goto(t, l) == pc' = [pc EXCEPT ![t] = l]

-----------------------------------------------------------------------------
(* Actions                                                                 *)

Init ==
  /\ api \in APIs
  /\ seen = {}
  /\ seenLocked = FALSE
  /\ pc = [t \in Callers |-> "idle"]
  /\ call = [t \in Callers |-> [wrapper |-> CHOOSE w \in Wrappers : TRUE,
                                outcome |-> Ok]]
  /\ calls = [t \in Callers |-> 0]
  /\ posted = <<>>
  /\ occurred = {}
  /\ panics = [t \in Callers |-> 0]
  /\ logged = [t \in Callers |-> 0]
  /\ Timeline!Init

\* The host calls a capture wrapper with a task that will have outcome o.
\* The deferred ebRecover is installed; a DiagWrapper then marks start.
Call(t) ==
  /\ pc[t] = "idle"
  /\ calls[t] < MaxCalls
  /\ \E w \in Wrappers, o \in Outcomes :
       call' = [call EXCEPT ![t] = [wrapper |-> w, outcome |-> o]]
  /\ calls' = [calls EXCEPT ![t] = @ + 1]
  /\ pc' = [pc EXCEPT ![t] = IF call'[t].wrapper \in DiagWrappers
                               THEN "markStart" ELSE "task"]
  /\ UNCHANGED <<api, seen, seenLocked, posted, occurred, panics, logged,
                 timeline>>

MarkStart(t) ==
  /\ pc[t] = "markStart"
  /\ MarkApi(t, "start", NoTag)
  /\ Goto(t, "task")
  /\ UNCHANGED <<api, seen, seenLocked, call, calls, posted, occurred, panics,
                 logged>>

\* res := task().  A normal return goes on to mark end(success=true) or
\* returns.  A panic unwinds to the deferred ebRecover: when recover()
\* returns non-nil, logException runs; after panic(nil) on a Go that
\* returns nil from recover(), the wrapper returns its zero value silently.
RunTask(t) ==
  /\ pc[t] = "task"
  /\ \/ /\ call[t].outcome = Ok
        /\ IF call[t].wrapper \in DiagWrappers
             THEN Goto(t, "markEndOk") ELSE Return(t)
        /\ UNCHANGED <<occurred, panics>>
     \/ /\ call[t].outcome # Ok
        /\ call[t].outcome = NilPanic => GoRecoversNilPanic
        /\ Goto(t, "lockSeen")
        /\ occurred' = occurred \cup {ExceptionString(t)}
        /\ panics' = [panics EXCEPT ![t] = @ + 1]
     \/ /\ call[t].outcome = NilPanic
        /\ ~GoRecoversNilPanic
        /\ Return(t)
        /\ panics' = [panics EXCEPT ![t] = @ + 1]
        /\ UNCHANGED occurred
  /\ UNCHANGED <<api, seen, seenLocked, call, calls, posted, logged, timeline>>

MarkEndOk(t) ==
  /\ pc[t] = "markEndOk"
  /\ MarkApi(t, "end", TRUE)
  /\ Return(t)
  /\ UNCHANGED <<api, seen, seenLocked, call, calls, posted, occurred, panics,
                 logged>>

\* Mutant of LockSeen: checkSeen without seenLock.
LockSeenNotTaken(t) ==
  /\ pc[t] = "lockSeen"
  /\ Goto(t, "checkSeen")
  /\ UNCHANGED <<api, seen, seenLocked, call, calls, posted, occurred, panics,
                 logged, timeline>>

\* checkSeen: e.seenLock.Lock().
LockSeen(t) ==
  /\ pc[t] = "lockSeen"
  /\ ~seenLocked
  /\ seenLocked' = TRUE
  /\ Goto(t, "checkSeen")
  /\ UNCHANGED <<api, seen, call, calls, posted, occurred, panics, logged,
                 timeline>>

\* Mutants of CheckSeen: LogError done only for a signature not seen
\* before; seenLock released by a call at the end of checkSeen instead of
\* the defer, which the early return skips.
CheckSeenSkipsLog(t) ==
  /\ pc[t] = "checkSeen"
  /\ IF ExceptionString(t) \in seen
       THEN /\ seenLocked' = FALSE /\ AfterLog(t)
       ELSE /\ UNCHANGED seenLocked /\ Goto(t, "insertSeen")
  /\ UNCHANGED <<api, seen, call, calls, posted, occurred, panics, logged,
                 timeline>>

CheckSeenUnlockNotDeferred(t) ==
  /\ pc[t] = "checkSeen"
  /\ Goto(t, IF ExceptionString(t) \in seen THEN "logError" ELSE "insertSeen")
  /\ UNCHANGED <<api, seen, seenLocked, call, calls, posted, occurred, panics,
                 logged, timeline>>

\* if e.seen[exceptionString] { return true }: the deferred Unlock releases
\* seenLock and logException returns; otherwise the insert follows.
CheckSeen(t) ==
  /\ pc[t] = "checkSeen"
  /\ IF ExceptionString(t) \in seen
       THEN /\ seenLocked' = FALSE /\ Goto(t, "logError")
       ELSE /\ UNCHANGED seenLocked /\ Goto(t, "insertSeen")
  /\ UNCHANGED <<api, seen, call, calls, posted, occurred, panics, logged,
                 timeline>>

\* e.seen[exceptionString] = true; return false: the deferred Unlock
\* releases seenLock and logException goes on to send.
InsertSeen(t) ==
  /\ pc[t] = "insertSeen"
  /\ seen' = seen \cup {ExceptionString(t)}
  /\ seenLocked' = FALSE
  /\ Goto(t, "send")
  /\ UNCHANGED <<api, call, calls, posted, occurred, panics, logged, timeline>>

\* Mutant of Send: the request is built but client.Do is never called.
SendWithoutDo(t) ==
  /\ pc[t] = "send"
  /\ Goto(t, "logError")
  /\ UNCHANGED <<api, seen, seenLocked, call, calls, posted, occurred, panics,
                 logged, timeline>>

\* The rest of logException: build the request (http.NewRequest fails for
\* a malformed api and logException returns) and send it with client.Do;
\* the response and any send error are ignored.
Send(t) ==
  /\ pc[t] = "send"
  /\ \/ /\ api \notin InvalidAPIs
        /\ posted' = Append(posted, ExceptionString(t))
     \/ /\ api \in InvalidAPIs
        /\ UNCHANGED posted
  /\ Goto(t, "logError")
  /\ UNCHANGED <<api, seen, seenLocked, call, calls, occurred, panics, logged,
                 timeline>>

\* global.Logger().LogError(err), then the recover callback.
LogError(t) ==
  /\ pc[t] = "logError"
  /\ logged' = [logged EXCEPT ![t] = @ + 1]
  /\ AfterLog(t)
  /\ UNCHANGED <<api, seen, seenLocked, call, calls, posted, occurred, panics,
                 timeline>>

\* Mutant of MarkEndFail: the recover callback marks success(true).
MarkEndFailAsSuccess(t) ==
  /\ pc[t] = "markEndFail"
  /\ MarkApi(t, "end", TRUE)
  /\ Return(t)
  /\ UNCHANGED <<api, seen, seenLocked, call, calls, posted, occurred, panics,
                 logged>>

\* The recover callback of a DiagWrapper: mark end(success=false).
MarkEndFail(t) ==
  /\ pc[t] = "markEndFail"
  /\ MarkApi(t, "end", FALSE)
  /\ Return(t)
  /\ UNCHANGED <<api, seen, seenLocked, call, calls, posted, occurred, panics,
                 logged>>

\* Goroutines are preemptively scheduled: a call in progress keeps running.
\* LockSeen waits for a mutex the other callers take and release again;
\* sync.RWMutex hands a write lock waited on for long to its waiters in
\* order, so it is strongly fair.  The host is free never to call again,
\* so Call is not fair.
InCall(t) ==
  \/ MarkStart(t) \/ RunTask(t) \/ MarkEndOk(t)
  \/ LockSeen(t) \/ CheckSeen(t) \/ InsertSeen(t) \/ Send(t) \/ LogError(t)
  \/ MarkEndFail(t)

Next == \E t \in Callers : Call(t) \/ InCall(t)

Spec ==
  /\ Init /\ [][Next]_vars
  /\ \A t \in Callers : WF_vars(InCall(t)) /\ SF_vars(LockSeen(t))

-----------------------------------------------------------------------------
(* Properties                                                              *)

\* Dedup: however the callers' panics interleave, no signature is ever
\* POSTed twice: checkSeen's test and its insert are two steps, and only
\* seenLock keeps a second goroutine with the same signature from testing
\* between them.
ReportedAtMostOnce ==
  \A i, j \in 1..Len(posted) : i # j => posted[i] # posted[j]

\* Every recovered panic is logged locally, also when dedup suppresses the
\* POST: a caller that has returned has emitted one LogError line for each
\* of its tasks' panics (ebRecover).
EveryPanicLoggedLocally ==
  \A t \in Callers : pc[t] = "idle" => logged[t] = panics[t]

\* The markers of one call of a diagnostics wrapper.
CallMarkers(t, n) ==
  SelectSeq(timeline[ApiContext], LAMBDA m : m.by = <<t, n>>)

\* When a diagnostics wrapper returns to the host, the api timeline holds
\* exactly a start and then one end marker of that call, whose success tag
\* says whether the task returned normally (captureCheckGate and its
\* recover callback), whatever the other callers marked in between.
ReturnMarksOutcome ==
  [][\A t \in Callers :
       (pc[t] # "idle" /\ pc'[t] = "idle" /\ call[t].wrapper \in DiagWrappers)
         => LET ms == CallMarkers(t, calls[t])' IN
              /\ Len(ms) = 2
              /\ ms[1].action = "start" /\ ms[2].action = "end"
              /\ ms[2].success = (call[t].outcome = Ok)]_vars

\* Every call of a capture wrapper returns to the host, panicking tasks,
\* duplicate signatures and concurrent callers included: no caller waits
\* for seenLock for ever.
EveryCallReturns == \A t \in Callers : pc[t] # "idle" ~> pc[t] = "idle"

\* With a well-formed api, every signature that reaches logException is
\* eventually POSTed to the collector.
EverySignatureReported ==
  \A s \in Signatures \cup {NilPanicMessage} :
    (api \notin InvalidAPIs /\ s \in occurred) ~> s \in Range(posted)
=============================================================================
