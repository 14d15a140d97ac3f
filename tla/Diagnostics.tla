----------------------------- MODULE Diagnostics -----------------------------
(***************************************************************************)
(* The diagnostics timelines of src/diagnostics.go under concurrent        *)
(* writers.  A writer goroutine builds a marker with the fluent builder    *)
(* (a context, a key, optionally a step, an action and tags), then mark()  *)
(* stamps it with the clock, takes the write lock of its context, appends  *)
(* it (append reads the slice and writes the new one back), runs           *)
(* logProcess under the lock and releases the lock through its defer.      *)
(* clearMarkers empties a context under the same lock.  logProcess hands  *)
(* its status line to the external logger, still under the lock; the      *)
(* logging collaborator may serialize() a timeline, which takes that       *)
(* timeline's read lock.                                                   *)
(*                                                                         *)
(* A marker's tags other than success are left out (no code reads them);  *)
(* an optional field left nil is NoTag.  The clock counts seconds: the     *)
(* code stores time.Now().Unix() * 1000, so a timestamp is a whole second. *)
(* serialize() is modelled where it can block: as the logger's call.  Its *)
(* result is not: markers are values once appended, so a slice it returned *)
(* can never be changed by a later append or clear.                        *)
(***************************************************************************)
EXTENDS Naturals, Sequences, SequencesExt

CONSTANTS
  Contexts,   \* InitializeContext, ConfigSyncContext
  Writers,    \* goroutines that mark diagnostics
  Chains,     \* builder chains the writers use: [key, step, action, success]
  NoTag,      \* a builder field left nil
  NoHolder,   \* the write lock is free
  LoggerReads, \* LoggerReads[c]: timelines the logger may serialize() when
              \* handed a status line of context c
  MaxMarks,   \* bound: markers each writer marks
  MaxTime     \* bound: seconds the clock advances

ASSUME MaxMarks \in Nat /\ MaxTime \in Nat

\* The marker values the builder and mark() can produce.
MarkerSet ==
  {[key |-> ch.key, step |-> ch.step, action |-> ch.action,
    success |-> ch.success, ts |-> t] : ch \in Chains, t \in 0..MaxTime}

VARIABLES
  timeline,   \* timeline[c]: diagnosticsBase.markers of context c
  lock,       \* lock[c]: the writer holding diagnosticsBase.mu of c
  clock,      \* time.Now().Unix()
  pc,         \* pc[w]: where writer w is
  ctx,        \* ctx[w]: the context of w's marker (marker.diagnostics)
  marker,     \* marker[w]: the marker w is building
  local,      \* local[w]: the slice w's append has read
  marks,      \* marks[w]: markers w has started
  reading     \* reading[w]: the timeline the logger of w's mark() reads

vars == <<timeline, lock, clock, pc, ctx, marker, local, marks, reading>>

PCs == {"idle", "stamp", "lock", "read", "write", "log", "logRead",
        "unlock", "unlockPanic", "crashed"}

TypeOK ==
  /\ timeline \in [Contexts -> Seq(MarkerSet)]
  /\ lock \in [Contexts -> Writers \cup {NoHolder}]
  /\ clock \in 0..MaxTime
  /\ pc \in [Writers -> PCs]
  /\ ctx \in [Writers -> Contexts]
  /\ marker \in [Writers -> MarkerSet]
  /\ local \in [Writers -> Seq(MarkerSet)]
  /\ marks \in [Writers -> 0..MaxMarks]
  /\ reading \in [Writers -> Contexts]

-----------------------------------------------------------------------------
(* logProcess                                                              *)

\* The steps for which logProcess chooses a message, per key.
LoggedSteps ==
  [k \in {"download_config_specs", "data_store_config_specs"} |->
     IF k = "download_config_specs" THEN {"network_request", "process"}
                                    ELSE {"fetch", "process"}]

\* The pointer fields of m that logProcess dereferences on its way to a
\* message.
Derefs(m) ==
  {"key"}
  \cup (IF m.key = "overall" THEN {"action"} ELSE {})
  \cup (IF m.key \in DOMAIN LoggedSteps
          THEN {"step"}
               \cup (IF m.step \in LoggedSteps[m.key]
                       THEN {"action"}
                            \cup (IF m.action = "end" THEN {"success"} ELSE {})
                       ELSE {})
          ELSE {})

\* logProcess dereferences a nil pointer: a run-time panic.
LogProcessPanics(m) == \E f \in Derefs(m) : m[f] = NoTag

-----------------------------------------------------------------------------
(* Actions                                                                 *)

Init ==
  /\ timeline = [c \in Contexts |-> <<>>]
  /\ lock = [c \in Contexts |-> NoHolder]
  /\ clock = 0
  /\ pc = [w \in Writers |-> "idle"]
  /\ ctx = [w \in Writers |-> CHOOSE c \in Contexts : TRUE]
  /\ marker = [w \in Writers |-> CHOOSE m \in MarkerSet : TRUE]
  /\ local = [w \in Writers |-> <<>>]
  /\ marks = [w \in Writers |-> 0]
  /\ reading = ctx

\* initialize() or configSync(), the key, step, action and tag selectors:
\* a new marker of context c, local to the writer.
Build(w) ==
  /\ pc[w] = "idle"
  /\ marks[w] < MaxMarks
  /\ \E c \in Contexts, ch \in Chains :
       /\ ctx' = [ctx EXCEPT ![w] = c]
       /\ marker' = [marker EXCEPT ![w] =
                       [key |-> ch.key, step |-> ch.step, action |-> ch.action,
                        success |-> ch.success, ts |-> 0]]
  /\ marks' = [marks EXCEPT ![w] = @ + 1]
  /\ pc' = [pc EXCEPT ![w] = "stamp"]
  /\ UNCHANGED <<timeline, lock, clock, local, reading>>

\* Mutant of Stamp: the clock read one second late.
StampLate(w) ==
  /\ pc[w] = "stamp"
  /\ marker' = [marker EXCEPT ![w].ts = clock + 1]
  /\ pc' = [pc EXCEPT ![w] = "lock"]
  /\ UNCHANGED <<timeline, lock, clock, ctx, local, marks, reading>>

\* mark(): m.Timestamp = time.Now().Unix() * 1000, before the lock is taken.
Stamp(w) ==
  /\ pc[w] = "stamp"
  /\ marker' = [marker EXCEPT ![w].ts = clock]
  /\ pc' = [pc EXCEPT ![w] = "lock"]
  /\ UNCHANGED <<timeline, lock, clock, ctx, local, marks, reading>>

\* Mutant of Lock: the append done without taking mu.
LockNotTaken(w) ==
  /\ pc[w] = "lock"
  /\ pc' = [pc EXCEPT ![w] = "read"]
  /\ UNCHANGED <<timeline, lock, clock, ctx, marker, local, marks, reading>>

\* m.diagnostics.mu.Lock()
Lock(w) ==
  /\ pc[w] = "lock"
  /\ lock[ctx[w]] = NoHolder
  /\ lock' = [lock EXCEPT ![ctx[w]] = w]
  /\ pc' = [pc EXCEPT ![w] = "read"]
  /\ UNCHANGED <<timeline, clock, ctx, marker, local, marks, reading>>

\* append(m.diagnostics.markers, *m) reads the slice ...
ReadSlice(w) ==
  /\ pc[w] = "read"
  /\ local' = [local EXCEPT ![w] = timeline[ctx[w]]]
  /\ pc' = [pc EXCEPT ![w] = "write"]
  /\ UNCHANGED <<timeline, lock, clock, ctx, marker, marks, reading>>

\* ... and the slice with *m appended is written back; then logProcess runs,
\* still under the lock, and may panic on a nil field before it reaches
\* the logger.
WriteSlice(w) ==
  /\ pc[w] = "write"
  /\ timeline' = [timeline EXCEPT ![ctx[w]] = Append(local[w], marker[w])]
  /\ pc' = [pc EXCEPT ![w] = IF LogProcessPanics(marker[w])
                               THEN "unlockPanic" ELSE "log"]
  /\ UNCHANGED <<lock, clock, ctx, marker, local, marks, reading>>

\* diagnosticsBase.logProcess: global.Logger().LogStep(process, msg), under
\* mark()'s lock.  The logger returns, or first serializes a timeline.
LogStep(w) ==
  /\ pc[w] = "log"
  /\ \/ /\ pc' = [pc EXCEPT ![w] = "unlock"]
        /\ UNCHANGED reading
     \/ \E c \in LoggerReads[ctx[w]] :
          /\ reading' = [reading EXCEPT ![w] = c]
          /\ pc' = [pc EXCEPT ![w] = "logRead"]
  /\ UNCHANGED <<timeline, lock, clock, ctx, marker, local, marks>>

\* The logger's serialize(): d.mu.RLock() waits while a writer holds mu, or
\* waits to take it (sync.RWMutex lets a blocked Lock go first); the
\* markers are read and RUnlock is deferred.  mu is not reentrant: the
\* writer's own lock blocks it too.
LogRead(w) ==
  /\ pc[w] = "logRead"
  /\ lock[reading[w]] = NoHolder
  /\ ~\E x \in Writers : pc[x] = "lock" /\ ctx[x] = reading[w]
  /\ pc' = [pc EXCEPT ![w] = "unlock"]
  /\ UNCHANGED <<timeline, lock, clock, ctx, marker, local, marks, reading>>

\* Mutant of Unlock: mu.Unlock() called at the end of mark() instead of
\* deferred, so a panic of logProcess skips it.
UnlockNotDeferred(w) ==
  /\ pc[w] \in {"unlock", "unlockPanic"}
  /\ lock' = IF pc[w] = "unlockPanic" THEN lock
                                       ELSE [lock EXCEPT ![ctx[w]] = NoHolder]
  /\ pc' = [pc EXCEPT ![w] = IF pc[w] = "unlockPanic" THEN "crashed"
                                                      ELSE "idle"]
  /\ UNCHANGED <<timeline, clock, ctx, marker, local, marks, reading>>

\* The deferred Unlock; a panic of logProcess then goes on unwinding the
\* writer's goroutine, which no recover in diagnostics.go stops.
Unlock(w) ==
  /\ pc[w] \in {"unlock", "unlockPanic"}
  /\ lock' = [lock EXCEPT ![ctx[w]] = NoHolder]
  /\ pc' = [pc EXCEPT ![w] = IF pc[w] = "unlockPanic" THEN "crashed"
                                                      ELSE "idle"]
  /\ UNCHANGED <<timeline, clock, ctx, marker, local, marks, reading>>

\* clearMarkers(): d.markers = nil under the write lock.
ClearMarkers(c) ==
  /\ lock[c] = NoHolder
  /\ timeline' = [timeline EXCEPT ![c] = <<>>]
  /\ UNCHANGED <<lock, clock, pc, ctx, marker, local, marks, reading>>

\* Wall-clock time passes.
Tick ==
  /\ clock < MaxTime
  /\ clock' = clock + 1
  /\ UNCHANGED <<timeline, lock, pc, ctx, marker, local, marks, reading>>

Next ==
  \/ \E w \in Writers :
       Build(w) \/ Stamp(w) \/ Lock(w) \/ ReadSlice(w) \/ WriteSlice(w)
       \/ LogStep(w) \/ LogRead(w) \/ Unlock(w)
  \/ \E c \in Contexts : ClearMarkers(c)
  \/ Tick

Spec == Init /\ [][Next]_vars

\* Goroutines are scheduled preemptively and no step of mark() but Lock
\* and the logger's RLock waits; they wait for a mutex other writers take
\* and release again, and sync.Mutex hands a mutex waited on for over
\* 1 ms to its waiters in order (starvation mode), so both are strongly
\* fair.
FairSpec ==
  /\ Spec
  /\ \A w \in Writers :
       /\ WF_vars(Stamp(w) \/ ReadSlice(w) \/ WriteSlice(w) \/ LogStep(w)
                   \/ Unlock(w))
       /\ SF_vars(Lock(w)) /\ SF_vars(LogRead(w))

-----------------------------------------------------------------------------
(* Properties                                                              *)

Atomic == INSTANCE DiagnosticsTimeline WITH Markers <- MarkerSet

\* Appends are linearizable: however the writers and clearMarkers
\* interleave, every change of a timeline is one whole marker appended to
\* its current content, or the timeline emptied; no append is lost and no
\* cleared marker comes back.
AppendsAreAtomic == Atomic!Spec

\* The markers of a timeline are in timestamp order (what a reader of the
\* serialized timeline assumes when it pairs a start with its end).
TimestampsOrdered ==
  \A c \in Contexts : IsSorted(timeline[c], LAMBDA a, b : a.ts <= b.ts)

\* Every mark() that has begun returns, or ends its goroutine with the
\* panic of logProcess, even while other writers panic under the lock and
\* the logger reads timelines while mark() holds a lock: the deferred
\* Unlock frees mu on both paths, and no writer waits on it for ever.
MarkReturns ==
  \A w \in Writers : pc[w] = "stamp" ~> pc[w] \in {"idle", "crashed"}

\* mark() returns for every builder chain the spec allows (a key, an
\* optional step, an action, optional tags): no writer goroutine panics.
MarkNeverPanics == \A w \in Writers : pc[w] # "crashed"
=============================================================================
