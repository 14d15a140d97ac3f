------------------------- MODULE DiagnosticsTimeline -------------------------
(***************************************************************************)
(* What a diagnosticsBase promises (src/diagnostics.go): per context, an   *)
(* ordered log of markers.  mark() appends one finished marker atomically  *)
(* at the end of the log of its context, and clearMarkers() empties it.    *)
(* Nothing else ever changes a log.  Diagnostics.tla, where an append is   *)
(* a lock acquisition, a read, a write and a release, is checked to        *)
(* implement this module; ErrorBoundary.tla uses it as the timeline its    *)
(* wrappers mark.                                                          *)
(***************************************************************************)
EXTENDS Sequences

CONSTANTS
  Contexts,     \* the contexts of the SDK instance (initialize, config_sync)
  Markers       \* every marker a mark() call can finish

VARIABLE timeline   \* timeline[c]: the markers slice of context c

TypeOK == timeline \in [Contexts -> Seq(Markers)]

Init == timeline = [c \in Contexts |-> <<>>]

\* mark(): the marker m is appended, and nothing else changes.
Mark(c, m) == timeline' = [timeline EXCEPT ![c] = Append(@, m)]

\* clearMarkers(): the log of context c becomes empty.
Clear(c) == timeline' = [timeline EXCEPT ![c] = <<>>]

Next == \E c \in Contexts : Clear(c) \/ \E m \in Markers : Mark(c, m)

Spec == Init /\ [][Next]_timeline
=============================================================================
