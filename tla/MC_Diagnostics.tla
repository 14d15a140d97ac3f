--------------------------- MODULE MC_Diagnostics ---------------------------
(***************************************************************************)
(* Instantiates Diagnostics for TLC: two writer goroutines marking two     *)
(* markers each into either of the two contexts while the clock advances   *)
(* once and clearMarkers may run at any time.  GoodChains are the chains  *)
(* the SDK's call sites build (a step and, on an end marker, success);     *)
(* SpecChains adds chains the spec's builder contract also allows.         *)
(***************************************************************************)
EXTENDS Diagnostics, TLC

MCContexts == {"initialize", "config_sync"}

\* A logger that serializes the initialize timeline when handed a
\* config_sync status line, and reads nothing for an initialize line: a
\* writer holding one lock may wait for the other, never the reverse.
OrderedReads == ("config_sync" :> {"initialize"}) @@ ("initialize" :> {})

\* A logger that serializes the timeline whose status line it is handed
\* (an event-logging sink that ships the diagnostics it is told about).
SameContextReads == [c \in MCContexts |-> {c}]

\* Writers are interchangeable.
WriterSymmetry == Permutations(Writers)

GoodChains ==
  {[key |-> "download_config_specs", step |-> "network_request",
    action |-> "start", success |-> NoTag],
   [key |-> "download_config_specs", step |-> "network_request",
    action |-> "end", success |-> TRUE]}

\* A download_config_specs end marker without a step, a data store fetch
\* end marker without a success tag.
SpecChains ==
  GoodChains \cup
  {[key |-> "overall", step |-> NoTag, action |-> "end", success |-> FALSE]} \cup
  {[key |-> "download_config_specs", step |-> NoTag,
    action |-> "end", success |-> TRUE],
   [key |-> "data_store_config_specs", step |-> "fetch",
    action |-> "end", success |-> NoTag]}

\* One chain the call sites build and one on which logProcess panics.
ProgressChains ==
  {[key |-> "download_config_specs", step |-> "network_request",
    action |-> "start", success |-> NoTag],
   [key |-> "download_config_specs", step |-> NoTag,
    action |-> "end", success |-> TRUE]}
=============================================================================
