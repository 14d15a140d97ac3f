-------------------------- MODULE MC_ErrorBoundary --------------------------
(***************************************************************************)
(* Instantiates ErrorBoundary for TLC: two host goroutines, two calls each *)
(* (so one goroutine can panic twice with one message and two goroutines   *)
(* can panic concurrently with the same one), one diagnostics wrapper and  *)
(* one plain wrapper, one panic message and panic(nil), whose              *)
(* PanicNilError message is a second, distinct signature; a well-formed    *)
(* and a malformed options.API.                                            *)
(***************************************************************************)
EXTENDS ErrorBoundary

MCCallers == {"g1", "g2"}
MCDiagWrappers == {"checkGate"}
MCPlainWrappers == {"void"}
MCSignatures == {"boom"}
MCAPIs == {"https://statsigapi.net/v1", "://bad"}
MCInvalidAPIs == {"://bad"}
=============================================================================
