--------------------------- MODULE MCTraceCollector ---------------------------
(***************************************************************************)
(* TraceCollector with constants given in the configuration.               *)
(***************************************************************************)
EXTENDS TraceCollector
=============================================================================
