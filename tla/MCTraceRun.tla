------------------------------ MODULE MCTraceRun ------------------------------
(***************************************************************************)
(* TraceRun with constants given in the configurations.                    *)
(***************************************************************************)
EXTENDS TraceRun
=============================================================================
