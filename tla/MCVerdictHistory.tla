--------------------------- MODULE MCVerdictHistory ---------------------------
(* HostSink's reference constants (MCHostSink) for the history of verdicts. *)
EXTENDS MCHostSink, VerdictHistory
=============================================================================
