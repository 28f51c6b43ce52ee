------------------------- MODULE MCProfilerReports --------------------------
(* Small instances of ProfilerReports for TLC.                             *)
EXTENDS ProfilerReports

=============================================================================
