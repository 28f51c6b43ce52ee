-------------------------- MODULE MCStreamCapture --------------------------
(* Small instances of StreamCapture for TLC.                               *)
EXTENDS StreamCapture

=============================================================================
