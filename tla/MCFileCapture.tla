---------------------------- MODULE MCFileCapture ---------------------------
(* Small instances of FileCapture for TLC.                                 *)
EXTENDS FileCapture

=============================================================================
