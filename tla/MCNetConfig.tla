---------------------------- MODULE MCNetConfig ----------------------------
(* Small instances of NetConfig for TLC.                                   *)
EXTENDS NetConfig

=============================================================================
