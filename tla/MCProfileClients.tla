-------------------------- MODULE MCProfileClients --------------------------
(* Small instances of ProfileClients for TLC.                              *)
EXTENDS ProfileClients

=============================================================================
