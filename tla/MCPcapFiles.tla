---------------------------- MODULE MCPcapFiles ----------------------------
(* Small instances of PcapFiles for TLC.                                   *)
EXTENDS PcapFiles

=============================================================================
