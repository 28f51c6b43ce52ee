--------------------------- MODULE MCProfileTask ---------------------------
(* Small instances of ProfileTask for TLC.                                 *)
EXTENDS ProfileTask, TLC

RequestSymmetry == Permutations(Request)

=============================================================================
