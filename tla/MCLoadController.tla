-------------------------- MODULE MCLoadController --------------------------
(* Small instances of LoadController; the .cfg files choose the callers. *)
EXTENDS LoadController, TLC

CONSTANTS c1, c2, c3, c4, g1, g2

ThreadSymmetry == Permutations(Threads)

=============================================================================
