-------------------------- MODULE MCIndexLifecycle --------------------------
(* Small instances of IndexLifecycle; the .cfg files choose the requests. *)
EXTENDS IndexLifecycle, TLC

CONSTANTS b1, b2, x1, x2, g1, g2

ThreadSymmetry == Permutations(Threads)

=============================================================================
