---------------------------- MODULE MCMigration ----------------------------
(* Small instances of Migration; the .cfg files choose the requests. *)
EXTENDS Migration, TLC

CONSTANTS k1, k2, v1, g1, g2

Symmetry == Permutations(Threads) \cup Permutations(Keys) \cup Permutations(Vals)

=============================================================================
