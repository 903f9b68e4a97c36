----------------------------- MODULE MCMigration -----------------------------
(* Migration with interchangeable processes. *)
EXTENDS MigrationProperties, TLC

Symmetry == Permutations(Procs)
=============================================================================
