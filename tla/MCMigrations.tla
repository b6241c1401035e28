----------------------------- MODULE MCMigrations -----------------------------
(***************************************************************************)
(* Small instances of Migrations for TLC.                                  *)
(***************************************************************************)
EXTENDS Migrations, TLC

CONSTANTS e1, e2, f1, f2, f3

MigrationSymmetry == Permutations(Events) \cup Permutations(FileIds)

=============================================================================
