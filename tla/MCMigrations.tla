---------------------------- MODULE MCMigrations ----------------------------
(***************************************************************************)
(* Symmetry for the runs of Migrations.                                    *)
(***************************************************************************)
EXTENDS Migrations, TLC

RunnerSymmetry == Permutations(Runners)
=============================================================================
