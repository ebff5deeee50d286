----------------------------- MODULE MCMigrations -----------------------------
(***************************************************************************)
(* Instances of Migrations for TLC.                                        *)
(***************************************************************************)
EXTENDS Migrations, TLC

CONSTANTS u1, s1, m1, m2

OneUser == {u1}
OneService == {s1}
TwoMigrators == {m1, m2}
MigratorSymmetry == Permutations(TwoMigrators)
=============================================================================
