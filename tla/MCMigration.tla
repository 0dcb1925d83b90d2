----------------------------- MODULE MCMigration ------------------------------
(* Migration of a few documents.                                           *)
EXTENDS Migration, TLC

Symmetry == Permutations(Users)
===============================================================================
