----------------------------- MODULE MCMongoLedger -----------------------------
(* MongoLedger, and what its documents report, on few wallets and requests. *)
EXTENDS MongoLedger, Reports, TLC

MCOpening == [u \in Users |-> 2]
Symmetry == Permutations(Users) \cup Permutations(Calls)
===============================================================================
