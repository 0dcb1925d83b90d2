------------------------------ MODULE MCAccounts -------------------------------
(* Accounts with few calls on few processes.                               *)
EXTENDS Accounts, TLC

Symmetry == Permutations(Calls) \cup Permutations(Processes)
===============================================================================
