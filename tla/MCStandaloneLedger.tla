-------------------------- MODULE MCStandaloneLedger --------------------------
(* StandaloneLedger on small sets of wallets and requests.                 *)
EXTENDS StandaloneLedger, TLC

MCOpening == [u \in Users |-> 2]
Symmetry == Permutations(Users) \cup Permutations(Calls)
==============================================================================
