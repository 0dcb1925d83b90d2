----------------------------- MODULE MCSplitBills -----------------------------
(* SplitBills with a creator and two or three others.                      *)
EXTENDS SplitBills, TLC

Symmetry == Permutations(Users \ {Creator}) \cup Permutations(Settlers)
===============================================================================
