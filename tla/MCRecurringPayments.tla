-------------------------- MODULE MCRecurringPayments -------------------------
(* RecurringPayments with overlapping runs over a few intervals.           *)
EXTENDS RecurringPayments, TLC

Symmetry == Permutations(Ticks) \cup Permutations(Edits) \cup Permutations(Mandates)
===============================================================================
