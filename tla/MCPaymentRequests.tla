--------------------------- MODULE MCPaymentRequests --------------------------
(* PaymentRequests on a few requests and calls.                            *)
EXTENDS PaymentRequests, TLC

Symmetry == Permutations(Requests) \cup Permutations(Calls)
==============================================================================
