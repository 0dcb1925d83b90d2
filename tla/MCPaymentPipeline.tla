--------------------------- MODULE MCPaymentPipeline ---------------------------
(* PaymentPipeline with few requests of one user on few processes.         *)
EXTENDS PaymentPipeline, TLC

Symmetry == Permutations(Requests \ {Earlier}) \cup Permutations(Processes)
===============================================================================
