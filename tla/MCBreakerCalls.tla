---------------------------- MODULE MCBreakerCalls ----------------------------
(* BreakerCalls on a few calls.                                            *)
EXTENDS BreakerCalls, TLC

Symmetry == Permutations(Calls)
===============================================================================
