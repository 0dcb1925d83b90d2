---------------------------- MODULE CircuitBreaker ----------------------------
(***************************************************************************)
(* The state of one CircuitBreaker of src/utils/circuitBreaker.js and what *)
(* the synchronous parts of execute() make of it.  Time passes as it will: *)
(* whether resetTimeoutMs has elapsed since openedAt is given to Asked.    *)
(***************************************************************************)
EXTENDS Naturals

CONSTANTS FailureThreshold, SuccessThreshold

ASSUME BreakerAssumption ==
  FailureThreshold \in Nat \ {0} /\ SuccessThreshold \in Nat \ {0}

Breakers ==
  [state : {"CLOSED", "OPEN", "HALF_OPEN"}, failures : Nat, successes : 0..SuccessThreshold - 1,
   probeInFlight : BOOLEAN]

Constructed ==
  [state |-> "CLOSED", failures |-> 0, successes |-> 0, probeInFlight |-> FALSE]

(* Faulty: the failures that opened the breaker are kept when it closes.   *)
TransitionUnreset(b, next) ==
  IF b.state = next THEN b
  ELSE [b EXCEPT !.state = next, !.probeInFlight = FALSE,
                 !.successes = IF next = "OPEN" THEN @ ELSE 0]

(* _transition: closing forgets everything, opening keeps the counters.    *)
Transition(b, next) ==
  IF b.state = next THEN b
  ELSE [b EXCEPT !.state = next, !.probeInFlight = FALSE,
                 !.failures = IF next = "CLOSED" THEN 0 ELSE @,
                 !.successes = IF next = "OPEN" THEN @ ELSE 0]

(* execute(), up to the call of fn: the breaker that the call finds, ...   *)
Asked(b, elapsed) == IF b.state = "OPEN" /\ elapsed THEN Transition(b, "HALF_OPEN") ELSE b

(* ... whether it lets the call through, ...                               *)
Admits(b) == b.state = "CLOSED" \/ (b.state = "HALF_OPEN" /\ ~b.probeInFlight)

(* ... and the breaker once it has.  Faulty: the probe is not marked.      *)
AdmittedUnmarked(b) == b
Admitted(b) == [b EXCEPT !.probeInFlight = @ \/ b.state = "HALF_OPEN"]

(* Faulty: the next probe is not let through after a success.              *)
AfterSuccessHeld(b) ==
  IF b.state # "HALF_OPEN" THEN [b EXCEPT !.failures = 0]
  ELSE IF b.successes + 1 >= SuccessThreshold THEN Transition(b, "CLOSED")
  ELSE [b EXCEPT !.successes = @ + 1]

(* _recordSuccess and _recordFailure: they look at the state the breaker   *)
(* has by then, and not at the one that let the call through.              *)
AfterSuccess(b) ==
  IF b.state # "HALF_OPEN" THEN [b EXCEPT !.failures = 0]
  ELSE IF b.successes + 1 >= SuccessThreshold THEN Transition(b, "CLOSED")
  ELSE [b EXCEPT !.successes = @ + 1, !.probeInFlight = FALSE]

AfterFailure(b) ==
  IF b.state = "HALF_OPEN" THEN Transition(b, "OPEN")
  ELSE LET failures == b.failures + 1
           counted == [b EXCEPT !.failures = failures]
       IN  IF failures >= FailureThreshold THEN Transition(counted, "OPEN") ELSE counted
===============================================================================
