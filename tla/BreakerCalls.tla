----------------------------- MODULE BreakerCalls -----------------------------
(***************************************************************************)
(* Concurrent calls of execute() of one CircuitBreaker.  A call outlives   *)
(* the state that let it through, and the work of fn outlives a timeout.   *)
(***************************************************************************)
EXTENDS CircuitBreaker, FiniteSets

CONSTANT Calls  \* calls of execute()

VARIABLES breaker,  \* the breaker
          opens,    \* stats.opens, which tells its openings apart
          at,       \* where each call is
          probes,   \* the calls let through as probes
          opening,  \* the value opens had when each call was let through
          heard,    \* history: the opening whose probing heard each call's outcome, or 0
          resets    \* history: the openings whose probing reset() ended

history == <<heard, resets>>
vars == <<breaker, opens, at, probes, opening, history>>

Init ==
  /\ breaker = Constructed /\ opens = 0
  /\ at = [c \in Calls |-> "idle"]
  /\ probes = {} /\ opening = [c \in Calls |-> 0]
  /\ heard = [c \in Calls |-> 0] /\ resets = {}

Admit(c) ==
  /\ at[c] = "idle"
  /\ \E elapsed \in BOOLEAN :
       LET b == Asked(breaker, elapsed)
       IN  /\ Admits(b)
           /\ breaker' = Admitted(b)
           /\ probes' = IF b.state = "HALF_OPEN" THEN probes \cup {c} ELSE probes
  /\ at' = [at EXCEPT ![c] = "running"]
  /\ opening' = [opening EXCEPT ![c] = opens]
  /\ UNCHANGED <<opens, history>>

Reject(c) ==
  /\ at[c] = "idle"
  /\ \E elapsed \in BOOLEAN :
       LET b == Asked(breaker, elapsed)
       IN  ~Admits(b) /\ breaker' = b
  /\ at' = [at EXCEPT ![c] = "rejected"]
  /\ UNCHANGED <<opens, probes, opening, history>>

Settle(c, how, b) ==
  /\ at[c] = "running"
  /\ at' = [at EXCEPT ![c] = how]
  /\ breaker' = b
  /\ opens' = IF breaker.state # "OPEN" /\ b.state = "OPEN" THEN opens + 1 ELSE opens
  /\ heard' = IF breaker.state = "HALF_OPEN" THEN [heard EXCEPT ![c] = opens] ELSE heard
  /\ UNCHANGED <<probes, opening, resets>>

Succeed(c) == Settle(c, "ok", AfterSuccess(breaker))
Fail(c)    == Settle(c, "failed", AfterFailure(breaker))

(* The timeout only stops the waiting: fn is still at work until FnEnds.   *)
Timeout(c) == Settle(c, "late", AfterFailure(breaker))

FnEnds(c) ==
  /\ at[c] = "late"
  /\ at' = [at EXCEPT ![c] = "failed"]
  /\ UNCHANGED <<breaker, opens, probes, opening, history>>

(* reset(): the escape hatch for tests and operators.                      *)
Reset ==
  /\ breaker.state # "CLOSED"
  /\ breaker' = Transition(breaker, "CLOSED")
  /\ resets' = IF breaker.state = "HALF_OPEN" THEN resets \cup {opens} ELSE resets
  /\ UNCHANGED <<opens, at, probes, opening, heard>>

Ended == (\A c \in Calls : at[c] \notin {"idle", "running", "late"}) /\ UNCHANGED vars

Next ==
  \/ Reset
  \/ \E c \in Calls : Admit(c) \/ Reject(c) \/ Succeed(c) \/ Fail(c) \/ Timeout(c) \/ FnEnds(c)
  \/ Ended

Spec == Init /\ [][Next]_vars

-------------------------------------------------------------------------------
(* Every variable has its type.                                            *)
TypeOK ==
  /\ breaker \in Breakers /\ opens \in Nat
  /\ at \in [Calls -> {"idle", "running", "rejected", "ok", "failed", "late"}]
  /\ probes \in SUBSET Calls /\ opening \in [Calls -> Nat]
  /\ heard \in [Calls -> Nat] /\ resets \in SUBSET Nat

(* The probes of an opening that wait for an answer, and the probes the    *)
(* dependency is at work for, the ones that timed out included.            *)
Waiting(o) == {c \in probes : opening[c] = o /\ at[c] = "running"}
Working == {c \in probes : at[c] \in {"running", "late"}}

(* The gate is never stuck: while it is held for a probe, a probe let      *)
(* through since the breaker last opened is running, and its end opens the *)
(* gate (circuitBreaker.js:159-166).                                       *)
ProbeRuns == breaker.probeInFlight => Waiting(opens) # {}

(* A closed breaker starts its count afresh: whatever late failures it has *)
(* counted while it was open, it takes FailureThreshold new ones           *)
(* (circuitBreaker.js:80-85, :142).                                        *)
ClosedIsBelowThreshold ==
  breaker.state = "CLOSED" => breaker.failures < FailureThreshold

(* A call from before opening o whose outcome arrived while o was probed:  *)
(* the breaker cannot tell it from the probe's (circuitBreaker.js:121).    *)
Stale(o) == {c \in Calls : heard[c] = o /\ opening[c] < o}

(* The dependency works on one probe at a time, the timed-out ones and     *)
(* those of earlier openings included, but for three ways to lose sight of *)
(* a probe c: a success from before its opening was taken for its own; or, *)
(* before a later opening, c had timed out and reopened the breaker, or a  *)
(* call from before its opening or reset() had ended the probing           *)
(* (circuitBreaker.js:115-145, :159-166).                                  *)
ProbesOverlapOnlyUnseen ==
  \A c, d \in Working : c # d =>
      /\ opening[c] = opening[d] => \E e \in Stale(opening[c]) : at[e] = "ok"
      /\ opening[c] < opening[d] =>
           \/ at[c] = "late" /\ heard[c] = opening[c]
           \/ Stale(opening[c]) # {}
           \/ opening[c] \in resets
===============================================================================
