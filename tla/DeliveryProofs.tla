---------------------------- MODULE DeliveryProofs ----------------------------
(***************************************************************************)
(* BreakerCalls, for any calls and thresholds, and Notifications, for any  *)
(* transactions, attempts and faults.                                      *)
(***************************************************************************)
EXTENDS BreakerCalls, Notifications, FiniteSetTheorems, TLAPS

WorkingAt(o) == {c \in probes : opening[c] = o /\ at[c] \in {"running", "late"}}
StaleSuccess(o) == \E e \in Stale(o) : at[e] = "ok"

OneProbe ==
  \A c, d \in Calls :
    c # d /\ opening[c] = opening[d] /\ {c, d} \subseteq WorkingAt(opening[c]) => StaleSuccess(opening[c])

(* Why the breaker stopped probing while c was at work.                    *)
Unseen(c) ==
  \/ at[c] = "late" /\ heard[c] = opening[c]
  \/ Stale(opening[c]) # {}
  \/ opening[c] \in resets

Heard == \A c \in Calls : at[c] \in {"idle", "running", "rejected"} => heard[c] = 0
Overtaken ==
  \A c \in Working : breaker.state # "HALF_OPEN" \/ opening[c] < opens => Unseen(c)

(* What the breaker knows of its openings: the gate is held only while it  *)
(* probes; a new opening has no probe yet, and every call is either one of *)
(* its probes or was let through before it; and a gate that is open while  *)
(* a probe is at work was opened by a call from before.                    *)
Gate ==
  /\ breaker.state # "HALF_OPEN" => breaker.probeInFlight = FALSE
  /\ breaker.state # "CLOSED" => opens > 0
  /\ \A c \in Calls : opening[c] <= opens
  /\ \A c \in Calls : at[c] = "idle" => opening[c] = 0 /\ c \notin probes
  /\ breaker.state = "OPEN" => \A c \in Calls : opening[c] < opens
  /\ breaker.state = "HALF_OPEN" => \A c \in Calls : opening[c] < opens \/ c \in probes
  /\ breaker.state = "HALF_OPEN" /\ breaker.probeInFlight = FALSE =>
       \A c \in WorkingAt(opens) : StaleSuccess(opens)

IInv ==
  TypeOK /\ ProbeRuns /\ ClosedIsBelowThreshold /\ OneProbe /\ Gate /\ Heard /\ Overtaken

(* What the operators of CircuitBreaker return. *)
LEMMA Fields ==
  ASSUME NEW b \in Breakers
  PROVE  /\ b.state \in {"CLOSED", "OPEN", "HALF_OPEN"} /\ b.failures \in Nat
         /\ b.successes \in 0..SuccessThreshold - 1 /\ b.probeInFlight \in BOOLEAN
         /\ b = [state |-> b.state, failures |-> b.failures, successes |-> b.successes,
                 probeInFlight |-> b.probeInFlight]
         /\ 0 \in 0..SuccessThreshold - 1
  BY BreakerAssumption DEF Breakers

LEMMA SuccessEffect ==
  ASSUME NEW b \in Breakers
  PROVE  /\ AfterSuccess(b) \in Breakers
         /\ b.state # "HALF_OPEN" =>
              AfterSuccess(b).state = b.state /\ AfterSuccess(b).probeInFlight = b.probeInFlight
         /\ b.state = "HALF_OPEN" =>
              AfterSuccess(b).state \in {"CLOSED", "HALF_OPEN"} /\ AfterSuccess(b).probeInFlight = FALSE
         /\ AfterSuccess(b).state = "CLOSED" => AfterSuccess(b).failures = 0
<1>1. CASE b.state # "HALF_OPEN"
  <2>1. AfterSuccess(b) = [state |-> b.state, failures |-> 0, successes |-> b.successes,
                           probeInFlight |-> b.probeInFlight]
    BY <1>1 DEF AfterSuccess, Breakers
  <2> QED BY <1>1, <2>1, Fields DEF Breakers
<1>2. CASE b.state = "HALF_OPEN" /\ b.successes + 1 >= SuccessThreshold
  <2>1. AfterSuccess(b) = [state |-> "CLOSED", failures |-> 0, successes |-> 0, probeInFlight |-> FALSE]
    BY <1>2 DEF AfterSuccess, Transition, Breakers
  <2> QED BY <1>2, <2>1, Fields DEF Breakers
<1>3. CASE b.state = "HALF_OPEN" /\ ~(b.successes + 1 >= SuccessThreshold)
  <2>1. AfterSuccess(b) = [state |-> "HALF_OPEN", failures |-> b.failures,
                           successes |-> b.successes + 1, probeInFlight |-> FALSE]
    BY <1>3 DEF AfterSuccess, Breakers
  <2>2. b.successes + 1 \in 0..SuccessThreshold - 1
    BY <1>3, BreakerAssumption, Fields
  <2> QED BY <1>3, <2>1, <2>2, Fields DEF Breakers
<1> QED BY <1>1, <1>2, <1>3

LEMMA FailureEffect ==
  ASSUME NEW b \in Breakers
  PROVE  /\ AfterFailure(b) \in Breakers
         /\ b.state \in {"OPEN", "HALF_OPEN"} => AfterFailure(b).state = "OPEN"
         /\ AfterFailure(b).state # "OPEN" =>
              AfterFailure(b).state = b.state /\ AfterFailure(b).failures < FailureThreshold
         /\ b.probeInFlight = FALSE \/ b.state = "HALF_OPEN" => AfterFailure(b).probeInFlight = FALSE
<1>1. CASE b.state = "HALF_OPEN"
  <2>1. AfterFailure(b) = [state |-> "OPEN", failures |-> b.failures, successes |-> b.successes,
                           probeInFlight |-> FALSE]
    BY <1>1 DEF AfterFailure, Transition, Breakers
  <2> QED BY <1>1, <2>1, Fields DEF Breakers
<1>2. CASE b.state # "HALF_OPEN" /\ b.failures + 1 >= FailureThreshold /\ b.state # "OPEN"
  <2>1. AfterFailure(b) = [state |-> "OPEN", failures |-> b.failures + 1, successes |-> b.successes,
                           probeInFlight |-> FALSE]
    BY <1>2 DEF AfterFailure, Transition, Breakers
  <2> QED BY <1>2, <2>1, Fields DEF Breakers
<1>3. CASE b.state # "HALF_OPEN" /\ (b.failures + 1 >= FailureThreshold => b.state = "OPEN")
  <2>1. AfterFailure(b) = [state |-> b.state, failures |-> b.failures + 1, successes |-> b.successes,
                           probeInFlight |-> b.probeInFlight]
    BY <1>3 DEF AfterFailure, Transition, Breakers
  <2>2. b.state # "OPEN" => b.failures + 1 < FailureThreshold
    BY <1>3, Fields, BreakerAssumption
  <2> QED BY <1>3, <2>1, <2>2, Fields DEF Breakers
<1> QED BY <1>1, <1>2, <1>3

LEMMA AskedEffect ==
  ASSUME NEW b \in Breakers, NEW elapsed \in BOOLEAN
  PROVE  /\ Asked(b, elapsed) \in Breakers
         /\ \/ Asked(b, elapsed) = b
            \/ /\ b.state = "OPEN" /\ Asked(b, elapsed).state = "HALF_OPEN"
               /\ Asked(b, elapsed).probeInFlight = FALSE
<1>1. CASE b.state = "OPEN" /\ elapsed
  <2>1. Asked(b, elapsed) = [state |-> "HALF_OPEN", failures |-> b.failures, successes |-> 0,
                             probeInFlight |-> FALSE]
    BY <1>1 DEF Asked, Transition, Breakers
  <2> QED BY <1>1, <2>1, Fields DEF Breakers
<1>2. CASE ~(b.state = "OPEN" /\ elapsed)
  BY <1>2 DEF Asked
<1> QED BY <1>1, <1>2

LEMMA Initially == Init => IInv
  BY BreakerAssumption
     DEF Init, IInv, TypeOK, ProbeRuns, ClosedIsBelowThreshold, OneProbe,
         Gate, Constructed, Breakers, WorkingAt, Waiting, Heard, Overtaken, Working

(* What has been heard of a call is not forgotten.                         *)
LEMMA Remembered ==
  ASSUME TypeOK, Heard, resets \subseteq resets',
         \A d \in Calls : at[d] \in {"ok", "failed", "late"} =>
           /\ heard'[d] = heard[d] /\ opening'[d] = opening[d] /\ at'[d] \notin {"idle", "running", "rejected"}
           /\ at[d] = "ok" => at'[d] = "ok"
  PROVE  /\ \A o \in Nat : Stale(o) \subseteq Stale(o)' /\ (StaleSuccess(o) => StaleSuccess(o)')
         /\ \A c \in Calls : at'[c] \in {"running", "late"} /\ opening'[c] = opening[c] /\ Unseen(c)
                              => Unseen(c)'
<1>1. ASSUME NEW o \in Nat, NEW e \in Stale(o)
      PROVE  e \in Stale(o)' /\ (at[e] = "ok" => at'[e] = "ok")
  <2>1. e \in Calls /\ heard[e] = o /\ opening[e] < o /\ opening[e] \in Nat
    BY <1>1 DEF Stale, TypeOK
  <2>2. heard[e] # 0
    BY <2>1
  <2>3. at[e] \in {"ok", "failed", "late"}
    BY <2>1, <2>2 DEF Heard, TypeOK
  <2> QED BY <2>1, <2>3 DEF Stale
<1>2. \A o \in Nat : Stale(o) \subseteq Stale(o)' /\ (StaleSuccess(o) => StaleSuccess(o)')
  BY <1>1 DEF StaleSuccess
<1>3. ASSUME NEW c \in Calls, at'[c] \in {"running", "late"}, opening'[c] = opening[c], Unseen(c)
      PROVE  Unseen(c)'
  <2>1. opening[c] \in Nat
    BY DEF TypeOK
  <2>2. CASE at[c] = "late" /\ heard[c] = opening[c]
    BY <2>2, <1>3 DEF Unseen
  <2>3. CASE Stale(opening[c]) # {}
    BY <2>1, <2>3, <1>2, <1>3 DEF Unseen
  <2>4. CASE opening[c] \in resets
    BY <2>4, <1>3 DEF Unseen
  <2> QED BY <1>3, <2>2, <2>3, <2>4 DEF Unseen
<1> QED BY <1>2, <1>3

LEMMA AdmitKeeps == ASSUME IInv, NEW c \in Calls, Admit(c) PROVE IInv'
<1>1. PICK elapsed \in BOOLEAN :
        /\ Admits(Asked(breaker, elapsed)) /\ breaker' = Admitted(Asked(breaker, elapsed))
        /\ probes' = IF Asked(breaker, elapsed).state = "HALF_OPEN" THEN probes \cup {c} ELSE probes
  BY DEF Admit
<1>2. PICK b \in Breakers : b = Asked(breaker, elapsed)
  BY AskedEffect DEF IInv, TypeOK
<1>3. \/ b = breaker
      \/ breaker.state = "OPEN" /\ b.state = "HALF_OPEN" /\ b.probeInFlight = FALSE
  BY <1>2, AskedEffect DEF IInv, TypeOK
<1>4. /\ b.state = "CLOSED" \/ (b.state = "HALF_OPEN" /\ b.probeInFlight = FALSE)
      /\ breaker' = [b EXCEPT !.probeInFlight = @ \/ b.state = "HALF_OPEN"]
      /\ probes' = IF b.state = "HALF_OPEN" THEN probes \cup {c} ELSE probes
  BY <1>1, <1>2, Fields DEF Admits, Admitted
<1>5. /\ breaker' \in Breakers /\ breaker'.state = b.state /\ breaker'.failures = b.failures
      /\ b.state = "CLOSED" => breaker'.probeInFlight = FALSE
      /\ b.state = "HALF_OPEN" => breaker'.probeInFlight = TRUE
  <2>1. CASE b.state = "CLOSED"
    <3>1. b = breaker /\ b.probeInFlight = FALSE
      BY <2>1, <1>3 DEF IInv, Gate
    <3>2. breaker' = [state |-> b.state, failures |-> b.failures, successes |-> b.successes,
                      probeInFlight |-> FALSE]
      BY <1>4, <2>1, <3>1 DEF Breakers
    <3> QED BY <3>2, <2>1, Fields DEF Breakers
  <2>2. CASE b.state = "HALF_OPEN"
    <3>1. breaker' = [state |-> b.state, failures |-> b.failures, successes |-> b.successes,
                      probeInFlight |-> TRUE]
      BY <1>4, <2>2 DEF Breakers
    <3> QED BY <3>1, <2>2, Fields DEF Breakers
  <2> QED BY <1>4, <2>1, <2>2
<1>6. /\ at[c] = "idle" /\ at' = [at EXCEPT ![c] = "running"] /\ opens' = opens
      /\ opening' = [opening EXCEPT ![c] = opens]
      /\ at'[c] = "running" /\ opening'[c] = opens
      /\ \A d \in Calls \ {c} : at'[d] = at[d] /\ opening'[d] = opening[d] /\ (d \in probes' <=> d \in probes)
      /\ c \in probes' <=> b.state = "HALF_OPEN"
      /\ heard' = heard /\ resets' = resets
  BY <1>4 DEF Admit, IInv, TypeOK, Gate, history
<1>7. TypeOK'
  BY <1>4, <1>5, <1>6 DEF IInv, TypeOK
<1>8. ProbeRuns'
  BY <1>4, <1>5, <1>6 DEF ProbeRuns, Waiting
<1>9. ClosedIsBelowThreshold'
  BY <1>3, <1>4, <1>5 DEF IInv, ClosedIsBelowThreshold
<1>10. /\ \A o \in Nat : StaleSuccess(o) => StaleSuccess(o)'
       /\ \A d \in Calls \ {c} : at[d] \in {"running", "late"} /\ Unseen(d) => Unseen(d)'
  BY <1>6, Remembered DEF IInv
<1>11. ASSUME NEW d \in Calls \ {c}, d \in WorkingAt(opens), b.state = "HALF_OPEN"
       PROVE  StaleSuccess(opens)
  BY <1>3, <1>4, <1>11 DEF IInv, Gate, TypeOK, WorkingAt
<1>12. OneProbe'
  <2> SUFFICES ASSUME NEW d \in Calls, NEW e \in Calls, d # e, NEW o \in Nat,
                      o = opening'[d], o = opening'[e], d \in WorkingAt(o)', e \in WorkingAt(o)'
               PROVE  StaleSuccess(o)'
    BY <1>7 DEF OneProbe, StaleSuccess, TypeOK
  <2>1. CASE d # c /\ e # c
    <3>1. {d, e} \subseteq WorkingAt(o) /\ opening[d] = o /\ opening[e] = o
      BY <2>1, <1>6 DEF WorkingAt
    <3>2. StaleSuccess(o)
      BY <3>1 DEF IInv, OneProbe, StaleSuccess
    <3> QED BY <3>2, <1>10
  <2>2. CASE d = c \/ e = c
    <3>1. o = opens /\ b.state = "HALF_OPEN"
      BY <2>2, <1>6 DEF WorkingAt
    <3>2. PICK f \in {d, e} : f # c
      BY <2>2
    <3>3. f \in Calls \ {c} /\ f \in WorkingAt(opens)
      BY <3>1, <3>2, <1>6 DEF WorkingAt
    <3> QED BY <3>1, <3>3, <1>10, <1>11
  <2> QED BY <2>1, <2>2
<1>13. Gate'
  BY <1>3, <1>4, <1>5, <1>6 DEF IInv, Gate, TypeOK
<1>14. Heard'
  BY <1>6 DEF IInv, Heard
<1>15. Overtaken'
  <2> SUFFICES ASSUME NEW d \in Working', breaker'.state # "HALF_OPEN" \/ opening'[d] < opens'
               PROVE  Unseen(d)'
    BY DEF Overtaken
  <2>1. d \in Calls /\ d # c
    BY <1>3, <1>4, <1>5, <1>6, <1>7 DEF IInv, Gate, Working, TypeOK
  <2>2. d \in Working /\ (breaker.state # "HALF_OPEN" \/ opening[d] < opens)
    BY <2>1, <1>3, <1>5, <1>6 DEF Working
  <2> QED BY <2>1, <2>2, <1>10 DEF IInv, Overtaken, Working
<1> QED BY <1>7, <1>8, <1>9, <1>12, <1>13, <1>14, <1>15 DEF IInv

LEMMA SettleKeeps ==
  ASSUME IInv, NEW c \in Calls, NEW b \in Breakers, NEW how \in {"ok", "failed", "late"},
         Settle(c, how, b),
         b.probeInFlight = FALSE,
         \/ b.state = breaker.state /\ (breaker.state = "HALF_OPEN" => how = "ok")
         \/ b.state = "CLOSED" /\ breaker.state = "HALF_OPEN"
         \/ b.state = "OPEN",
         b.state = "CLOSED" => b.failures < FailureThreshold
  PROVE  IInv'
<1>1. /\ at[c] = "running" /\ at' = [at EXCEPT ![c] = how] /\ breaker' = b
      /\ probes' = probes /\ opening' = opening
      /\ opens' = IF breaker.state # "OPEN" /\ b.state = "OPEN" THEN opens + 1 ELSE opens
      /\ opens \in Nat /\ opens' \in Nat /\ opens' >= opens
      /\ at'[c] = how /\ \A d \in Calls \ {c} : at'[d] = at[d]
      /\ resets' = resets
      /\ heard' = IF breaker.state = "HALF_OPEN" THEN [heard EXCEPT ![c] = opens] ELSE heard
      /\ \A d \in Calls \ {c} : heard'[d] = heard[d]
      /\ breaker.state = "HALF_OPEN" => heard'[c] = opens
  BY DEF Settle, IInv, TypeOK
<1>2. TypeOK'
  BY <1>1 DEF IInv, TypeOK
<1>3. ProbeRuns' /\ ClosedIsBelowThreshold'
  BY <1>1 DEF ProbeRuns, ClosedIsBelowThreshold
<1>4. ASSUME NEW o \in Nat
      PROVE  WorkingAt(o)' \subseteq WorkingAt(o) /\ (StaleSuccess(o) => StaleSuccess(o)')
  <2>1. StaleSuccess(o) => StaleSuccess(o)'
    BY <1>1, Remembered DEF IInv
  <2> QED BY <1>1, <2>1 DEF WorkingAt
<1>5. ASSUME NEW d \in Calls, NEW e \in Calls, d # e, NEW o \in Nat,
             o = opening[d], o = opening[e], d \in WorkingAt(o), e \in WorkingAt(o)
      PROVE  StaleSuccess(o)'
  BY <1>4, <1>5 DEF IInv, OneProbe, StaleSuccess
<1>6. OneProbe'
  <2> SUFFICES ASSUME NEW d \in Calls, NEW e \in Calls, d # e, NEW o \in Nat,
                      o = opening[d], o = opening[e], d \in WorkingAt(o)', e \in WorkingAt(o)'
               PROVE  StaleSuccess(o)'
    BY <1>1, <1>2 DEF OneProbe, StaleSuccess, TypeOK
  <2> QED BY <1>4, <1>5
<1>7. b.state = "HALF_OPEN" => \A d \in WorkingAt(opens)' : StaleSuccess(opens)'
  <2> SUFFICES ASSUME b.state = "HALF_OPEN", NEW d \in WorkingAt(opens)'
               PROVE  StaleSuccess(opens)'
    OBVIOUS
  <2>1. opens' = opens /\ breaker.state = "HALF_OPEN" /\ how = "ok"
    BY <1>1
  <2>2. d \in Calls /\ d # c /\ d \in WorkingAt(opens) /\ opening[d] = opens
    BY <2>1, <1>1 DEF WorkingAt, IInv, TypeOK
  <2>3. CASE opening[c] < opens
    BY <2>1, <2>3, <1>1 DEF StaleSuccess, Stale
  <2>4. CASE opening[c] = opens
    <3>1. c \in WorkingAt(opens)
      BY <2>1, <2>4, <1>1 DEF IInv, Gate, TypeOK, WorkingAt
    <3> QED BY <2>1, <2>2, <2>4, <3>1, <1>1, <1>5
  <2> QED BY <2>3, <2>4, <1>1 DEF IInv, Gate, TypeOK
<1>8. Gate'
  BY <1>1, <1>7 DEF IInv, Gate, TypeOK
<1>9. Heard'
  BY <1>1 DEF IInv, Heard
<1>10. Overtaken'
  <2> SUFFICES ASSUME NEW d \in Working', b.state # "HALF_OPEN" \/ opening[d] < opens'
               PROVE  Unseen(d)'
    BY <1>1 DEF Overtaken
  <2>1. d \in Calls /\ d \in Working /\ opening[d] \in Nat /\ opening[d] <= opens
    BY <1>1 DEF Working, IInv, TypeOK, Gate
  <2>2. CASE breaker.state # "HALF_OPEN" \/ opening[d] < opens
    <3>1. Unseen(d)
      BY <2>1, <2>2 DEF IInv, Overtaken
    <3>2. at'[d] \in {"running", "late"}
      BY DEF Working
    <3> QED BY <2>1, <3>1, <3>2, <1>1, Remembered DEF IInv
  <2>3. CASE breaker.state = "HALF_OPEN" /\ opening[d] = opens
    <3>1. CASE d = c
      <4>1. at'[d] = "late" /\ heard'[d] = opening'[d]
        BY <2>3, <3>1, <1>1 DEF Working
      <4> QED BY <4>1 DEF Unseen
    <3>2. CASE d # c /\ opening[c] < opens
      <4>1. c \in Stale(opening[d])'
        BY <2>1, <2>3, <3>2, <1>1 DEF Stale
      <4> QED BY <4>1, <1>1 DEF Unseen
    <3>3. CASE d # c /\ opening[c] = opens
      <4>1. c \in WorkingAt(opens) /\ d \in WorkingAt(opens)
        BY <2>1, <2>3, <3>3, <1>1 DEF IInv, Gate, TypeOK, WorkingAt, Working
      <4>2. PICK o \in Nat : o = opens
        BY <1>1
      <4>3. StaleSuccess(o)'
        BY <2>1, <2>3, <3>3, <4>1, <4>2, <1>5
      <4>4. opening'[d] = o
        BY <2>3, <4>2, <1>1
      <4> QED BY <4>3, <4>4 DEF StaleSuccess, Unseen
    <3> QED BY <3>1, <3>2, <3>3, <1>1 DEF IInv, Gate, TypeOK
  <2> QED BY <2>1, <2>2, <2>3, <1>1
<1> QED BY <1>2, <1>3, <1>6, <1>8, <1>9, <1>10 DEF IInv

(* The remaining steps: they give no call a new answer, or only forget.    *)
LEMMA RejectKeeps == ASSUME IInv, NEW c \in Calls, Reject(c) PROVE IInv'
<1>1. PICK elapsed \in BOOLEAN : breaker' = Asked(breaker, elapsed) /\ ~Admits(Asked(breaker, elapsed))
  BY DEF Reject
<1>2. breaker' = breaker
  BY <1>1, AskedEffect DEF IInv, TypeOK, Admits
<1>3. /\ at[c] = "idle" /\ at' = [at EXCEPT ![c] = "rejected"]
      /\ opens' = opens /\ probes' = probes /\ opening' = opening
      /\ at'[c] = "rejected" /\ \A d \in Calls \ {c} : at'[d] = at[d]
      /\ heard' = heard /\ resets' = resets
  BY DEF Reject, IInv, TypeOK, history
<1>4. ASSUME NEW o \in Nat
      PROVE  WorkingAt(o)' = WorkingAt(o) /\ Waiting(o)' = Waiting(o) /\ (StaleSuccess(o) => StaleSuccess(o)')
  <2>1. StaleSuccess(o) => StaleSuccess(o)'
    BY <1>3, Remembered DEF IInv
  <2> QED BY <1>3, <2>1 DEF WorkingAt, Waiting
<1>5. TypeOK' /\ ProbeRuns' /\ ClosedIsBelowThreshold'
  BY <1>2, <1>3, <1>4 DEF IInv, TypeOK, ProbeRuns, ClosedIsBelowThreshold
<1>6. OneProbe'
  <2> SUFFICES ASSUME NEW d \in Calls, NEW e \in Calls, d # e, NEW o \in Nat,
                      o = opening[d], o = opening[e], d \in WorkingAt(o)', e \in WorkingAt(o)'
               PROVE  StaleSuccess(o)'
    BY <1>3, <1>5 DEF OneProbe, StaleSuccess, TypeOK
  <2> QED BY <1>4 DEF IInv, OneProbe, StaleSuccess
<1>7. Gate'
  BY <1>2, <1>3, <1>4 DEF IInv, Gate, TypeOK
<1>8. Heard'
  BY <1>3 DEF IInv, Heard
<1>9. Overtaken'
  <2> SUFFICES ASSUME NEW d \in Working', breaker.state # "HALF_OPEN" \/ opening[d] < opens
               PROVE  Unseen(d)'
    BY <1>2, <1>3 DEF Overtaken
  <2>1. d \in Working /\ d \in Calls /\ at'[d] \in {"running", "late"}
    BY <1>3 DEF Working, IInv, TypeOK
  <2>2. Unseen(d)
    BY <2>1 DEF IInv, Overtaken
  <2> QED BY <2>1, <2>2, <1>3, Remembered DEF IInv
<1> QED BY <1>5, <1>6, <1>7, <1>8, <1>9 DEF IInv

LEMMA FnEndsKeeps == ASSUME IInv, NEW c \in Calls, FnEnds(c) PROVE IInv'
<1>1. /\ at[c] = "late" /\ at' = [at EXCEPT ![c] = "failed"]
      /\ breaker' = breaker /\ opens' = opens /\ probes' = probes /\ opening' = opening
      /\ at'[c] = "failed" /\ \A d \in Calls \ {c} : at'[d] = at[d]
      /\ heard' = heard /\ resets' = resets
  BY DEF FnEnds, IInv, TypeOK, history
<1>2. ASSUME NEW o \in Nat
      PROVE  /\ WorkingAt(o)' \subseteq WorkingAt(o) /\ Waiting(o)' = Waiting(o)
             /\ StaleSuccess(o) => StaleSuccess(o)'
  <2>1. StaleSuccess(o) => StaleSuccess(o)'
    BY <1>1, Remembered DEF IInv
  <2> QED BY <1>1, <2>1 DEF WorkingAt, Waiting
<1>3. TypeOK' /\ ProbeRuns' /\ ClosedIsBelowThreshold'
  BY <1>1, <1>2 DEF IInv, TypeOK, ProbeRuns, ClosedIsBelowThreshold
<1>4. OneProbe'
  <2> SUFFICES ASSUME NEW d \in Calls, NEW e \in Calls, d # e, NEW o \in Nat,
                      o = opening[d], o = opening[e], d \in WorkingAt(o)', e \in WorkingAt(o)'
               PROVE  StaleSuccess(o)'
    BY <1>1, <1>3 DEF OneProbe, StaleSuccess, TypeOK
  <2> QED BY <1>2 DEF IInv, OneProbe, StaleSuccess
<1>5. Gate'
  BY <1>1, <1>2 DEF IInv, Gate, TypeOK
<1>6. Heard'
  BY <1>1 DEF IInv, Heard
<1>7. Overtaken'
  <2> SUFFICES ASSUME NEW d \in Working', breaker.state # "HALF_OPEN" \/ opening[d] < opens
               PROVE  Unseen(d)'
    BY <1>1 DEF Overtaken
  <2>1. d \in Working /\ d \in Calls /\ at'[d] \in {"running", "late"}
    BY <1>1 DEF Working, IInv, TypeOK
  <2>2. Unseen(d)
    BY <2>1 DEF IInv, Overtaken
  <2> QED BY <2>1, <2>2, <1>1, Remembered DEF IInv
<1> QED BY <1>3, <1>4, <1>5, <1>6, <1>7 DEF IInv

LEMMA ResetKeeps == ASSUME IInv, Reset PROVE IInv'
<1>1. /\ opens' = opens /\ at' = at /\ probes' = probes /\ opening' = opening /\ heard' = heard
      /\ resets' = IF breaker.state = "HALF_OPEN" THEN resets \cup {opens} ELSE resets
  BY DEF Reset
<1>2. breaker' = [state |-> "CLOSED", failures |-> 0, successes |-> 0, probeInFlight |-> FALSE]
  BY DEF Reset, Transition, IInv, TypeOK, Breakers
<1>3. /\ breaker' \in Breakers /\ breaker'.state = "CLOSED" /\ breaker'.probeInFlight = FALSE
      /\ breaker'.failures < FailureThreshold
  BY <1>2, BreakerAssumption DEF Breakers
<1>4. TypeOK' /\ ProbeRuns' /\ ClosedIsBelowThreshold'
  BY <1>1, <1>3 DEF IInv, TypeOK, ProbeRuns, ClosedIsBelowThreshold
<1>5. OneProbe'
  BY <1>1 DEF IInv, OneProbe, WorkingAt, StaleSuccess, Stale
<1>6. Gate'
  BY <1>1, <1>3 DEF IInv, Gate
<1>7. Heard'
  BY <1>1 DEF IInv, Heard
<1>8. Overtaken'
  <2> SUFFICES ASSUME NEW d \in Working PROVE Unseen(d)'
    BY <1>1 DEF Overtaken, Working
  <2>1. CASE breaker.state = "HALF_OPEN" /\ ~(opening[d] < opens)
    BY <2>1, <1>1 DEF IInv, Gate, TypeOK, Working, Unseen
  <2>2. CASE breaker.state # "HALF_OPEN" \/ opening[d] < opens
    <3>1. Unseen(d)
      BY <2>2 DEF IInv, Overtaken
    <3> QED BY <3>1, <1>1 DEF Unseen, Stale
  <2> QED BY <2>1, <2>2
<1> QED BY <1>4, <1>5, <1>6, <1>7, <1>8 DEF IInv

LEMMA StepKeeps == ASSUME IInv, [Next]_vars PROVE IInv'
<1>1. CASE UNCHANGED vars
  <2>1. /\ breaker' = breaker /\ opens' = opens /\ at' = at /\ probes' = probes /\ opening' = opening
        /\ heard' = heard /\ resets' = resets
    BY <1>1 DEF vars, history
  <2> QED BY <2>1 DEF IInv, TypeOK, ProbeRuns, ClosedIsBelowThreshold, OneProbe,
                      Gate, StaleSuccess, WorkingAt, Waiting, Heard, Overtaken, Working, Unseen, Stale
<1>2. breaker \in Breakers /\ (breaker.state # "HALF_OPEN" => breaker.probeInFlight = FALSE)
  BY DEF IInv, TypeOK, Gate
<1>3. ASSUME NEW c \in Calls, Succeed(c) PROVE IInv'
  <2>1. PICK b \in Breakers : b = AfterSuccess(breaker)
    BY <1>2, SuccessEffect
  <2>2. Settle(c, "ok", b)
    BY <1>3, <2>1 DEF Succeed
  <2>3. /\ b.probeInFlight = FALSE
        /\ b.state = breaker.state \/ (b.state = "CLOSED" /\ breaker.state = "HALF_OPEN")
        /\ b.state = "CLOSED" => b.failures < FailureThreshold
    <3>1. b.probeInFlight = FALSE
      BY <1>2, <2>1, SuccessEffect
    <3>2. b.state = breaker.state \/ (b.state = "CLOSED" /\ breaker.state = "HALF_OPEN")
      BY <1>2, <2>1, SuccessEffect, Fields
    <3>3. b.state = "CLOSED" => b.failures = 0
      BY <1>2, <2>1, SuccessEffect
    <3> QED BY <3>1, <3>2, <3>3, BreakerAssumption
  <2> QED BY <2>2, <2>3, SettleKeeps
<1>4. ASSUME NEW c \in Calls, Fail(c) \/ Timeout(c) PROVE IInv'
  <2>1. PICK b \in Breakers : b = AfterFailure(breaker)
    BY <1>2, FailureEffect
  <2>2. PICK how \in {"failed", "late"} : Settle(c, how, b)
    BY <1>4, <2>1 DEF Fail, Timeout
  <2>3. /\ b.probeInFlight = FALSE
        /\ b.state = "OPEN" \/ (b.state = breaker.state /\ breaker.state # "HALF_OPEN")
        /\ b.state = "CLOSED" => b.failures < FailureThreshold
    BY <1>2, <2>1, FailureEffect
  <2> QED BY <2>2, <2>3, SettleKeeps
<1> QED BY <1>1, <1>3, <1>4, AdmitKeeps, RejectKeeps, FnEndsKeeps, ResetKeeps DEF Next, Ended

LEMMA Invariance == Spec => []IInv
  BY Initially, StepKeeps, PTL DEF Spec

(* Type correctness of BreakerCalls, for any calls and thresholds.         *)
THEOREM BreakerTypeCorrect == Spec => []TypeOK
  BY Invariance, PTL DEF IInv

(* The gate of a half-open breaker is never held by a probe that is gone   *)
(* (circuitBreaker.js:159-166).                                            *)
THEOREM GateIsNeverStuck == Spec => []ProbeRuns
  BY Invariance, PTL DEF IInv

(* A breaker that closed needs FailureThreshold new failures to open.      *)
THEOREM ClosesAfresh == Spec => []ClosedIsBelowThreshold
  BY Invariance, PTL DEF IInv

(* The dependency works on one probe at a time, of whatever openings, but  *)
(* for the three ways in which a breaker loses sight of a probe.           *)
THEOREM ProbesOneByOne == Spec => []ProbesOverlapOnlyUnseen
<1>1. IInv => ProbesOverlapOnlyUnseen
  <2> SUFFICES ASSUME IInv, NEW c \in Working, NEW d \in Working, c # d
               PROVE  /\ opening[c] = opening[d] => \E e \in Stale(opening[c]) : at[e] = "ok"
                      /\ opening[c] < opening[d] => Unseen(c)
    BY DEF ProbesOverlapOnlyUnseen, Unseen
  <2>1. c \in Calls /\ d \in Calls /\ opening[c] \in Nat /\ opening[d] \in Nat /\ opens \in Nat
    BY DEF IInv, TypeOK, Working
  <2>2. ASSUME opening[c] = opening[d] PROVE StaleSuccess(opening[c])
    <3>1. {c, d} \subseteq WorkingAt(opening[c])
      BY <2>2 DEF Working, WorkingAt
    <3> QED BY <2>1, <2>2, <3>1 DEF IInv, OneProbe
  <2>3. ASSUME opening[c] < opening[d] PROVE Unseen(c)
    <3>1. opening[c] < opens
      BY <2>1, <2>3 DEF IInv, Gate
    <3> QED BY <3>1 DEF IInv, Overtaken
  <2> QED BY <2>2, <2>3 DEF StaleSuccess
<1> QED BY <1>1, Invariance, PTL

-------------------------------------------------------------------------------
(* Notifications                                                           *)
Sent == [by : Processes, at : {"running", "ok", "failed", "killed"}, mailed : BOOLEAN]

NotifyTypeOK ==
  /\ event \in [Txns -> {"none", "adding", "queued", "inProcess", "lost"}]
  /\ sends \in [Txns -> Seq(Sent)]
  /\ job \in [Txns -> [at : {"none", "waiting", "active", "completed", "failed"}, made : Nat]]
  /\ due \in SUBSET Txns /\ dead \in SUBSET Txns /\ faults \in Nat

(* The sends of the worker for a job, those that are known not to have     *)
(* worked or were cut off, and the last one.                               *)
Tries(t) == {i \in DOMAIN sends[t] : sends[t][i].by = "worker"}
Given(t, i) == sends[t][i].at \in {"failed", "killed"}
IsLast(t, i) == i \in Tries(t) /\ \A j \in Tries(t) : j <= i

(* A job is waiting, or has failed for good, only after sends that did not *)
(* work, at least as many as it has made; while the worker has it, only    *)
(* the last one may have.  The fallback of the API process sends once.     *)
JobOK(t) ==
  /\ event[t] \in {"none", "adding"} => job[t].at = "none"
  /\ \A i \in DOMAIN sends[t] : sends[t][i].by = "api" =>
       event[t] = "inProcess" /\ \A j \in DOMAIN sends[t] : sends[t][j].by = "api" => i = j
  /\ job[t].at \in {"none", "waiting", "failed"} =>
       (\A i \in Tries(t) : Given(t, i)) /\ Cardinality(Tries(t)) >= job[t].made
  /\ job[t].at \in {"active", "completed"} =>
       \E i \in Tries(t) : IsLast(t, i) /\ \A j \in Tries(t) \ {i} : Given(t, j)
  /\ job[t].at = "active" => Cardinality(Tries(t)) >= job[t].made + 1
  /\ job[t].at = "completed" => Worked(t)
  /\ job[t].at = "failed" => job[t].made >= Attempts /\ (faults = 0 => t \in due \cup dead)
  /\ t \in due \cup dead => job[t].at = "failed"

NotifyInv == NotifyTypeOK /\ \A t \in Txns : JobOK(t)

LEMMA NotifyInitially == NotifyInit => NotifyInv
  <1> SUFFICES ASSUME NotifyInit PROVE NotifyInv
    OBVIOUS
  <1>1. NotifyTypeOK
    BY DEF NotifyInit, NotifyTypeOK
  <1>2. ASSUME NEW t \in Txns PROVE JobOK(t)
    <2>1. sends[t] = <<>> /\ event[t] = "none" /\ job[t].at = "none" /\ job[t].made = 0 /\ due = {} /\ dead = {}
      BY DEF NotifyInit
    <2>2. DOMAIN sends[t] = {}
      BY <2>1
    <2>3. Tries(t) = {} /\ Cardinality(Tries(t)) = 0
      BY <2>2, FS_EmptySet DEF Tries
    <2>4. QED
      BY <2>1, <2>2, <2>3 DEF JobOK
  <1>3. QED
    BY <1>1, <1>2 DEF NotifyInv

LEMMA TriesFinite ==
  ASSUME NotifyTypeOK, NEW t \in Txns
  PROVE  /\ sends[t] \in Seq(Sent) /\ Len(sends[t]) \in Nat /\ DOMAIN sends[t] = 1..Len(sends[t])
         /\ Tries(t) \subseteq 1..Len(sends[t]) /\ IsFiniteSet(Tries(t)) /\ Cardinality(Tries(t)) \in Nat
         /\ \A i \in DOMAIN sends[t] : sends[t][i] \in Sent
  <1>1. sends[t] \in Seq(Sent)
    BY DEF NotifyTypeOK
  <1>2. Len(sends[t]) \in Nat /\ DOMAIN sends[t] = 1..Len(sends[t]) /\ \A i \in DOMAIN sends[t] : sends[t][i] \in Sent
    BY <1>1
  <1>3. Tries(t) \subseteq 1..Len(sends[t])
    BY <1>2 DEF Tries
  <1>4. IsFiniteSet(1..Len(sends[t]))
    BY <1>2, FS_Interval
  <1>5. IsFiniteSet(Tries(t))
    BY <1>3, <1>4, FS_Subset
  <1>6. QED
    BY <1>1, <1>2, <1>3, <1>5, FS_CardinalityType

(* A transaction whose job stays where it is, and whose sends at most end. *)
LEMMA SameJob ==
  ASSUME NotifyInv, NEW t \in Txns, job'[t] = job[t],
         event'[t] = event[t] \/ (event[t] = "adding" /\ event'[t] = "lost"),
         DOMAIN sends'[t] = DOMAIN sends[t],
         \A i \in DOMAIN sends[t] :
           /\ sends'[t][i].by = sends[t][i].by
           /\ sends[t][i].by = "worker" /\ sends[t][i].at # "running" => sends'[t][i].at = sends[t][i].at,
         t \in due' \cup dead' => t \in due \cup dead,
         t \in due \cup dead => t \in due' \cup dead' \/ faults' # 0,
         faults' = 0 => faults = 0
  PROVE  JobOK(t)'
  <1>1. JobOK(t) /\ job[t].at \in {"none", "waiting", "active", "completed", "failed"} /\ job[t].made \in Nat
    BY DEF NotifyInv, NotifyTypeOK
  <1>2. Tries(t)' = Tries(t)
    BY DEF Tries
  <1>3. \A i \in Tries(t) : (Given(t, i) => Given(t, i)') /\ (IsLast(t, i) => IsLast(t, i)')
    BY <1>2 DEF Tries, Given, IsLast
  <1>4. Worked(t) => Worked(t)'
    BY DEF Worked
  <1>5. /\ event'[t] \in {"none", "adding"} => job'[t].at = "none"
        /\ \A i \in DOMAIN sends'[t] : sends'[t][i].by = "api" =>
             event'[t] = "inProcess" /\ \A j \in DOMAIN sends'[t] : sends'[t][j].by = "api" => i = j
    BY <1>1 DEF JobOK
  <1>6. job'[t].at \in {"none", "waiting", "failed"} =>
          (\A i \in Tries(t)' : Given(t, i)') /\ Cardinality(Tries(t)') >= job'[t].made
    BY <1>1, <1>2, <1>3 DEF JobOK
  <1>7. job'[t].at \in {"active", "completed"} =>
          \E i \in Tries(t)' : IsLast(t, i)' /\ \A j \in Tries(t)' \ {i} : Given(t, j)'
    BY <1>1, <1>2, <1>3 DEF JobOK
  <1>8. /\ job'[t].at = "active" => Cardinality(Tries(t)') >= job'[t].made + 1
        /\ job'[t].at = "completed" => Worked(t)'
        /\ job'[t].at = "failed" => job'[t].made >= Attempts /\ (faults' = 0 => t \in due' \cup dead')
        /\ t \in due' \cup dead' => job'[t].at = "failed"
    BY <1>1, <1>2, <1>4 DEF JobOK
  <1>9. QED
    BY <1>5, <1>6, <1>7, <1>8 DEF JobOK

(* The others.                                                             *)
LEMMA OtherJobs ==
  ASSUME NotifyInv, NEW t \in Txns, job'[t] = job[t], event'[t] = event[t], sends'[t] = sends[t],
         t \in due' <=> t \in due, t \in dead' <=> t \in dead, faults' = faults \/ faults' # 0
  PROVE  JobOK(t)'
  BY SameJob

LEMMA Appended ==
  ASSUME NotifyTypeOK, NEW t \in Txns, NEW r \in Sent, sends'[t] = Append(sends[t], r)
  PROVE  LET n == Len(sends[t]) + 1
         IN  /\ DOMAIN sends'[t] = DOMAIN sends[t] \cup {n} /\ n \notin DOMAIN sends[t]
             /\ sends'[t][n] = r /\ \A i \in DOMAIN sends[t] : sends'[t][i] = sends[t][i] /\ i <= n
             /\ n \in Nat
  BY TriesFinite

(* The API process sends by itself: the first send for this transaction.   *)
LEMMA FallbackOK ==
  ASSUME NotifyInv, NEW t \in Txns, event[t] \in {"none", "adding"}, event'[t] = "inProcess",
         NEW r \in Sent, r.by = "api", sends'[t] = Append(sends[t], r),
         job'[t].at \in {"none", "waiting"}, job'[t].made = job[t].made,
         UNCHANGED <<due, dead>>
  PROVE  JobOK(t)'
  <1> DEFINE n == Len(sends[t]) + 1
  <1>1. /\ DOMAIN sends'[t] = DOMAIN sends[t] \cup {n} /\ n \notin DOMAIN sends[t]
        /\ sends'[t][n] = r /\ \A i \in DOMAIN sends[t] : sends'[t][i] = sends[t][i] /\ i <= n
    BY Appended DEF NotifyInv
  <1> HIDE DEF n
  <1>2. JobOK(t)
    BY DEF NotifyInv
  <1>3. job[t].at = "none" /\ (\A i \in DOMAIN sends[t] : sends[t][i].by # "api")
    BY <1>2 DEF JobOK
  <1>4. Tries(t)' = Tries(t)
    BY <1>1 DEF Tries
  <1>5. \A i \in Tries(t) : Given(t, i) /\ Given(t, i)'
    BY <1>1, <1>2, <1>3 DEF JobOK, Given, Tries
  <1>6. t \notin due' \cup dead'
    BY <1>2, <1>3 DEF JobOK
  <1>7. \A i \in DOMAIN sends'[t] : sends'[t][i].by = "api" => i = n
    BY <1>1, <1>3
  <1>8. QED
    BY <1>2, <1>3, <1>4, <1>5, <1>6, <1>7 DEF JobOK

LEMMA SendFacts ==
  ASSUME NEW p \in Processes, NEW t \in Txns, Send(p, t)
  PROVE  \E r \in Sent : r.by = p /\ sends' = [sends EXCEPT ![t] = Append(@, r)]
  <1>1. PICK elapsed \in BOOLEAN :
          sends' = [sends EXCEPT ![t] = Append(@,
             [by |-> p, at |-> IF Admits(Asked(breakers[p], elapsed)) THEN "running" ELSE "failed",
              mailed |-> FALSE])]
    BY DEF Send
  <1>2. ASSUME NEW a \in {"running", "failed"} PROVE [by |-> p, at |-> a, mailed |-> FALSE] \in Sent
    BY DEF Sent
  <1>3. QED
    BY <1>1, <1>2

LEMMA SentType ==
  ASSUME NotifyTypeOK, NEW t \in Txns, NEW r \in Sent, sends' = [sends EXCEPT ![t] = Append(@, r)]
  PROVE  /\ sends' \in [Txns -> Seq(Sent)] /\ sends'[t] = Append(sends[t], r)
         /\ \A s \in Txns \ {t} : sends'[s] = sends[s]
  <1>1. sends \in [Txns -> Seq(Sent)] /\ Append(sends[t], r) \in Seq(Sent)
    BY DEF NotifyTypeOK
  <1>2. QED
    BY <1>1

LEMMA AnnounceKeeps == ASSUME NotifyInv, NEW t \in Txns, Announce(t) PROVE NotifyInv'
  <1>1. NotifyTypeOK /\ event[t] = "none" /\ UNCHANGED <<job, due, dead, faults>>
    BY DEF NotifyInv, Announce
  <1>2. CASE event' = [event EXCEPT ![t] = "adding"] /\ UNCHANGED sends
    <2>1. NotifyTypeOK'
      BY <1>1, <1>2 DEF NotifyTypeOK
    <2>2. event'[t] = "adding"
      BY <1>1, <1>2 DEF NotifyTypeOK
    <2>3. JobOK(t)'
      <3>1. JobOK(t) /\ \A i \in DOMAIN sends[t] : sends[t][i].by # "api"
        BY <1>1 DEF NotifyInv, JobOK
      <3>2. Tries(t)' = Tries(t) /\ \A i : Given(t, i)' = Given(t, i)
        BY <1>2 DEF Tries, Given
      <3>3. job[t].at = "none"
        BY <1>1, <3>1 DEF JobOK
      <3>4. QED
        BY <1>1, <1>2, <2>2, <3>1, <3>2, <3>3 DEF JobOK
    <2>4. ASSUME NEW s \in Txns \ {t} PROVE JobOK(s)'
      <3>1. event'[s] = event[s] /\ sends'[s] = sends[s] /\ job'[s] = job[s]
        BY <1>1, <1>2 DEF NotifyTypeOK
      <3>2. QED
        BY <1>1, <3>1, OtherJobs
    <2>5. QED
      BY <2>1, <2>3, <2>4 DEF NotifyInv
  <1>3. CASE event' = [event EXCEPT ![t] = "inProcess"] /\ Send("api", t)
    <2>1. PICK r \in Sent : r.by = "api" /\ sends' = [sends EXCEPT ![t] = Append(@, r)]
      BY <1>3, SendFacts DEF Processes
    <2>2. /\ sends' \in [Txns -> Seq(Sent)] /\ sends'[t] = Append(sends[t], r)
          /\ \A s \in Txns \ {t} : sends'[s] = sends[s]
      BY <1>1, <2>1, SentType
    <2>3. NotifyTypeOK' /\ event'[t] = "inProcess" /\ \A s \in Txns \ {t} : event'[s] = event[s]
      BY <1>1, <1>3, <2>2 DEF NotifyTypeOK
    <2>4. job[t].at = "none"
      BY <1>1 DEF NotifyInv, JobOK
    <2>5. JobOK(t)'
      BY <1>1, <2>1, <2>2, <2>3, <2>4, FallbackOK
    <2>6. \A s \in Txns \ {t} : JobOK(s)'
      BY <1>1, <2>2, <2>3, OtherJobs
    <2>7. QED
      BY <2>3, <2>5, <2>6 DEF NotifyInv
  <1>4. QED
    BY <1>2, <1>3 DEF Announce

LEMMA AddKeeps == ASSUME NotifyInv, NEW t \in Txns, AddArrives(t) PROVE NotifyInv'
  <1>1. /\ NotifyTypeOK /\ JobOK(t) /\ job[t].at = "none"
        /\ event' = [event EXCEPT ![t] = "queued"] /\ job' = [job EXCEPT ![t].at = "waiting"]
        /\ event[t] \in {"adding", "queued"} /\ UNCHANGED <<sends, due, dead, faults>>
    BY DEF NotifyInv, AddArrives, Add
  <1>2. NotifyTypeOK'
    BY <1>1 DEF NotifyTypeOK
  <1>3. event'[t] = "queued" /\ job'[t].at = "waiting" /\ job'[t].made = job[t].made
    BY <1>1 DEF NotifyTypeOK
  <1>4. Tries(t)' = Tries(t) /\ \A i : Given(t, i)' = Given(t, i)
    BY <1>1 DEF Tries, Given
  <1>5. JobOK(t)'
    <2>1. \A i \in DOMAIN sends[t] : sends[t][i].by # "api"
      BY <1>1 DEF JobOK
    <2>2. QED
      BY <1>1, <1>3, <1>4, <2>1 DEF JobOK
  <1>6. ASSUME NEW s \in Txns \ {t} PROVE JobOK(s)'
    <2>1. event'[s] = event[s] /\ sends'[s] = sends[s] /\ job'[s] = job[s]
      BY <1>1 DEF NotifyTypeOK
    <2>2. QED
      BY <1>1, <2>1, OtherJobs
  <1>7. QED
    BY <1>2, <1>5, <1>6 DEF NotifyInv

LEMMA AddFailsKeeps == ASSUME NotifyInv, NEW t \in Txns, AddFails(t) PROVE NotifyInv'
  <1>1. /\ NotifyTypeOK /\ event[t] = "adding" /\ event' = [event EXCEPT ![t] = "inProcess"]
        /\ job' = job \/ job' = [job EXCEPT ![t].at = "waiting"]
        /\ faults' = faults + 1 /\ UNCHANGED <<due, dead>>
    BY DEF NotifyInv, AddFails, Fault
  <1>2. PICK r \in Sent : r.by = "api" /\ sends' = [sends EXCEPT ![t] = Append(@, r)]
    BY SendFacts DEF AddFails, Processes
  <1>3. /\ sends' \in [Txns -> Seq(Sent)] /\ sends'[t] = Append(sends[t], r)
        /\ \A s \in Txns \ {t} : sends'[s] = sends[s]
    BY <1>1, <1>2, SentType
  <1>4. job[t].at = "none" /\ faults \in Nat
    BY <1>1 DEF NotifyInv, NotifyTypeOK, JobOK
  <1>5. /\ NotifyTypeOK' /\ event'[t] = "inProcess" /\ faults' # 0
        /\ \A s \in Txns \ {t} : event'[s] = event[s] /\ job'[s] = job[s]
        /\ job'[t].at \in {"none", "waiting"} /\ job'[t].made = job[t].made
    <2>1. /\ job' \in [Txns -> [at : {"none", "waiting", "active", "completed", "failed"}, made : Nat]]
          /\ \A s \in Txns \ {t} : job'[s] = job[s]
          /\ job'[t].at \in {"none", "waiting"} /\ job'[t].made = job[t].made
      BY <1>1, <1>4, ZenonT(40) DEF NotifyTypeOK
    <2>2. faults' \in Nat /\ faults' # 0
      BY <1>1, <1>4
    <2>3. event'[t] = "inProcess" /\ \A s \in Txns \ {t} : event'[s] = event[s]
      BY <1>1 DEF NotifyTypeOK
    <2>4. NotifyTypeOK'
      BY <1>1, <1>3, <2>1, <2>2 DEF NotifyTypeOK
    <2>5. QED
      BY <2>1, <2>2, <2>3, <2>4
  <1>6. JobOK(t)'
    BY <1>1, <1>2, <1>3, <1>4, <1>5, FallbackOK
  <1>7. \A s \in Txns \ {t} : JobOK(s)'
    BY <1>1, <1>3, <1>5, OtherJobs
  <1>8. QED
    BY <1>5, <1>6, <1>7 DEF NotifyInv

LEMMA SendEndsKeeps ==
  ASSUME NotifyInv, NEW t \in Txns, NEW i \in DOMAIN sends[t], NEW how \in {"ok", "failed"},
         NEW mailed \in BOOLEAN, NEW b, SendEnds(t, i, how, mailed, b)
  PROVE  NotifyInv'
  <1>1. /\ NotifyTypeOK /\ sends[t][i].at = "running"
        /\ sends' = [sends EXCEPT ![t][i] = [@ EXCEPT !.at = how, !.mailed = mailed]]
        /\ UNCHANGED <<event, job, due, dead, faults>>
    BY DEF NotifyInv, SendEnds
  <1> DEFINE r == [sends[t][i] EXCEPT !.at = how, !.mailed = mailed]
  <1>2. /\ sends[t] \in Seq(Sent) /\ sends[t][i] \in Sent /\ DOMAIN sends[t] = 1..Len(sends[t])
        /\ Len(sends[t]) \in Nat
    BY <1>1, TriesFinite
  <1>3. r \in Sent /\ r.by = sends[t][i].by
    BY <1>2 DEF Sent
  <1>4. sends' = [sends EXCEPT ![t] = [sends[t] EXCEPT ![i] = r]]
    BY <1>1, <1>2 DEF NotifyTypeOK
  <1> HIDE DEF r
  <1>5. [sends[t] EXCEPT ![i] = r] \in Seq(Sent)
    BY <1>2, <1>3
  <1>6. /\ sends' \in [Txns -> Seq(Sent)] /\ sends'[t] = [sends[t] EXCEPT ![i] = r]
        /\ \A s \in Txns \ {t} : sends'[s] = sends[s]
    BY <1>1, <1>4, <1>5, ZenonT(40) DEF NotifyTypeOK
  <1>7. NotifyTypeOK'
    BY <1>1, <1>6 DEF NotifyTypeOK
  <1>8. /\ DOMAIN sends'[t] = DOMAIN sends[t]
        /\ \A k \in DOMAIN sends[t] :
             /\ sends'[t][k].by = sends[t][k].by
             /\ sends[t][k].by = "worker" /\ sends[t][k].at # "running" => sends'[t][k].at = sends[t][k].at
    BY <1>1, <1>2, <1>3, <1>6
  <1>9. JobOK(t)'
    BY <1>1, <1>8, SameJob
  <1>10. \A s \in Txns \ {t} : JobOK(s)'
    BY <1>1, <1>6, OtherJobs
  <1>11. QED
    BY <1>7, <1>9, <1>10 DEF NotifyInv

LEMMA TakeKeeps == ASSUME NotifyInv, NEW t \in Txns, Take(t) PROVE NotifyInv'
  <1>1. /\ NotifyTypeOK /\ JobOK(t) /\ job[t].at = "waiting" /\ job' = [job EXCEPT ![t].at = "active"]
        /\ UNCHANGED <<event, due, dead, faults>>
    BY DEF NotifyInv, Take
  <1>2. PICK r \in Sent : r.by = "worker" /\ sends' = [sends EXCEPT ![t] = Append(@, r)]
    BY SendFacts DEF Take, Processes
  <1>3. /\ sends' \in [Txns -> Seq(Sent)] /\ sends'[t] = Append(sends[t], r)
        /\ \A s \in Txns \ {t} : sends'[s] = sends[s]
    BY <1>1, <1>2, SentType
  <1>4. /\ NotifyTypeOK' /\ job'[t].at = "active" /\ job'[t].made = job[t].made
        /\ \A s \in Txns \ {t} : job'[s] = job[s]
    BY <1>1, <1>3 DEF NotifyTypeOK
  <1>5. PICK n \in Nat :
        /\ DOMAIN sends'[t] = DOMAIN sends[t] \cup {n} /\ n \notin DOMAIN sends[t]
        /\ sends'[t][n] = r /\ \A i \in DOMAIN sends[t] : sends'[t][i] = sends[t][i] /\ i <= n
    BY <1>1, <1>3, Appended, ZenonT(40)
  <1>6. Tries(t)' = Tries(t) \cup {n} /\ n \notin Tries(t)
    BY <1>2, <1>5 DEF Tries
  <1>7. Cardinality(Tries(t)') >= job'[t].made + 1
    <2>1. IsFiniteSet(Tries(t)) /\ Cardinality(Tries(t)) \in Nat /\ job[t].made \in Nat
      BY <1>1, TriesFinite DEF NotifyTypeOK
    <2>2. Cardinality(Tries(t) \cup {n}) = Cardinality(Tries(t)) + 1
      BY <1>6, <2>1, FS_AddElement
    <2>3. Cardinality(Tries(t)) >= job[t].made
      BY <1>1 DEF JobOK
    <2>4. QED
      BY <1>4, <1>6, <2>1, <2>2, <2>3
  <1>8. \A i \in Tries(t) : Given(t, i)' /\ i <= n
    BY <1>1, <1>5 DEF JobOK, Given, Tries
  <1>9. IsLast(t, n)' /\ \A j \in Tries(t)' \ {n} : Given(t, j)'
    BY <1>5, <1>6, <1>8 DEF IsLast
  <1>10. \A i \in DOMAIN sends'[t] : sends'[t][i].by = "api" =>
           event'[t] = "inProcess" /\ \A j \in DOMAIN sends'[t] : sends'[t][j].by = "api" => i = j
    BY <1>1, <1>2, <1>5 DEF JobOK
  <1>11. event'[t] \notin {"none", "adding"} /\ t \notin due' \cup dead'
    BY <1>1 DEF JobOK
  <1>12. JobOK(t)'
    BY <1>4, <1>6, <1>7, <1>9, <1>10, <1>11 DEF JobOK
  <1>13. \A s \in Txns \ {t} : JobOK(s)'
    BY <1>1, <1>3, <1>4, OtherJobs
  <1>14. QED
    BY <1>4, <1>12, <1>13 DEF NotifyInv

LEMMA CurrentIs ==
  ASSUME NotifyTypeOK, NEW t \in Txns, NEW i \in Tries(t), IsLast(t, i)
  PROVE  Current(t) = i
  <1> DEFINE Latest(k) == /\ sends[t][k].by = "worker"
                          /\ \A j \in DOMAIN sends[t] : sends[t][j].by = "worker" => j <= k
  <1>1. i \in DOMAIN sends[t] /\ Latest(i)
    BY DEF IsLast, Tries
  <1>2. ASSUME NEW k \in DOMAIN sends[t], Latest(k) PROVE k = i
    <2>1. k \in Nat /\ i \in Nat
      BY <1>1, TriesFinite
    <2>2. k <= i /\ i <= k
      BY <1>1, <1>2
    <2>3. QED
      BY <2>1, <2>2
  <1>3. Current(t) = CHOOSE k \in DOMAIN sends[t] : Latest(k)
    BY DEF Current
  <1> HIDE DEF Latest
  <1>4. Current(t) \in DOMAIN sends[t] /\ Latest(Current(t))
    BY <1>1, <1>3
  <1>5. QED
    BY <1>2, <1>4

(* The job the worker has ended, well or badly.                            *)
LEMMA FinishKeeps ==
  ASSUME NotifyInv, NEW t \in Txns, FinishWell(t) \/ FinishBadly(t)
  PROVE  NotifyInv'
  <1>1. NotifyTypeOK /\ JobOK(t) /\ job[t].at = "active" /\ UNCHANGED <<event, sends, dead, faults>>
    BY DEF NotifyInv, FinishWell, FinishBadly
  <1>2. PICK i \in Tries(t) : IsLast(t, i) /\ \A j \in Tries(t) \ {i} : Given(t, j)
    BY <1>1 DEF JobOK
  <1>3. Current(t) = i
    BY <1>1, <1>2, CurrentIs
  <1>4. /\ Cardinality(Tries(t)) \in Nat /\ job[t].made \in Nat /\ Attempts \in Nat
        /\ Cardinality(Tries(t)) >= job[t].made + 1
    BY <1>1, TriesFinite, NotificationAssumption DEF NotifyTypeOK, JobOK
  <1>5. Tries(t)' = Tries(t) /\ \A k : (Given(t, k)' <=> Given(t, k)) /\ (IsLast(t, k)' <=> IsLast(t, k))
    BY <1>1 DEF Tries, Given, IsLast
  <1>6. /\ \A k \in DOMAIN sends'[t] : sends'[t][k].by = "api" =>
             event'[t] = "inProcess" /\ \A j \in DOMAIN sends'[t] : sends'[t][j].by = "api" => k = j
        /\ event'[t] \notin {"none", "adding"} /\ t \notin due \cup dead
    BY <1>1 DEF JobOK
  <1>7. CASE FinishWell(t)
    <2>1. job' = [job EXCEPT ![t].at = "completed"] /\ sends[t][i].at = "ok" /\ due' = due
      BY <1>3, <1>7 DEF FinishWell
    <2>2. NotifyTypeOK' /\ job'[t].at = "completed" /\ \A s \in Txns \ {t} : job'[s] = job[s]
      BY <1>1, <2>1 DEF NotifyTypeOK
    <2>3. Worked(t)'
      BY <1>1, <1>2, <2>1 DEF Worked, Tries
    <2>4. JobOK(t)'
      BY <1>1, <1>2, <1>5, <1>6, <2>1, <2>2, <2>3 DEF JobOK
    <2>5. \A s \in Txns \ {t} : JobOK(s)'
      BY <1>1, <2>1, <2>2, OtherJobs
    <2>6. QED
      BY <2>2, <2>4, <2>5 DEF NotifyInv
  <1>8. CASE FinishBadly(t)
    <2>1. /\ job' = [job EXCEPT ![t] = [at |-> IF @.made + 1 < Attempts THEN "waiting" ELSE "failed",
                                        made |-> @.made + 1]]
          /\ sends[t][i].at = "failed" /\ due' = IF Exhausted(t) THEN due \cup {t} ELSE due
      BY <1>3, <1>8 DEF FinishBadly
    <2>2. /\ job'[t].at = IF job[t].made + 1 < Attempts THEN "waiting" ELSE "failed"
          /\ job'[t].made = job[t].made + 1 /\ \A s \in Txns \ {t} : job'[s] = job[s]
          /\ job' \in [Txns -> [at : {"none", "waiting", "active", "completed", "failed"}, made : Nat]]
      BY <1>1, <1>4, <2>1 DEF NotifyTypeOK
    <2>3. NotifyTypeOK' /\ \A s \in Txns \ {t} : s \in due' <=> s \in due
      BY <1>1, <2>1, <2>2 DEF NotifyTypeOK
    <2>4. \A k \in Tries(t)' : Given(t, k)'
      BY <1>2, <1>5, <2>1 DEF Given
    <2>5. /\ job'[t].at = "failed" <=> t \in due'
          /\ job'[t].at = "failed" => job'[t].made >= Attempts
      BY <1>4, <1>6, <2>1, <2>2 DEF Exhausted
    <2>6. job'[t].at \in {"waiting", "failed"} /\ Cardinality(Tries(t)') >= job'[t].made
      BY <1>4, <1>5, <2>2
    <2>7. JobOK(t)'
      BY <1>1, <1>6, <2>4, <2>5, <2>6 DEF JobOK
    <2>8. \A s \in Txns \ {t} : JobOK(s)'
      BY <1>1, <2>2, <2>3, OtherJobs
    <2>9. QED
      BY <2>3, <2>7, <2>8 DEF NotifyInv
  <1>9. QED
    BY <1>7, <1>8

LEMMA MoveKeeps == ASSUME NotifyInv, NEW t \in Txns, MoveToDlq(t) PROVE NotifyInv'
  <1>1. /\ NotifyTypeOK /\ t \in due /\ due' = due \ {t} /\ UNCHANGED <<event, sends, job>>
        /\ \/ dead' = dead \cup {t} /\ faults' = faults
           \/ dead' = dead /\ faults' = faults + 1
    BY DEF NotifyInv, MoveToDlq, Fault
  <1>2. NotifyTypeOK' /\ (faults' = faults \/ faults' # 0)
    BY <1>1 DEF NotifyTypeOK
  <1>3. JobOK(t)'
    <2>1. t \in due' \cup dead' \/ faults' # 0
      <3>1. CASE faults' = faults + 1
        BY <1>1, <3>1 DEF NotifyTypeOK
      <3>2. QED
        BY <1>1, <3>1
    <2>2. QED
      BY <1>1, <1>2, <2>1, SameJob
  <1>4. \A s \in Txns \ {t} : JobOK(s)'
    BY <1>1, <1>2, OtherJobs
  <1>5. QED
    BY <1>2, <1>3, <1>4 DEF NotifyInv

(* What a crash leaves of the sends.                                       *)
LEMMA KilledFacts ==
  ASSUME NotifyTypeOK, NEW p \in Processes, NEW M \in SUBSET Txns, sends' = Killed(p, M)
  PROVE  /\ sends' \in [Txns -> Seq(Sent)]
         /\ \A t \in Txns : /\ DOMAIN sends'[t] = DOMAIN sends[t]
                            /\ \A i \in DOMAIN sends[t] :
                                 /\ sends'[t][i].by = sends[t][i].by
                                 /\ sends[t][i].by # p => sends'[t][i].at = sends[t][i].at
                                 /\ sends[t][i].at = "failed" => sends'[t][i].at = "failed"
                                 /\ sends[t][i].by = p /\ sends[t][i].at = "running" => sends'[t][i].at = "killed"
                                 /\ sends[t][i].at = "killed" => sends'[t][i].at = "killed"
                                 /\ sends[t][i].at = "ok" =>
                                      sends'[t][i].at = IF p = "worker" /\ sends[t][i].by = p /\ t \in Active /\ i = Current(t)
                                                        THEN "killed" ELSE "ok"
  <1> DEFINE After(t, i, s) ==
        IF s.by # p THEN s
        ELSE IF s.at = "running" THEN [s EXCEPT !.at = "killed", !.mailed = t \in M]
        ELSE IF p = "worker" /\ t \in Active /\ i = Current(t) /\ s.at = "ok" THEN [s EXCEPT !.at = "killed"] ELSE s
  <1>1. sends' = [t \in Txns |-> [i \in DOMAIN sends[t] |-> After(t, i, sends[t][i])]]
    BY DEF Killed
  <1>2. ASSUME NEW t, NEW i, NEW s \in Sent
        PROVE  /\ After(t, i, s) \in Sent /\ After(t, i, s).by = s.by
               /\ s.by # p => After(t, i, s).at = s.at
               /\ s.at = "failed" => After(t, i, s).at = "failed"
               /\ s.by = p /\ s.at = "running" => After(t, i, s).at = "killed"
               /\ s.at = "killed" => After(t, i, s).at = "killed"
               /\ s.at = "ok" => After(t, i, s).at = IF p = "worker" /\ s.by = p /\ t \in Active /\ i = Current(t)
                                                     THEN "killed" ELSE "ok"
    <2>1. ASSUME NEW x \in BOOLEAN
          PROVE  LET k == [s EXCEPT !.at = "killed", !.mailed = x]
                 IN  k \in Sent /\ k.by = s.by /\ k.at = "killed"
      BY DEF Sent
    <2>2. LET k == [s EXCEPT !.at = "killed"] IN k \in Sent /\ k.by = s.by /\ k.at = "killed"
      BY DEF Sent
    <2>3. (t \in M) \in BOOLEAN
      OBVIOUS
    <2> DEFINE dead1 == [s EXCEPT !.at = "killed", !.mailed = t \in M]
               dead2 == [s EXCEPT !.at = "killed"]
    <2>4. dead1 \in Sent /\ dead1.by = s.by /\ dead1.at = "killed"
      BY <2>1, <2>3
    <2>5. dead2 \in Sent /\ dead2.by = s.by /\ dead2.at = "killed"
      BY <2>2
    <2>6. \/ After(t, i, s) = dead1 /\ s.by = p /\ s.at = "running"
          \/ After(t, i, s) = dead2 /\ s.by = p /\ p = "worker" /\ t \in Active /\ i = Current(t) /\ s.at = "ok"
          \/ /\ After(t, i, s) = s
             /\ ~(s.by = p /\ s.at = "running")
             /\ ~(s.by = p /\ p = "worker" /\ t \in Active /\ i = Current(t) /\ s.at = "ok")
      OBVIOUS
    <2> HIDE DEF After, dead1, dead2
    <2>7. QED
      BY <2>4, <2>5, <2>6
  <1> HIDE DEF After
  <1>3. ASSUME NEW t \in Txns
        PROVE  /\ sends'[t] \in Seq(Sent) /\ DOMAIN sends'[t] = DOMAIN sends[t]
               /\ \A i \in DOMAIN sends[t] : sends'[t][i] = After(t, i, sends[t][i]) /\ sends[t][i] \in Sent
    <2>1. sends'[t] = [i \in 1..Len(sends[t]) |-> After(t, i, sends[t][i])] /\ DOMAIN sends[t] = 1..Len(sends[t])
          /\ Len(sends[t]) \in Nat /\ \A i \in DOMAIN sends[t] : sends[t][i] \in Sent
      BY <1>1, TriesFinite
    <2>2. \A i \in 1..Len(sends[t]) : After(t, i, sends[t][i]) \in Sent
      BY <1>2, <2>1
    <2>3. sends'[t] \in Seq(Sent)
      BY <2>1, <2>2
    <2>4. QED
      BY <2>1, <2>3
  <1>4. sends' \in [Txns -> Seq(Sent)]
    BY <1>1, <1>3
  <1>5. QED
    BY <1>2, <1>3, <1>4

LEMMA ApiCrashKeeps == ASSUME NotifyInv, ApiCrash PROVE NotifyInv'
  <1>1. /\ NotifyTypeOK /\ faults' = faults + 1 /\ UNCHANGED <<job, due, dead>>
        /\ event' = [t \in Txns |-> IF event[t] = "adding" THEN "lost" ELSE event[t]]
    BY DEF NotifyInv, ApiCrash, Fault
  <1>2. PICK M \in SUBSET Txns : sends' = Killed("api", M)
    BY DEF ApiCrash
  <1>3. sends' \in [Txns -> Seq(Sent)]
    BY <1>1, <1>2, KilledFacts DEF Processes
  <1>4. faults' \in Nat /\ faults' # 0
    BY <1>1 DEF NotifyTypeOK
  <1>5. NotifyTypeOK'
    BY <1>1, <1>3, <1>4 DEF NotifyTypeOK
  <1>6. ASSUME NEW t \in Txns PROVE JobOK(t)'
    <2>1. /\ DOMAIN sends'[t] = DOMAIN sends[t]
          /\ \A i \in DOMAIN sends[t] :
               /\ sends'[t][i].by = sends[t][i].by
               /\ sends[t][i].by = "worker" /\ sends[t][i].at # "running" => sends'[t][i].at = sends[t][i].at
      BY <1>1, <1>2, KilledFacts DEF Processes
    <2>2. event'[t] = event[t] \/ (event[t] = "adding" /\ event'[t] = "lost")
      BY <1>1
    <2>3. QED
      BY <1>1, <1>4, <2>1, <2>2, SameJob
  <1>7. QED
    BY <1>5, <1>6 DEF NotifyInv

LEMMA WorkerCrashKeeps == ASSUME NotifyInv, WorkerCrash PROVE NotifyInv'
  <1>1. /\ NotifyTypeOK /\ faults' = faults + 1 /\ due' = {} /\ UNCHANGED <<event, dead>>
        /\ job' = [t \in Txns |-> IF t \in Active THEN [job[t] EXCEPT !.at = "waiting"] ELSE job[t]]
    BY DEF NotifyInv, WorkerCrash, Fault
  <1>2. PICK M \in SUBSET Txns : sends' = Killed("worker", M)
    BY DEF WorkerCrash
  <1>3. sends' \in [Txns -> Seq(Sent)]
    BY <1>1, <1>2, KilledFacts DEF Processes
  <1>4. faults' \in Nat /\ faults' # 0
    BY <1>1 DEF NotifyTypeOK
  <1>5. job' \in [Txns -> [at : {"none", "waiting", "active", "completed", "failed"}, made : Nat]]
    BY <1>1 DEF NotifyTypeOK
  <1>6. NotifyTypeOK'
    BY <1>1, <1>3, <1>4, <1>5 DEF NotifyTypeOK
  <1>7. ASSUME NEW t \in Txns
        PROVE  /\ DOMAIN sends'[t] = DOMAIN sends[t]
               /\ \A i \in DOMAIN sends[t] :
                    /\ sends'[t][i].by = sends[t][i].by
                    /\ Given(t, i) => Given(t, i)'
                    /\ sends[t][i].by = "worker" /\ sends[t][i].at = "running" => sends'[t][i].at = "killed"
                    /\ sends[t][i].at = "ok" =>
                         sends'[t][i].at = IF sends[t][i].by = "worker" /\ t \in Active /\ i = Current(t)
                                           THEN "killed" ELSE "ok"
    BY <1>1, <1>2, KilledFacts DEF Processes, Given
  <1>8. ASSUME NEW t \in Txns PROVE JobOK(t)'
    <2>1. JobOK(t)
      BY DEF NotifyInv
    <2>2. Tries(t)' = Tries(t) /\ \A i \in Tries(t) : Given(t, i) => Given(t, i)'
      BY <1>7 DEF Tries
    <2>3. /\ event'[t] \in {"none", "adding"} => job'[t].at = "none"
          /\ \A i \in DOMAIN sends'[t] : sends'[t][i].by = "api" =>
               event'[t] = "inProcess" /\ \A j \in DOMAIN sends'[t] : sends'[t][j].by = "api" => i = j
      <3>1. event'[t] = event[t] /\ (t \in Active => job[t].at = "active")
        BY <1>1 DEF Active
      <3>2. t \notin Active => job'[t] = job[t]
        BY <1>1
      <3>3. event'[t] \in {"none", "adding"} => job'[t].at = "none"
        BY <2>1, <3>1, <3>2 DEF JobOK
      <3>4. \A i \in DOMAIN sends[t] : sends[t][i].by = "api" =>
              event[t] = "inProcess" /\ \A j \in DOMAIN sends[t] : sends[t][j].by = "api" => i = j
        BY <2>1 DEF JobOK
      <3>5. QED
        BY <1>7, <3>1, <3>3, <3>4
    <2>4. CASE t \in Active
      <3>1. job[t].at = "active" /\ job'[t].at = "waiting" /\ job'[t].made = job[t].made
        BY <1>1, <2>4 DEF Active, NotifyTypeOK
      <3>2. PICK i \in Tries(t) : IsLast(t, i) /\ \A j \in Tries(t) \ {i} : Given(t, j)
        BY <2>1, <3>1 DEF JobOK
      <3>3. Current(t) = i
        BY <1>1, <3>2, CurrentIs
      <3>4. Given(t, i)'
        <4>1. sends[t][i] \in Sent /\ sends[t][i].by = "worker" /\ i \in DOMAIN sends[t]
          BY <1>1, TriesFinite DEF Tries
        <4>2. QED
          BY <1>7, <2>2, <2>4, <3>3, <4>1 DEF Sent, Given
      <3>5. \A j \in Tries(t)' : Given(t, j)'
        BY <2>2, <3>2, <3>4
      <3>6. Cardinality(Tries(t)') >= job'[t].made
        <4>1. Cardinality(Tries(t)) \in Nat /\ job[t].made \in Nat /\ Cardinality(Tries(t)) >= job[t].made + 1
          BY <1>1, <2>1, <3>1, TriesFinite DEF NotifyTypeOK, JobOK
        <4>2. QED
          BY <2>2, <3>1, <4>1
      <3>7. t \notin due' \cup dead'
        BY <1>1, <2>1, <3>1 DEF JobOK
      <3>8. QED
        BY <2>3, <3>1, <3>5, <3>6, <3>7 DEF JobOK
    <2>5. CASE t \notin Active
      <3>1. job'[t] = job[t] /\ job[t].at # "active"
        BY <1>1, <2>5 DEF Active
      <3>2. \A i : IsLast(t, i)' <=> IsLast(t, i)
        BY <2>2 DEF IsLast
      <3>3. Worked(t) => Worked(t)'
        BY <1>7, <2>5 DEF Worked
      <3>4. job'[t].at = "completed" =>
              \E i \in Tries(t)' : IsLast(t, i)' /\ \A j \in Tries(t)' \ {i} : Given(t, j)'
        BY <2>1, <2>2, <3>1, <3>2 DEF JobOK
      <3>5. job'[t].at \in {"none", "waiting", "failed"} =>
              (\A i \in Tries(t)' : Given(t, i)') /\ Cardinality(Tries(t)') >= job'[t].made
        BY <2>1, <2>2, <3>1 DEF JobOK
      <3>6. /\ job'[t].at = "failed" => job'[t].made >= Attempts
            /\ t \in due' \cup dead' => job'[t].at = "failed"
            /\ job'[t].at = "completed" => Worked(t)'
        BY <1>1, <2>1, <3>1, <3>3 DEF JobOK
      <3>7. QED
        BY <1>4, <2>3, <3>1, <3>4, <3>5, <3>6 DEF JobOK
    <2>6. QED
      BY <2>4, <2>5
  <1>9. QED
    BY <1>6, <1>8 DEF NotifyInv

LEMMA NotifyStep == NotifyInv /\ [NotifyNext]_notifyVars => NotifyInv'
  <1> SUFFICES ASSUME NotifyInv, [NotifyNext]_notifyVars PROVE NotifyInv'
    OBVIOUS
  <1>1. ASSUME NEW t \in Txns, NEW i \in DOMAIN sends[t],
               SendSucceeds(t, i) \/ SendFails(t, i) \/ SendTimesOut(t, i)
        PROVE  NotifyInv'
    BY <1>1, SendEndsKeeps DEF SendSucceeds, SendFails, SendTimesOut
  <1>2. ASSUME Work PROVE NotifyInv'
    BY <1>1, <1>2, AnnounceKeeps, AddKeeps, TakeKeeps, FinishKeeps, MoveKeeps DEF Work
  <1>3. CASE UNCHANGED notifyVars
    <2>1. NotifyTypeOK'
      BY <1>3 DEF notifyVars, NotifyInv, NotifyTypeOK
    <2>2. \A t \in Txns : JobOK(t)'
      BY <1>3, OtherJobs DEF notifyVars
    <2>3. QED
      BY <2>1, <2>2 DEF NotifyInv
  <1>4. QED
    BY <1>1, <1>2, <1>3, AddFailsKeeps, ApiCrashKeeps, WorkerCrashKeeps DEF NotifyNext, Rest

LEMMA NotifyInductive == NotifySpec => []NotifyInv
  <1>1. QED
    BY NotifyInitially, NotifyStep, PTL DEF NotifySpec

(* The breakers of the two processes.                                      *)
ProcessesTyped == redis \in BOOLEAN /\ breakers \in [Processes -> Breakers]

LEMMA AskingKeepsType ==
  ASSUME NEW b \in Breakers, NEW elapsed \in BOOLEAN
  PROVE  LET a == Asked(b, elapsed)
         IN  (IF Admits(a) THEN Admitted(a) ELSE a) \in Breakers
  <1>1. PICK a \in Breakers : a = Asked(b, elapsed)
    BY AskedEffect
  <1>2. ASSUME NEW x \in BOOLEAN PROVE [a EXCEPT !.probeInFlight = x] \in Breakers
    BY DEF Breakers
  <1>3. (a.probeInFlight \/ a.state = "HALF_OPEN") \in BOOLEAN
    OBVIOUS
  <1>4. Admitted(a) = [a EXCEPT !.probeInFlight = a.probeInFlight \/ a.state = "HALF_OPEN"]
    BY DEF Admitted, Breakers
  <1>5. QED
    BY <1>1, <1>2, <1>3, <1>4

LEMMA ProcessesStayTyped ==
  ASSUME NotifyInv, ProcessesTyped, [NotifyNext]_notifyVars
  PROVE  ProcessesTyped'
  <1>1. ASSUME NEW p \in Processes, NEW t \in Txns, Send(p, t) PROVE breakers' \in [Processes -> Breakers]
    BY <1>1, AskingKeepsType DEF Send, ProcessesTyped
  <1>2. ASSUME NEW t \in Txns, NEW i \in DOMAIN sends[t],
               SendSucceeds(t, i) \/ SendFails(t, i) \/ SendTimesOut(t, i)
        PROVE  breakers' \in [Processes -> Breakers]
    <2>1. sends[t][i].by \in Processes
      BY TriesFinite DEF NotifyInv, Sent
    <2>2. PICK b \in Breakers : breakers' = [breakers EXCEPT ![sends[t][i].by] = b]
      BY <1>2, <2>1, SuccessEffect, FailureEffect
         DEF SendSucceeds, SendFails, SendTimesOut, SendEnds, ProcessesTyped
    <2>3. QED
      BY <2>1, <2>2 DEF ProcessesTyped
  <1>3. Constructed \in Breakers
    BY BreakerAssumption DEF Constructed, Breakers
  <1>4. CASE ApiCrash \/ WorkerCrash
    BY <1>3, <1>4 DEF ApiCrash, WorkerCrash, ProcessesTyped
  <1>5. ASSUME NEW t \in Txns,
               Announce(t) \/ AddArrives(t) \/ AddFails(t) \/ Take(t) \/ FinishWell(t) \/ FinishBadly(t) \/ MoveToDlq(t)
        PROVE  breakers' \in [Processes -> Breakers]
    BY <1>1, <1>5 DEF Announce, AddArrives, Add, AddFails, Take, FinishWell, FinishBadly, MoveToDlq,
                      Processes, ProcessesTyped
  <1>6. ASSUME Work PROVE breakers' \in [Processes -> Breakers]
    BY <1>2, <1>5, <1>6 DEF Work
  <1>7. CASE UNCHANGED notifyVars
    BY <1>7 DEF notifyVars, ProcessesTyped
  <1>8. redis' = redis
    BY DEF NotifyNext, Work, Announce, AddArrives, Add, AddFails, Take, FinishWell, FinishBadly, MoveToDlq,
           SendSucceeds, SendFails, SendTimesOut, SendEnds, ApiCrash, WorkerCrash, Rest, notifyVars
  <1>9. QED
    BY <1>2, <1>4, <1>5, <1>6, <1>7, <1>8 DEF NotifyNext, Rest, ProcessesTyped

(* Type correctness of Notifications.                                      *)
THEOREM NotificationTypeCorrect == NotifySpec => [](NotifyTypeOK /\ ProcessesTyped)
  <1>1. NotifyInit => ProcessesTyped
    BY BreakerAssumption DEF NotifyInit, ProcessesTyped, Constructed, Breakers
  <1>2. NotifyInv => NotifyTypeOK
    BY DEF NotifyInv
  <1>3. QED
    BY <1>1, <1>2, NotifyInductive, ProcessesStayTyped, PTL DEF NotifySpec

(* Whatever the queue, the processes and SMTP do, a receiver is told twice *)
(* only after a send that was not known to have worked, or because an add  *)
(* failed whose job Redis had taken (notificationQueue.js:85).             *)
THEOREM TwiceOnlyAfterDoubt == NotifySpec => []DuplicatesExplained
  <1>1. ASSUME NotifyInv PROVE DuplicatesExplained
    <2> SUFFICES ASSUME NEW t \in Txns, NEW i \in DOMAIN sends[t], NEW j \in DOMAIN sends[t], i < j,
                        sends[t][i].by = sends[t][j].by
                 PROVE  sends[t][i].at \in {"failed", "killed"}
      BY DEF DuplicatesExplained
    <2>1. JobOK(t) /\ NotifyTypeOK
      BY <1>1 DEF NotifyInv
    <2>2. sends[t][i] \in Sent /\ i \in Nat /\ j \in Nat /\ i # j
      BY <2>1, TriesFinite
    <2>3. sends[t][i].by # "api"
      BY <2>1, <2>2 DEF JobOK
    <2>4. i \in Tries(t) /\ j \in Tries(t)
      BY <2>2, <2>3 DEF Sent, Processes, Tries
    <2>5. job[t].at \in {"none", "waiting", "active", "completed", "failed"}
      BY <2>1 DEF NotifyTypeOK
    <2>6. CASE job[t].at \in {"none", "waiting", "failed"}
      BY <2>1, <2>4, <2>6 DEF JobOK, Given
    <2>7. CASE job[t].at \in {"active", "completed"}
      <3>1. PICK k \in Tries(t) : IsLast(t, k) /\ \A m \in Tries(t) \ {k} : Given(t, m)
        BY <2>1, <2>7 DEF JobOK
      <3>2. i # k
        BY <2>2, <2>4, <3>1 DEF IsLast
      <3>3. QED
        BY <2>4, <3>1, <3>2 DEF Given
    <2>8. QED
      BY <2>5, <2>6, <2>7
  <1>2. QED
    BY <1>1, NotifyInductive, PTL

(* For any number of attempts and of faults: completed means that SMTP     *)
(* took the mail, dead-lettered that all the attempts failed, and a job    *)
(* that failed for good is dead-lettered unless something else went wrong  *)
(* (notificationWorker.js:39-55).                                          *)
THEOREM OutcomesStayHonest == NotifySpec => []OutcomesAreHonest
  <1>1. ASSUME NotifyInv PROVE OutcomesAreHonest
    <2> SUFFICES ASSUME NEW t \in Txns
                 PROVE  /\ job[t].at = "completed" => Worked(t)
                        /\ t \in due \cup dead =>
                             job[t].at = "failed" /\ ~Worked(t) /\ Cardinality(Unworked(t)) >= Attempts
                        /\ job[t].at = "failed" /\ faults = 0 => t \in due \cup dead
      BY DEF OutcomesAreHonest
    <2>1. JobOK(t) /\ NotifyTypeOK
      BY <1>1 DEF NotifyInv
    <2>2. ASSUME t \in due \cup dead
          PROVE  job[t].at = "failed" /\ ~Worked(t) /\ Cardinality(Unworked(t)) >= Attempts
      <3>1. job[t].at = "failed"
        BY <2>1, <2>2 DEF JobOK
      <3>2. (\A i \in Tries(t) : Given(t, i)) /\ Cardinality(Tries(t)) >= job[t].made /\ job[t].made >= Attempts
        BY <2>1, <3>1 DEF JobOK
      <3>3. Unworked(t) = Tries(t)
        BY <3>2 DEF Unworked, Tries, Given
      <3>4. ~Worked(t)
        BY <3>2 DEF Worked, Tries, Given
      <3>5. Cardinality(Tries(t)) \in Nat /\ job[t].made \in Nat /\ Attempts \in Nat
        BY <2>1, TriesFinite, NotificationAssumption DEF NotifyTypeOK
      <3>6. QED
        BY <3>1, <3>2, <3>3, <3>4, <3>5
    <2>3. QED
      BY <2>1, <2>2 DEF JobOK
  <1>2. QED
    BY <1>1, NotifyInductive, PTL
==============================================================================
