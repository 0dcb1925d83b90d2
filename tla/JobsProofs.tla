------------------------------- MODULE JobsProofs ------------------------------
(*****************************************************************************)
(* What runs without a request: the autopay worker, for any mandates, runs   *)
(* and calls of their owners, any horizon and any number of faults; the      *)
(* calendar it goes by, for any years; and the migration script, for any     *)
(* documents of before the ledger and any number of runs and deaths.         *)
(*****************************************************************************)
EXTENDS RecurringPayments, Calendar, Migration, Sums

USE RecurringAssumption

Works == [at : {"idle", "loop", "charged", "duplicate", "refused", "unsaved"},
          cur : Mandates \cup {NoMandate}, due : SUBSET Mandates, copy : [Mandates -> Documents]]

Loaded == [at : {"loaded", "done"}, op : {"pause", "resume", "cancel"}, of : Mandates, copy : Documents]

Shapes ==
  /\ today \in 0..Horizon
  /\ mandate \in [Mandates -> Documents]
  /\ charges \in [Mandates -> [Keys -> Nat]]
  /\ tick \in [Ticks -> Works]
  /\ edit \in [Edits -> Loaded \cup {NoEdit}]
  /\ faults \in 0..MaxFaults

(* A run is at a mandate that it found due, in an interval that has come.  *)
TickOK(t) ==
  /\ tick[t].at \in {"idle", "loop"} => tick[t].cur = NoMandate
  /\ tick[t].at \notin {"idle", "loop"} => tick[t].cur \in tick[t].due
  /\ \A m \in tick[t].due : tick[t].copy[m].nextRunAt \in Keys

(* A call is let through for what its copy says.                           *)
EditOK(e) == edit[e] # NoEdit => Allowed(edit[e].op, edit[e].copy.status)

(* The inductive invariant.                                                *)
IInv ==
  /\ Shapes
  /\ \A t \in Ticks : TickOK(t)
  /\ \A e \in Edits : EditOK(e)
  /\ ChargedOncePerPeriod

-------------------------------------------------------------------------------
(* It holds initially: nothing has been created, charged or started.       *)
LEMMA InitIInv == Init => IInv
  <1> SUFFICES ASSUME Init PROVE IInv
    OBVIOUS
  <1>1. None \in Documents
    BY DEF None, Documents
  <1>2. Shapes
    BY <1>1 DEF Init, Shapes, Works, NoTick
  <1>3. \A t \in Ticks : TickOK(t)
    BY DEF Init, TickOK, NoTick
  <1>4. \A e \in Edits : EditOK(e)
    BY DEF Init, EditOK
  <1>5. ChargedOncePerPeriod
    BY DEF Init, ChargedOncePerPeriod
  <1>6. QED
    BY <1>2, <1>3, <1>4, <1>5 DEF IInv

(* A run that is abandoned or has ended is as it was before it started.    *)
LEMMA NoTickWorks == NoTick \in Works /\ NoTick.due = {} /\ NoTick.cur = NoMandate /\ NoTick.at = "idle"
  <1>1. None \in Documents
    BY DEF None, Documents
  <1>2. QED
    BY <1>1 DEF NoTick, Works

(* A run that moves to another state of the same mandate.                  *)
LEMMA OutcomeTick ==
  ASSUME IInv, NEW t \in Ticks, NEW m \in tick[t].due, NEW at \in {"charged", "duplicate", "refused"},
         Outcome(t, m, at)
  PROVE  tick' \in [Ticks -> Works] /\ \A u \in Ticks : TickOK(u)'
  <1> USE DEF IInv, Shapes
  <1>1. tick[t] \in Works
    OBVIOUS
  <1>2. /\ tick' = [tick EXCEPT ![t] = [tick[t] EXCEPT !.at = at, !.cur = m]]
        /\ [tick[t] EXCEPT !.at = at, !.cur = m] \in Works
    BY <1>1 DEF Outcome, Works
  <1>3. TickOK(t)'
    BY <1>1, <1>2 DEF TickOK, Works
  <1>4. \A u \in Ticks \ {t} : TickOK(u)'
    BY <1>2 DEF TickOK
  <1>5. QED
    BY <1>2, <1>3, <1>4

(* Saving a document that has its type keeps the invariant.                *)
LEMMA SavedIInv ==
  ASSUME IInv, NEW t \in Ticks, tick[t].at \notin {"idle", "loop"}, NEW doc \in Documents, Saved(t, doc)
  PROVE  IInv'
  <1> DEFINE due == tick[t].due \ {tick[t].cur}
             next == IF due = {} THEN NoTick
                     ELSE [tick[t] EXCEPT !.at = "loop", !.cur = NoMandate, !.due = due]
  <1> USE DEF IInv, Shapes
  <1>1. tick[t] \in Works /\ TickOK(t) /\ tick[t].cur \in Mandates
    BY DEF TickOK, Works
  <1>2. tick' = [tick EXCEPT ![t] = next]
    BY DEF Saved
  <1>3. next \in Works /\ next.at \in {"idle", "loop"} /\ next.cur = NoMandate
    BY <1>1, NoTickWorks DEF Works
  <1>4. \A m \in next.due : next.copy[m].nextRunAt \in Keys
    BY <1>1, NoTickWorks DEF Works, TickOK
  <1>5. \A u \in Ticks : TickOK(u)'
    BY <1>2, <1>3, <1>4 DEF TickOK
  <1>6. Shapes'
    BY <1>1, <1>2, <1>3 DEF Saved
  <1>7. (\A e \in Edits : EditOK(e))' /\ ChargedOncePerPeriod'
    BY DEF Saved, EditOK, ChargedOncePerPeriod
  <1>8. QED
    BY <1>5, <1>6, <1>7

(* What a run that saves has in its hands.                                 *)
LEMMA AtWork ==
  ASSUME IInv, NEW t \in Ticks, tick[t].at \notin {"idle", "loop"}
  PROVE  /\ tick[t].cur \in Mandates
         /\ mandate[tick[t].cur] \in Documents
         /\ tick[t].copy[tick[t].cur] \in Documents
         /\ tick[t].copy[tick[t].cur].nextRunAt \in 0..Horizon
BY DEF IInv, Shapes, TickOK, Works, Keys

(* The fields that are set leave a document.                               *)
LEMMA Updates ==
  ASSUME NEW doc \in Documents, NEW s \in {"ACTIVE", "PAUSED", "CANCELLED", "FAILED"},
         NEW n \in 0..Horizon + 2, NEW r \in Nat, NEW f \in Nat
  PROVE  /\ [doc EXCEPT !.status = s] \in Documents
         /\ [doc EXCEPT !.nextRunAt = n] \in Documents
         /\ [doc EXCEPT !.status = s, !.nextRunAt = n] \in Documents
         /\ [doc EXCEPT !.runCount = r, !.nextRunAt = n] \in Documents
         /\ [doc EXCEPT !.nextRunAt = n, !.runCount = r, !.failureCount = f] \in Documents
         /\ [doc EXCEPT !.failureCount = f, !.status = s] \in Documents
         /\ [doc EXCEPT !.failureCount = f, !.nextRunAt = n] \in Documents
         /\ [doc EXCEPT !.status = s, !.failureCount = f, !.nextRunAt = n] \in Documents
BY DEF Documents

(* A failure that is counted leaves a document.                            *)
LEMMA FailedDocument ==
  ASSUME NEW doc \in Documents, NEW n \in 0..Horizon + 1, NEW f \in Nat
  PROVE  Failed(doc, n, f) \in Documents
  <1>1. n + 1 \in 0..Horizon + 2
    OBVIOUS
  <1>2. /\ [doc EXCEPT !.failureCount = f, !.status = "FAILED"] \in Documents
        /\ [doc EXCEPT !.failureCount = f, !.nextRunAt = n + 1] \in Documents
    BY <1>1, Updates
  <1>3. QED
    BY <1>2 DEF Failed
-------------------------------------------------------------------------------
(* Every step of the runs, the owners and the clock preserves it.          *)
LEMMA NextIInv == IInv /\ [Next]_vars => IInv'
  <1> SUFFICES ASSUME IInv, [Next]_vars PROVE IInv'
    OBVIOUS
  <1>1. CASE TimePasses
    BY <1>1 DEF TimePasses, IInv, Shapes, TickOK, EditOK, ChargedOncePerPeriod
  <1>2. ASSUME NEW m \in Mandates, CreateMandate(m) PROVE IInv'
    <2>1. PICK first \in today..Horizon :
            mandate' = [mandate EXCEPT ![m] = [mandate[m] EXCEPT !.status = "ACTIVE", !.nextRunAt = first]]
      BY <1>2 DEF CreateMandate, IInv, Shapes, Documents
    <2>2. mandate[m] \in Documents /\ first \in 0..Horizon + 2
      BY DEF IInv, Shapes
    <2>3. [mandate[m] EXCEPT !.status = "ACTIVE", !.nextRunAt = first] \in Documents
      BY <2>2, Updates
    <2>4. mandate' \in [Mandates -> Documents]
      BY <2>1, <2>3 DEF IInv, Shapes
    <2>5. QED
      BY <1>2, <2>4 DEF CreateMandate, IInv, Shapes, TickOK, EditOK, ChargedOncePerPeriod
  <1>3. ASSUME NEW t \in Ticks, FindDue(t) PROVE IInv'
    <2> DEFINE new == [at |-> "loop", cur |-> NoMandate, due |-> Due, copy |-> mandate]
    <2> USE DEF IInv, Shapes
    <2>1. new \in Works
      BY DEF Works, Due
    <2>2. \A m \in Due : mandate[m].nextRunAt \in Keys
      BY DEF Due, Documents, Keys
    <2>3. tick' \in [Ticks -> Works]
      BY <1>3, <2>1 DEF FindDue
    <2>4. \A u \in Ticks : TickOK(u)'
      BY <1>3, <2>2 DEF FindDue, TickOK
    <2>5. QED
      BY <1>3, <2>3, <2>4 DEF FindDue, EditOK, ChargedOncePerPeriod
  <1>4. ASSUME NEW t \in Ticks, Charge(t) PROVE IInv'
    <2> USE DEF IInv, Shapes
    <2>1. PICK m \in tick[t].due :
            IF charges[m][Key(t, m)] = 0
            THEN /\ charges' = [charges EXCEPT ![m][Key(t, m)] = 1]
                 /\ \E at \in {"charged", "refused"} : Outcome(t, m, at)
            ELSE Outcome(t, m, "duplicate") /\ UNCHANGED charges
      BY <1>4 DEF Charge
    <2>2. m \in Mandates /\ Key(t, m) \in Keys
      BY DEF TickOK, Key, Works
    <2>3. charges' \in [Mandates -> [Keys -> Nat]] /\ ChargedOncePerPeriod'
      <3>1. CASE charges[m][Key(t, m)] = 0
        <4>1. charges' = [charges EXCEPT ![m] = [charges[m] EXCEPT ![Key(t, m)] = 1]]
          BY <2>1, <3>1
        <4>2. [charges[m] EXCEPT ![Key(t, m)] = 1] \in [Keys -> Nat]
          BY <2>2
        <4>3. \A k \in Keys : [charges[m] EXCEPT ![Key(t, m)] = 1][k] <= 1
          BY <2>2 DEF ChargedOncePerPeriod
        <4>4. QED
          BY <2>2, <4>1, <4>2, <4>3 DEF ChargedOncePerPeriod
      <3>2. CASE charges[m][Key(t, m)] # 0
        BY <2>1, <3>2 DEF ChargedOncePerPeriod
      <3>3. QED
        BY <3>1, <3>2
    <2>4. tick' \in [Ticks -> Works] /\ \A u \in Ticks : TickOK(u)'
      BY <2>1, OutcomeTick
    <2>5. QED
      BY <1>4, <2>3, <2>4 DEF Charge, EditOK
  <1>5. ASSUME NEW t \in Ticks, Refuse(t) PROVE IInv'
    <2>1. tick' \in [Ticks -> Works] /\ \A u \in Ticks : TickOK(u)'
      BY <1>5, OutcomeTick DEF Refuse
    <2>2. QED
      BY <1>5, <2>1 DEF Refuse, IInv, Shapes, EditOK, ChargedOncePerPeriod
  <1>6. ASSUME NEW t \in Ticks, SaveRun(t) PROVE IInv'
    <2> DEFINE m == tick[t].cur
               copy == tick[t].copy[m]
               doc == [mandate[m] EXCEPT !.nextRunAt = copy.nextRunAt + 1,
                                         !.runCount = copy.runCount + 1,
                                         !.failureCount = IF copy.failureCount = 0 THEN @ ELSE 0]
    <2>1. tick[t].at \notin {"idle", "loop"} /\ Saved(t, doc)
      BY <1>6 DEF SaveRun
    <2>2. doc \in Documents
      <3> DEFINE f == IF copy.failureCount = 0 THEN mandate[m].failureCount ELSE 0
      <3>0. mandate[m] \in Documents /\ copy \in Documents /\ copy.nextRunAt \in 0..Horizon
        BY <2>1, AtWork
      <3>1. mandate[m] \in Documents /\ f \in Nat /\ copy.nextRunAt + 1 \in 0..Horizon + 2
                /\ copy.runCount + 1 \in Nat
        <4>1. mandate[m].failureCount \in Nat /\ copy.runCount \in Nat
          BY <3>0 DEF Documents
        <4> HIDE DEF copy, m
        <4>2. f \in Nat
          BY <4>1
        <4>3. QED
          BY <3>0, <4>1, <4>2
      <3>2. [mandate[m] EXCEPT !.nextRunAt = copy.nextRunAt + 1, !.runCount = copy.runCount + 1,
                               !.failureCount = f] \in Documents
        BY <3>1, Updates
      <3>3. QED
        BY <3>2
    <2>3. QED
      BY <2>1, <2>2, SavedIInv
  <1>7. ASSUME NEW t \in Ticks, SaveDuplicate(t) PROVE IInv'
    <2> DEFINE doc == [mandate[tick[t].cur] EXCEPT !.nextRunAt = Key(t, tick[t].cur) + 1]
    <2>1. tick[t].at \notin {"idle", "loop"} /\ Saved(t, doc)
      BY <1>7 DEF SaveDuplicate
    <2>2. mandate[tick[t].cur] \in Documents /\ Key(t, tick[t].cur) + 1 \in 0..Horizon + 2
      BY <2>1, AtWork DEF Key
    <2>3. doc \in Documents
      BY <2>2, Updates
    <2>4. QED
      BY <2>1, <2>3, SavedIInv
  <1>8. ASSUME NEW t \in Ticks, SaveFailure(t) PROVE IInv'
    <2> DEFINE m == tick[t].cur
               copy == tick[t].copy[m]
               doc == Failed(mandate[m], copy.nextRunAt, copy.failureCount + 1)
    <2>1. tick[t].at \notin {"idle", "loop"} /\ Saved(t, doc)
      BY <1>8 DEF SaveFailure
    <2>2. copy.nextRunAt \in 0..Horizon + 1 /\ copy.failureCount + 1 \in Nat /\ mandate[m] \in Documents
      <3>1. mandate[m] \in Documents /\ copy \in Documents /\ copy.nextRunAt \in 0..Horizon
        BY <2>1, AtWork
      <3>2. copy.failureCount \in Nat
        BY <3>1 DEF Documents
      <3>3. QED
        BY <3>1, <3>2
    <2>3. doc \in Documents
      BY <2>2, FailedDocument
    <2>4. QED
      BY <2>1, <2>3, SavedIInv
  <1>9. ASSUME NEW t \in Ticks, SaveUnsaved(t) PROVE IInv'
    <2> DEFINE m == tick[t].cur
               copy == tick[t].copy[m]
               ran == [mandate[m] EXCEPT !.runCount = copy.runCount + 1, !.nextRunAt = copy.nextRunAt + 1]
               doc == Failed(ran, copy.nextRunAt + 1, 1)
    <2>1. tick[t].at \notin {"idle", "loop"} /\ Saved(t, doc)
      BY <1>9 DEF SaveUnsaved
    <2>2. copy.nextRunAt + 1 \in 0..Horizon + 1 /\ ran \in Documents
      <3>1. mandate[m] \in Documents /\ copy \in Documents /\ copy.nextRunAt \in 0..Horizon
        BY <2>1, AtWork
      <3>2. copy.runCount \in Nat
        BY <3>1 DEF Documents
      <3> HIDE DEF copy, m
      <3>3. copy.nextRunAt + 1 \in 0..Horizon + 2 /\ copy.nextRunAt + 1 \in 0..Horizon + 1
            /\ copy.runCount + 1 \in Nat
        BY <3>1, <3>2
      <3>4. QED
        BY <3>1, <3>3, Updates DEF m
    <2>3. doc \in Documents
      BY <2>2, FailedDocument
    <2>4. QED
      BY <2>1, <2>3, SavedIInv
  <1>10. ASSUME NEW t \in Ticks, SaveFails(t) PROVE IInv'
    <2> USE DEF IInv, Shapes
    <2>1. tick' = [tick EXCEPT ![t].at = "unsaved"] /\ tick[t].at = "charged" /\ faults' \in 0..MaxFaults
      BY <1>10 DEF SaveFails, Fault
    <2>2. tick' \in [Ticks -> Works]
      <3>1. tick[t] \in Works
        OBVIOUS
      <3>2. [tick[t] EXCEPT !.at = "unsaved"] \in Works
        BY <3>1 DEF Works
      <3>3. QED
        BY <2>1, <3>2
    <2>3. \A u \in Ticks : TickOK(u)'
      BY <2>1 DEF TickOK, Works
    <2>4. QED
      BY <1>10, <2>1, <2>2, <2>3 DEF SaveFails, EditOK, ChargedOncePerPeriod
  <1>11. ASSUME NEW t \in Ticks, Abandon(t) PROVE IInv'
    <2> USE DEF IInv, Shapes
    <2>1. tick' = [tick EXCEPT ![t] = NoTick] /\ faults' \in 0..MaxFaults
      BY <1>11 DEF Abandon, Fault
    <2>2. tick' \in [Ticks -> Works] /\ \A u \in Ticks : TickOK(u)'
      BY <2>1, NoTickWorks DEF TickOK
    <2>3. QED
      BY <1>11, <2>1, <2>2 DEF Abandon, EditOK, ChargedOncePerPeriod
  <1>12. ASSUME NEW e \in Edits, LoadOwnMandate(e) PROVE IInv'
    <2> USE DEF IInv, Shapes
    <2>1. PICK m \in Mandates, op \in {"pause", "resume", "cancel"} :
            /\ Allowed(op, mandate[m].status)
            /\ edit' = [edit EXCEPT ![e] = [at |-> "loaded", op |-> op, of |-> m, copy |-> mandate[m]]]
      BY <1>12 DEF LoadOwnMandate
    <2>2. edit' \in [Edits -> Loaded \cup {NoEdit}]
      BY <2>1 DEF Loaded
    <2>3. \A d \in Edits : EditOK(d)'
      BY <2>1 DEF EditOK
    <2>4. QED
      BY <1>12, <2>2, <2>3 DEF LoadOwnMandate, TickOK, ChargedOncePerPeriod
  <1>13. ASSUME NEW e \in Edits, SaveEdit(e) PROVE IInv'
    <2> USE DEF IInv, Shapes
    <2>1. edit[e] \in Loaded
      BY <1>13 DEF SaveEdit, NoEdit
    <2>2. edit[e].of \in Mandates /\ edit[e].copy \in Documents
      BY <2>1 DEF Loaded
    <2>3. Resumed(mandate[edit[e].of], edit[e].copy) \in Documents
      <3> DEFINE doc == mandate[edit[e].of]
                 copy == edit[e].copy
                 f == IF copy.failureCount = 0 THEN doc.failureCount ELSE 0
                 n == IF copy.nextRunAt <= today THEN today + 1 ELSE doc.nextRunAt
      <3>1. doc \in Documents /\ f \in Nat
        BY <2>2 DEF Documents
      <3>2. n \in 0..Horizon + 2
        BY <3>1 DEF Documents
      <3>3. [doc EXCEPT !.status = "ACTIVE", !.failureCount = f, !.nextRunAt = n] \in Documents
        <4> HIDE DEF doc, n, f
        <4>1. QED
          BY <3>1, <3>2, Updates
      <3>4. QED
        BY <3>3 DEF Resumed
    <2>4. mandate' \in [Mandates -> Documents]
      BY <1>13, <2>2, <2>3 DEF SaveEdit, Documents
    <2>5. edit' = [edit EXCEPT ![e].at = "done"]
      BY <1>13 DEF SaveEdit
    <2>6. edit' \in [Edits -> Loaded \cup {NoEdit}]
      BY <2>1, <2>5 DEF Loaded
    <2>7. EditOK(e)
      OBVIOUS
    <2>8. EditOK(e)'
      BY <2>1, <2>5, <2>7 DEF EditOK, Loaded, NoEdit
    <2>9. \A d \in Edits \ {e} : EditOK(d)'
      BY <2>5 DEF EditOK
    <2>10. QED
      BY <1>13, <2>4, <2>6, <2>8, <2>9 DEF SaveEdit, TickOK, ChargedOncePerPeriod
  <1>14. CASE UNCHANGED vars
    BY <1>14 DEF vars, IInv, Shapes, TickOK, EditOK, ChargedOncePerPeriod
  <1>15. QED
    BY <1>1, <1>2, <1>3, <1>4, <1>5, <1>6, <1>7, <1>8, <1>9, <1>10, <1>11, <1>12, <1>13, <1>14
       DEF Next, Run, Quiet

(* The inductive invariant holds of every behaviour.                       *)
LEMMA InductiveInvariant == Spec => []IInv
BY InitIInv, NextIInv, PTL DEF Spec

-------------------------------------------------------------------------------
(* Every variable keeps its type (models/RecurringPayment.js and the runs  *)
(* of recurringWorker.js): no run moves a mandate more than two intervals  *)
(* past the last one that has come.                                        *)
THEOREM RecurringTypeCorrect == Spec => []TypeOK
  <1>1. IInv => TypeOK
    <2> SUFFICES ASSUME IInv PROVE TypeOK
      OBVIOUS
    <2>1. \A e \in Edits : edit[e] = NoEdit \/ edit[e].copy \in Documents
      BY DEF IInv, Shapes, Loaded
    <2>2. ASSUME NEW t \in Ticks
          PROVE  /\ tick[t].at \in {"idle", "loop", "charged", "duplicate", "refused", "unsaved"}
                 /\ tick[t].due \subseteq Mandates
                 /\ tick[t].cur \in tick[t].due \cup {NoMandate}
                 /\ tick[t].copy \in [Mandates -> Documents]
      BY DEF IInv, Shapes, TickOK, Works
    <2>3. QED
      BY <2>1, <2>2 DEF IInv, Shapes, TypeOK
  <1>2. QED
    BY <1>1, InductiveInvariant, PTL

(* However many runs overlap, crash and start over, no period of a mandate *)
(* is charged twice.                                                       *)
THEOREM NeverChargedTwice == Spec => []ChargedOncePerPeriod
  <1>1. IInv => ChargedOncePerPeriod
    BY DEF IInv
  <1>2. QED
    BY <1>1, InductiveInvariant, PTL

(* Only a call or a failed run that had loaded a mandate before it was     *)
(* cancelled can bring it back.                                            *)
THEOREM OnlyLateWriters == Spec => OnlyLateWritersRevive
  <1> DEFINE Revive ==
        \A m \in Mandates :
          mandate[m].status = "CANCELLED" /\ mandate'[m].status # "CANCELLED" =>
            \/ \E e \in Edits : edit[e].at = "loaded" /\ edit'[e].at = "done" /\ edit[e].of = m
                                  /\ edit[e].copy.status # "CANCELLED"
            \/ \E t \in Ticks : tick[t].cur = m /\ tick'[t].cur = NoMandate
                                  /\ tick[t].at \in {"refused", "unsaved"}
  <1>1. IInv /\ [Next]_vars => [Revive]_vars
    <2> SUFFICES ASSUME IInv, Next, NEW m \in Mandates,
                        mandate[m].status = "CANCELLED", mandate'[m].status # "CANCELLED"
                 PROVE
                 \/ \E e \in Edits : edit[e].at = "loaded" /\ edit'[e].at = "done" /\ edit[e].of = m
                                       /\ edit[e].copy.status # "CANCELLED"
                 \/ \E t \in Ticks : tick[t].cur = m /\ tick'[t].cur = NoMandate
                                       /\ tick[t].at \in {"refused", "unsaved"}
      OBVIOUS
    <2> DEFINE ByEdit(e) == edit[e].at = "loaded" /\ edit'[e].at = "done" /\ edit[e].of = m
                              /\ edit[e].copy.status # "CANCELLED"
               ByTick(t) == tick[t].cur = m /\ tick'[t].cur = NoMandate
                              /\ tick[t].at \in {"refused", "unsaved"}
    <2> USE DEF IInv, Shapes
    <2>1. mandate \in [Mandates -> Documents] /\ mandate[m] \in Documents
      OBVIOUS
    <2>2. ASSUME NEW t \in Ticks, tick[t].at \in {"refused", "unsaved"}, NEW doc, Saved(t, doc)
          PROVE  ByTick(t)
      <3>1. tick[t] \in Works
        OBVIOUS
      <3>2. tick'[t].cur = NoMandate
        BY <2>2, <3>1, NoTickWorks DEF Saved, Works
      <3>3. tick[t].cur = m
        BY <2>1, <2>2 DEF Saved
      <3>4. QED
        BY <2>2, <3>2, <3>3
    <2>3. ASSUME NEW t \in Ticks, tick[t].at \in {"charged", "duplicate"}, NEW doc, Saved(t, doc),
                 doc.status = mandate[tick[t].cur].status
          PROVE  FALSE
      <3>1. tick[t].cur \in Mandates
        BY <2>3, AtWork
      <3>2. QED
        BY <2>1, <2>3, <3>1 DEF Saved
    <2>4. ASSUME NEW e \in Edits, SaveEdit(e) PROVE ByEdit(e)
      <3>1. edit[e] \in Loaded /\ EditOK(e) /\ edit[e] # NoEdit
        BY <2>4 DEF SaveEdit, NoEdit
      <3>2. Allowed(edit[e].op, edit[e].copy.status)
        BY <3>1 DEF EditOK
      <3>3. edit'[e].at = "done" /\ edit[e].at = "loaded"
        BY <2>4, <3>1 DEF SaveEdit, Loaded
      <3>4. edit[e].of = m /\ edit[e].op # "cancel"
        BY <2>1, <2>4, <3>1 DEF SaveEdit, Loaded, Documents
      <3>5. edit[e].copy.status # "CANCELLED"
        BY <3>2, <3>4 DEF Allowed
      <3>6. QED
        BY <3>3, <3>4, <3>5
    <2>5. ASSUME NEW t \in Ticks, SaveRun(t) PROVE FALSE
      BY <2>3, <2>5, AtWork DEF SaveRun, Documents
    <2>6. ASSUME NEW t \in Ticks, SaveDuplicate(t) PROVE FALSE
      BY <2>3, <2>6, AtWork DEF SaveDuplicate, Documents
    <2>7. ASSUME NEW t \in Ticks, SaveFailure(t) \/ SaveUnsaved(t) PROVE ByTick(t)
      BY <2>2, <2>7 DEF SaveFailure, SaveUnsaved
    <2>8. ASSUME NEW n \in Mandates, CreateMandate(n) PROVE FALSE
      BY <2>1, <2>8 DEF CreateMandate, Documents
    <2>9. ASSUME NEW t \in Ticks, FindDue(t) \/ Charge(t) \/ Refuse(t) \/ SaveFails(t) \/ Abandon(t)
          PROVE  FALSE
      BY <2>9 DEF FindDue, Charge, Refuse, SaveFails, Abandon
    <2>10. ASSUME TimePasses \/ Quiet PROVE FALSE
      BY <2>10 DEF TimePasses, Quiet, vars
    <2>11. ASSUME NEW e \in Edits, LoadOwnMandate(e) PROVE FALSE
      BY <2>11 DEF LoadOwnMandate
    <2>12. QED
      BY <2>4, <2>5, <2>6, <2>7, <2>8, <2>9, <2>10, <2>11 DEF Next, Run
  <1>2. QED
    BY <1>1, InductiveInvariant, PTL DEF Spec, OnlyLateWritersRevive

(* For any mandates, runs and interleavings: a run moves a mandate on past *)
(* the period it tried and no further, unless the save after its charge    *)
(* has failed (recurringWorker.js:44, :68).                                *)
THEOREM OnlyFailedSaves == Spec => OnlyFailedSavesSkip
  <1> DEFINE Skips(t) == LET m == tick[t].cur IN
               /\ m # NoMandate /\ tick'[t].cur = NoMandate
               /\ mandate'[m].nextRunAt # mandate[m].nextRunAt /\ mandate'[m].nextRunAt > Key(t, m) + 1
  <1>1. IInv /\ [Next]_vars => [\A t \in Ticks : Skips(t) => tick[t].at = "unsaved"]_vars
    <2> SUFFICES ASSUME IInv, Next, NEW t \in Ticks, Skips(t) PROVE tick[t].at = "unsaved"
      OBVIOUS
    <2> DEFINE m == tick[t].cur
               next == tick[t].copy[m].nextRunAt + 1
    <2>1. /\ mandate \in [Mandates -> Documents] /\ tick \in [Ticks -> Works] /\ TickOK(t)
          /\ tick'[t].cur # m /\ tick[t].at \notin {"idle", "loop"}
      BY DEF IInv, Shapes, TickOK
    <2>2. m \in Mandates /\ mandate[m] \in Documents /\ next \in Nat
      BY <2>1, AtWork
    <2>3. mandate'[m].nextRunAt # mandate[m].nextRunAt /\ mandate'[m].nextRunAt # next
      <3>1. mandate'[m].nextRunAt \in Nat
        BY <2>2, NextIInv DEF IInv, Shapes, Documents
      <3> QED BY <2>2, <3>1 DEF Key
    <2>4. ASSUME NEW u \in Ticks, NEW doc, Saved(u, doc) PROVE u = t /\ mandate'[m] = doc
      BY <2>1, <2>2, <2>4 DEF Saved
    <2>5. ASSUME NEW u \in Ticks, SaveRun(u) PROVE FALSE
      <3> DEFINE doc == [mandate[m] EXCEPT !.nextRunAt = tick[t].copy[m].nextRunAt + 1,
                           !.runCount = tick[t].copy[m].runCount + 1,
                           !.failureCount = IF tick[t].copy[m].failureCount = 0 THEN @ ELSE 0]
      <3>1. u = t
        BY <2>4, <2>5 DEF SaveRun
      <3>2. mandate'[m] = doc
        BY <2>4, <2>5, <3>1 DEF SaveRun
      <3>3. doc.nextRunAt = next
        BY <2>2 DEF Documents
      <3> QED BY <2>3, <3>2, <3>3
    <2>6. ASSUME NEW u \in Ticks, SaveDuplicate(u) PROVE FALSE
      <3> DEFINE doc == [mandate[m] EXCEPT !.nextRunAt = Key(t, m) + 1]
      <3>1. u = t
        BY <2>4, <2>6 DEF SaveDuplicate
      <3>2. mandate'[m] = doc
        BY <2>4, <2>6, <3>1 DEF SaveDuplicate
      <3>3. doc.nextRunAt = next
        BY <2>2 DEF Documents, Key
      <3> QED BY <2>3, <3>2, <3>3
    <2>7. ASSUME NEW u \in Ticks, SaveFailure(u) PROVE FALSE
      <3> DEFINE k == tick[t].copy[m].nextRunAt
                 f == tick[t].copy[m].failureCount + 1
                 doc == Failed(mandate[m], k, f)
      <3>1. u = t
        BY <2>4, <2>7 DEF SaveFailure
      <3>2. mandate'[m] = doc
        BY <2>4, <2>7, <3>1 DEF SaveFailure
      <3>3. doc.nextRunAt \in {mandate[m].nextRunAt, k + 1}
        BY <2>2 DEF Failed, Documents
      <3> QED BY <2>3, <3>2, <3>3
    <2>8. ASSUME NEW u \in Ticks, SaveUnsaved(u) PROVE tick[t].at = "unsaved"
      BY <2>4, <2>8 DEF SaveUnsaved
    <2>9. ASSUME NEW u \in Ticks, FindDue(u) \/ Charge(u) \/ Refuse(u) \/ SaveFails(u) \/ Abandon(u)
          PROVE  FALSE
      <3>1. CASE mandate' = mandate
        BY <2>3, <3>1
      <3> QED BY <2>9, <3>1 DEF FindDue, Charge, Refuse, SaveFails, Abandon
    <2>10. tick' # tick
      BY <2>1
    <2> QED
      BY <2>5, <2>6, <2>7, <2>8, <2>9, <2>10
         DEF Next, Run, TimePasses, CreateMandate, LoadOwnMandate, SaveEdit, Quiet, vars
  <1>2. QED
    BY <1>1, InductiveInvariant, PTL DEF Spec, OnlyFailedSavesSkip

-------------------------------------------------------------------------------
(* The periods that a mandate has been charged for.                        *)
Paid(m) == SumFunction(charges[m])

(* No document counts more runs than were charged, and no copy does that a *)
(* run may still save; a copy whose charge went through counts one less.   *)
CountOK(t) ==
  /\ \A m \in tick[t].due : tick[t].copy[m].runCount <= Paid(m)
  /\ tick[t].at \in {"charged", "unsaved"} => tick[t].copy[tick[t].cur].runCount + 1 <= Paid(tick[t].cur)

Counts ==
  /\ RunsWereCharged
  /\ \A t \in Ticks : CountOK(t)

LEMMA KeysFinite == IsFiniteSet(Keys)
  BY FS_Interval DEF Keys

LEMMA PaidIsSum ==
  ASSUME IInv, NEW m \in Mandates
  PROVE  Paid(m) = SumFunctionOnSet(charges[m], Keys) /\ Paid(m) \in Nat
<1>1. DOMAIN charges[m] = Keys /\ \A k \in Keys : charges[m][k] \in Nat
  BY DEF IInv, Shapes
<1>2. SumFunctionOnSet(charges[m], Keys) \in Nat
  BY <1>1, KeysFinite, SumNat
<1> QED BY <1>1, <1>2 DEF Paid, SumFunction

(* A charge adds one to what its mandate has paid, and to nothing else.    *)
LEMMA ChargePays ==
  ASSUME IInv, IInv', NEW m \in Mandates, NEW k \in Keys, charges[m][k] = 0,
         charges' = [charges EXCEPT ![m][k] = 1]
  PROVE  /\ Paid(m)' = Paid(m) + 1
         /\ \A n \in Mandates \ {m} : Paid(n)' = Paid(n)
<1>1. charges \in [Mandates -> [Keys -> Nat]] /\ charges' \in [Mandates -> [Keys -> Nat]]
  BY DEF IInv, Shapes
<1>2. charges'[m][k] = 1 /\ \A j \in Keys \ {k} : charges'[m][j] = charges[m][j]
  BY <1>1
<1>3. \A j \in Keys : charges[m][j] \in Int /\ charges'[m][j] \in Int
  BY <1>1
<1> DEFINE f == charges[m]
           h == charges'[m]
<1>4. SumFunctionOnSet(h, Keys) = SumFunctionOnSet(f, Keys) + h[k] - f[k]
  <2>1. /\ \A j \in Keys : f[j] \in Int /\ h[j] \in Int
        /\ \A j \in Keys \ {k} : h[j] = f[j]
    BY <1>2, <1>3
  <2> HIDE DEF f, h
  <2> QED BY <2>1, KeysFinite, SumChange
<1>5. Paid(m)' = SumFunctionOnSet(h, Keys)
  BY <1>1 DEF Paid, SumFunction
<1>6. Paid(m) = SumFunctionOnSet(f, Keys) /\ Paid(m) \in Nat
  BY PaidIsSum
<1>7. Paid(m)' = Paid(m) + 1
  <2> HIDE DEF Paid
  <2> QED BY <1>2, <1>4, <1>5, <1>6
<1>8. ASSUME NEW n \in Mandates \ {m} PROVE Paid(n)' = Paid(n)
  <2>1. charges'[n] = charges[n]
    BY <1>1
  <2> QED BY <2>1 DEF Paid
<1> QED BY <1>7, <1>8

(* Nothing that is saved, and no other step, changes what was paid.        *)
LEMMA SamePaid ==
  ASSUME UNCHANGED charges
  PROVE  \A m : Paid(m)' = Paid(m)
  BY DEF Paid

LEMMA InitCounts == Init /\ IInv => Counts
<1> SUFFICES ASSUME Init, IInv PROVE Counts
  OBVIOUS
<1>1. \A m \in Mandates : mandate[m].runCount = 0 /\ Paid(m) \in Nat
  BY PaidIsSum DEF Init, None
<1>2. RunsWereCharged
  <2>1. \A m \in Mandates : mandate[m].runCount <= Paid(m)
    <3> HIDE DEF Paid
    <3> QED BY <1>1
  <2> QED BY <2>1 DEF RunsWereCharged, Paid
<1>3. \A t \in Ticks : CountOK(t)
  BY DEF Init, CountOK, NoTick
<1> QED BY <1>2, <1>3 DEF Counts

(* What is saved counts no more runs than the document or the copy does.   *)
LEMMA SavedCounts ==
  ASSUME IInv, Counts, NEW t \in Ticks, tick[t].at \notin {"idle", "loop"}, NEW doc, Saved(t, doc),
         doc.runCount <= Paid(tick[t].cur)
  PROVE  Counts'
<1>1. /\ mandate' = [mandate EXCEPT ![tick[t].cur] = doc]
      /\ \A m : Paid(m)' = Paid(m)
  BY SamePaid DEF Saved
<1>2. tick[t].cur \in Mandates /\ mandate \in [Mandates -> Documents]
  BY AtWork DEF IInv, Shapes
<1>3. \A m \in Mandates : mandate'[m].runCount <= Paid(m)'
  <2>1. \A m \in Mandates : mandate[m].runCount <= Paid(m)
    BY DEF Counts, RunsWereCharged, Paid
  <2> QED BY <1>1, <1>2, <2>1
<1>4. RunsWereCharged'
  BY <1>3 DEF RunsWereCharged, Paid
<1>5. tick \in [Ticks -> Works] /\ tick[t] \in Works
  BY DEF IInv, Shapes
<1>6. CountOK(t)'
  <2>1. CASE tick'[t] = NoTick
    BY <2>1, NoTickWorks DEF CountOK
  <2>2. CASE /\ tick'[t].at = "loop" /\ tick'[t].due \subseteq tick[t].due
             /\ tick'[t].copy = tick[t].copy
    <3>1. \A m \in tick[t].due : tick[t].copy[m].runCount <= Paid(m)
      BY DEF Counts, CountOK
    <3> QED BY <1>1, <2>2, <3>1 DEF CountOK
  <2> QED BY <1>5, <2>1, <2>2 DEF Saved, Works
<1>7. \A u \in Ticks \ {t} : CountOK(u)'
  <2>1. \A u \in Ticks \ {t} : tick'[u] = tick[u]
    BY <1>5 DEF Saved
  <2> QED BY <1>1, <2>1 DEF Counts, CountOK
<1> QED BY <1>4, <1>6, <1>7 DEF Counts

LEMMA NextCounts == IInv /\ IInv' /\ Counts /\ [Next]_vars => Counts'
<1> SUFFICES ASSUME IInv, IInv', Counts, [Next]_vars PROVE Counts'
  OBVIOUS
<1>0. /\ mandate \in [Mandates -> Documents] /\ tick \in [Ticks -> Works]
      /\ \A m \in Mandates : mandate[m].runCount <= Paid(m)
      /\ \A t \in Ticks : CountOK(t)
  BY DEF Counts, RunsWereCharged, Paid, IInv, Shapes
<1>1. ASSUME NEW m \in Mandates, CreateMandate(m) PROVE Counts'
  <2>1. UNCHANGED <<charges, tick>> /\ \A n \in Mandates : mandate'[n].runCount = mandate[n].runCount
    BY <1>0, <1>1 DEF CreateMandate, Documents
  <2>2. \A n : Paid(n)' = Paid(n)
    BY <2>1, SamePaid
  <2>3. RunsWereCharged'
    <3>1. \A n \in Mandates : mandate'[n].runCount <= Paid(n)'
      BY <1>0, <2>1, <2>2
    <3> QED BY <3>1 DEF RunsWereCharged, Paid
  <2>4. \A t \in Ticks : CountOK(t)'
    BY <1>0, <2>1, <2>2 DEF CountOK
  <2> QED BY <2>3, <2>4 DEF Counts
<1>2. ASSUME NEW t \in Ticks, FindDue(t) PROVE Counts'
  <2>1. \A n : Paid(n)' = Paid(n)
    BY <1>2, SamePaid DEF FindDue
  <2>2. tick' = [tick EXCEPT ![t] = [at |-> "loop", cur |-> NoMandate, due |-> Due, copy |-> mandate]]
    BY <1>2 DEF FindDue
  <2>3. CountOK(t)'
    <3>1. \A m \in Due : mandate[m].runCount <= Paid(m)
      BY <1>0 DEF Due
    <3> QED BY <1>0, <2>1, <2>2, <3>1 DEF CountOK
  <2>4. \A u \in Ticks \ {t} : CountOK(u)'
    BY <1>0, <2>1, <2>2 DEF CountOK
  <2>5. RunsWereCharged'
    BY <1>2 DEF FindDue, Counts, RunsWereCharged
  <2> QED BY <2>3, <2>4, <2>5 DEF Counts
<1>3. ASSUME NEW t \in Ticks, NEW m \in tick[t].due, NEW at \in {"duplicate", "refused"},
             Outcome(t, m, at), UNCHANGED <<mandate, charges>>
      PROVE  Counts'
  <2>1. \A n : Paid(n)' = Paid(n)
    BY <1>3, SamePaid
  <2>2. CountOK(t)'
    <3>1. /\ tick'[t].at = at /\ tick'[t].due = tick[t].due /\ tick'[t].copy = tick[t].copy
      BY <1>0, <1>3 DEF Outcome, Works
    <3> QED BY <1>0, <1>3, <2>1, <3>1 DEF CountOK
  <2>3. \A u \in Ticks \ {t} : CountOK(u)'
    BY <1>0, <1>3, <2>1 DEF CountOK, Outcome
  <2>4. RunsWereCharged'
    BY <1>3 DEF Counts, RunsWereCharged
  <2> QED BY <2>2, <2>3, <2>4 DEF Counts
<1>4. ASSUME NEW t \in Ticks, NEW m \in tick[t].due, NEW at \in {"charged", "refused"},
             charges[m][Key(t, m)] = 0, charges' = [charges EXCEPT ![m][Key(t, m)] = 1],
             Outcome(t, m, at), UNCHANGED mandate
      PROVE  Counts'
  <2>1. m \in Mandates /\ Key(t, m) \in Keys
    BY DEF IInv, Shapes, TickOK, Key, Works
  <2>2. Paid(m)' = Paid(m) + 1 /\ \A n \in Mandates \ {m} : Paid(n)' = Paid(n)
    BY <1>4, <2>1, ChargePays
  <2>3. \A n \in Mandates : Paid(n) \in Nat
    BY PaidIsSum
  <2>4. \A n \in Mandates : mandate[n].runCount \in Nat
    BY <1>0 DEF Documents
  <2>5. \A u \in Ticks : \A n \in Mandates : tick[u].copy[n].runCount \in Nat
    BY <1>0 DEF Works, Documents
  <2>6. ASSUME NEW n \in Mandates, NEW i \in Nat, i <= Paid(n) PROVE i <= Paid(n)'
    <3> HIDE DEF Paid
    <3> QED BY <2>2, <2>3, <2>6
  <2>7. RunsWereCharged'
    <3>1. \A n \in Mandates : mandate[n].runCount <= Paid(n)'
      BY <1>0, <2>4, <2>6
    <3> QED BY <1>4, <3>1 DEF RunsWereCharged, Paid
  <2>8. ASSUME NEW u \in Ticks PROVE \A n \in tick[u].due : tick[u].copy[n].runCount <= Paid(n)'
    <3>1. CountOK(u) /\ tick[u].due \subseteq Mandates
      BY <1>0 DEF Works
    <3> QED BY <2>5, <2>6, <3>1 DEF CountOK
  <2>9. CountOK(t)'
    <3>1. /\ tick'[t].at = at /\ tick'[t].due = tick[t].due
          /\ tick'[t].copy = tick[t].copy /\ tick'[t].cur = m
      BY <1>0, <1>4 DEF Outcome, Works
    <3>2. tick[t].copy[m].runCount + 1 <= Paid(m)'
      <4>1. tick[t].copy[m].runCount <= Paid(m) /\ tick[t].copy[m].runCount \in Nat
        BY <1>0, <2>1, <2>5 DEF CountOK
      <4> HIDE DEF Paid
      <4> QED BY <2>1, <2>2, <2>3, <4>1
    <3> QED BY <2>8, <3>1, <3>2 DEF CountOK
  <2>10. ASSUME NEW u \in Ticks \ {t} PROVE CountOK(u)'
    <3>1. tick'[u] = tick[u]
      BY <1>0, <1>4 DEF Outcome
    <3>2. ASSUME tick[u].at \in {"charged", "unsaved"}, NEW n \in Mandates, n = tick[u].cur
          PROVE  tick[u].copy[n].runCount + 1 <= Paid(n)'
      <4>1. tick[u].copy[n].runCount + 1 <= Paid(n)
        BY <1>0, <3>2 DEF CountOK
      <4>2. tick[u].copy[n].runCount + 1 \in Nat
        BY <2>5
      <4> QED BY <2>6, <4>1, <4>2
    <3>3. tick[u].at \in {"charged", "unsaved"} => tick[u].cur \in Mandates
      BY AtWork
    <3> QED BY <2>8, <3>1, <3>2, <3>3 DEF CountOK
  <2> QED BY <2>7, <2>9, <2>10 DEF Counts
<1>5. ASSUME NEW t \in Ticks, Charge(t) PROVE Counts'
  <2>1. PICK m \in tick[t].due :
          IF charges[m][Key(t, m)] = 0
          THEN /\ charges' = [charges EXCEPT ![m][Key(t, m)] = 1]
               /\ \E at \in {"charged", "refused"} : Outcome(t, m, at)
          ELSE Outcome(t, m, "duplicate") /\ UNCHANGED charges
    BY <1>5 DEF Charge
  <2>2. UNCHANGED mandate
    BY <1>5 DEF Charge
  <2> QED BY <1>3, <1>4, <2>1, <2>2
<1>6. ASSUME NEW t \in Ticks, Refuse(t) PROVE Counts'
  BY <1>3, <1>6 DEF Refuse
<1>7. ASSUME NEW t \in Ticks, tick[t].at \notin {"idle", "loop"}, NEW doc, Saved(t, doc),
             doc.runCount = mandate[tick[t].cur].runCount
             \/ (tick[t].at \in {"charged", "unsaved"} /\ doc.runCount = tick[t].copy[tick[t].cur].runCount + 1)
      PROVE  Counts'
  <2>1. tick[t].cur \in Mandates
    BY <1>7, AtWork
  <2>2. doc.runCount <= Paid(tick[t].cur)
    BY <1>0, <1>7, <2>1 DEF CountOK
  <2> QED BY <1>7, <2>2, SavedCounts
<1>8. ASSUME NEW t \in Ticks, SaveRun(t) PROVE Counts'
  BY <1>7, <1>8, AtWork DEF SaveRun, Documents
<1>9. ASSUME NEW t \in Ticks, SaveDuplicate(t) PROVE Counts'
  BY <1>7, <1>9, AtWork DEF SaveDuplicate, Documents
<1>10. ASSUME NEW t \in Ticks, SaveFailure(t) PROVE Counts'
  BY <1>7, <1>10, AtWork DEF SaveFailure, Failed, Documents
<1>11. ASSUME NEW t \in Ticks, SaveUnsaved(t) PROVE Counts'
  BY <1>7, <1>11, AtWork DEF SaveUnsaved, Failed, Documents
<1>12. ASSUME NEW t \in Ticks, SaveFails(t) \/ Abandon(t) PROVE Counts'
  <2>1. (\A n : Paid(n)' = Paid(n)) /\ RunsWereCharged'
    BY <1>12, SamePaid DEF SaveFails, Abandon, Counts, RunsWereCharged
  <2>2. tick[t] \in Works
    BY <1>0
  <2>3. CountOK(t)'
    <3>1. CASE SaveFails(t)
      <4>1. /\ tick'[t].at = "unsaved" /\ tick'[t].due = tick[t].due /\ tick[t].at = "charged"
            /\ tick'[t].copy = tick[t].copy /\ tick'[t].cur = tick[t].cur
        BY <1>0, <2>2, <3>1 DEF SaveFails, Works
      <4> QED BY <1>0, <2>1, <4>1 DEF CountOK
    <3>2. CASE Abandon(t)
      BY <1>0, <3>2, NoTickWorks DEF Abandon, CountOK
    <3> QED BY <1>12, <3>1, <3>2
  <2>4. \A u \in Ticks \ {t} : CountOK(u)'
    BY <1>0, <1>12, <2>1 DEF CountOK, SaveFails, Abandon
  <2> QED BY <2>1, <2>3, <2>4 DEF Counts
<1>13. ASSUME NEW e \in Edits, SaveEdit(e) PROVE Counts'
  <2>1. UNCHANGED <<charges, tick>> /\ \A n \in Mandates : mandate'[n].runCount = mandate[n].runCount
    BY <1>0, <1>13 DEF SaveEdit, Resumed, Documents
  <2>2. \A n : Paid(n)' = Paid(n)
    BY <2>1, SamePaid
  <2>3. RunsWereCharged'
    <3>1. \A n \in Mandates : mandate'[n].runCount <= Paid(n)'
      BY <1>0, <2>1, <2>2
    <3> QED BY <3>1 DEF RunsWereCharged, Paid
  <2>4. \A t \in Ticks : CountOK(t)'
    BY <1>0, <2>1, <2>2 DEF CountOK
  <2> QED BY <2>3, <2>4 DEF Counts
<1>14. CASE UNCHANGED <<mandate, charges, tick>>
  <2>1. \A n : Paid(n)' = Paid(n)
    BY <1>14, SamePaid
  <2>2. \A t \in Ticks : CountOK(t)'
    BY <1>0, <1>14, <2>1 DEF CountOK
  <2>3. RunsWereCharged'
    BY <1>14 DEF Counts, RunsWereCharged
  <2> QED BY <2>2, <2>3 DEF Counts
<1> QED
  BY <1>1, <1>2, <1>5, <1>6, <1>8, <1>9, <1>10, <1>11, <1>12, <1>13, <1>14
     DEF Next, Run, TimePasses, LoadOwnMandate, Quiet, vars

(* However many runs overlap, crash, retry and save the copies they loaded *)
(* before others charged: a mandate never counts more runs than it was     *)
(* charged for (recurringWorker.js:45, mandate.runCount += 1).             *)
THEOREM EveryRunWasCharged == Spec => []RunsWereCharged
<1>1. Spec => []Counts
  BY InitIInv, InitCounts, NextCounts, InductiveInvariant, PTL DEF Spec
<1>2. Counts => RunsWereCharged
  BY DEF Counts
<1> QED BY <1>1, <1>2, PTL

-------------------------------------------------------------------------------
(*****************************************************************************)
(* The calendar: dates that are days, weeks or months apart.                 *)
(*****************************************************************************)
USE YearsAssumption

Dates == [year : Nat, month : 0..11, day : 1..31]

CalendarShapes ==
  /\ frequency \in {"DAILY", "WEEKLY", "MONTHLY"}
  /\ start \in Dates /\ start.day =< DaysIn(start.year, start.month)
  /\ nextRunAt \in Dates /\ nextRunAt.day =< DaysIn(nextRunAt.year, nextRunAt.month)
  /\ passed \in Nat

(* The months from the first due date to this one, and what they allow.    *)
Months == MonthNumber(start) .. MonthNumber(nextRunAt)
Allowances == {start.day} \cup {DaysIn(m \div 12, m % 12) : m \in Months}

(* The day is one of these numbers and none of them is smaller.            *)
LeastDay == frequency = "MONTHLY" => nextRunAt.day \in Allowances /\ \A d \in Allowances : nextRunAt.day =< d

CalendarInv == CalendarShapes /\ OncePerPeriod /\ LeastDay

(* Months and years.                                                       *)
LEMMA DaysInRange == \A year \in Nat, month \in 0..11 : DaysIn(year, month) \in 28..31
  BY DEF DaysIn

LEMMA FollowingMonth ==
  ASSUME NEW year \in Nat, NEW month \in 0..11
  PROVE  /\ month < 11 => Following(year, month) = <<year, month + 1>>
         /\ month = 11 => Following(year, month) = <<year + 1, 0>>
<1>1. month < 11 => (month + 1) \div 12 = 0 /\ (month + 1) % 12 = month + 1
  OBVIOUS
<1>2. month = 11 => (month + 1) \div 12 = 1 /\ (month + 1) % 12 = 0
  OBVIOUS
<1> QED BY <1>1, <1>2 DEF Following

LEMMA FollowingIsMonth ==
  ASSUME NEW year \in Nat, NEW month \in 0..11
  PROVE  /\ Following(year, month)[1] \in Nat
         /\ Following(year, month)[2] \in 0..11
         /\ 12 * Following(year, month)[1] + Following(year, month)[2] = 12 * year + month + 1
<1> DEFINE then == Following(year, month)
<1>1. CASE month < 11
  <2>0. then = <<year, month + 1>>
    BY <1>1, FollowingMonth
  <2>1. then[1] = year /\ then[2] = month + 1
    <3> HIDE DEF then
    <3> QED BY <2>0
  <2> HIDE DEF then
  <2>2. then[1] \in Nat /\ then[2] \in 0..11 /\ 12 * then[1] + then[2] = 12 * year + month + 1
    BY <1>1, <2>1
  <2> QED BY <2>2 DEF then
<1>2. CASE month = 11
  <2>1. then[1] = year + 1 /\ then[2] = 0
    BY <1>2, FollowingMonth
  <2> HIDE DEF then
  <2>2. then[1] \in Nat /\ then[2] \in 0..11 /\ 12 * then[1] + then[2] = 12 * year + month + 1
    BY <1>2, <2>1
  <2> QED BY <2>2 DEF then
<1> QED BY <1>1, <1>2

LEMMA MonthOfNumber ==
  ASSUME NEW year \in Nat, NEW month \in 0..11
  PROVE  (12 * year + month) \div 12 = year /\ (12 * year + month) % 12 = month
  OBVIOUS

(* A month adds its days to those before it.                               *)
LEMMA NextMonthBefore ==
  ASSUME NEW year \in Nat, NEW month \in 0..11
  PROVE  /\ DaysBefore(year, month) \in Int
         /\ DaysBefore(year, month + 1) = DaysBefore(year, month) + DaysIn(year, month)
<1> DEFINE f == [m \in 0..11 |-> DaysIn(year, m)]
           S == 0 .. month - 1
<1>1. IsFiniteSet(S) /\ month \notin S /\ S \cup {month} = 0 .. month + 1 - 1
  BY FS_Interval
<1>2. \A m \in S \cup {month} : f[m] \in Int
  BY DaysInRange
<1>3. f[month] = DaysIn(year, month)
  OBVIOUS
<1>4. DaysBefore(year, month) = SumFunctionOnSet(f, S)
  BY DEF DaysBefore
<1>7. DaysBefore(year, month + 1) = SumFunctionOnSet(f, S \cup {month})
  <2>1. DaysBefore(year, month + 1) = SumFunctionOnSet(f, 0 .. month + 1 - 1)
    BY DEF DaysBefore
  <2> HIDE DEF f, S
  <2> QED BY <1>1, <2>1
<1> HIDE DEF f, S
<1>5. SumFunctionOnSet(f, S) \in Int
  BY <1>1, <1>2, SumInt
<1>6. SumFunctionOnSet(f, S \cup {month}) = SumFunctionOnSet(f, S) + f[month]
  BY <1>1, <1>2, SumAdd
<1> QED BY <1>3, <1>4, <1>5, <1>6, <1>7

LEMMA NothingBeforeJanuary == \A year \in Nat : DaysBefore(year, 0) = 0
<1> TAKE year \in Nat
<1>1. 0 .. 0 - 1 = {}
  OBVIOUS
<1> QED BY <1>1, SumEmpty DEF DaysBefore

(* A year has 365 days, or 366.                                            *)
LEMMA DaysOfYear ==
  ASSUME NEW year \in Nat
  PROVE  DaysBefore(year, 12) = IF Leap(year) THEN 366 ELSE 365
<1> DEFINE B(m) == DaysBefore(year, m)
           D(m) == DaysIn(year, m)
<1>0. B(0) = 0
  BY NothingBeforeJanuary
<1>1. \A m \in 0..11 : B(m) \in Int /\ B(m + 1) = B(m) + D(m)
  BY NextMonthBefore
<1>2. /\ D(0) = 31 /\ D(2) = 31 /\ D(3) = 30 /\ D(4) = 31 /\ D(5) = 30 /\ D(6) = 31
      /\ D(7) = 31 /\ D(8) = 30 /\ D(9) = 31 /\ D(10) = 30 /\ D(11) = 31
      /\ D(1) = IF Leap(year) THEN 29 ELSE 28
  BY DEF DaysIn
<1> HIDE DEF B, D
<1>3. B(1) = B(0) + D(0) /\ B(2) = B(1) + D(1) /\ B(3) = B(2) + D(2) /\ B(4) = B(3) + D(3)
  BY <1>1
<1>4. B(5) = B(4) + D(4) /\ B(6) = B(5) + D(5) /\ B(7) = B(6) + D(6) /\ B(8) = B(7) + D(7)
  BY <1>1
<1>5. B(9) = B(8) + D(8) /\ B(10) = B(9) + D(9) /\ B(11) = B(10) + D(10) /\ B(12) = B(11) + D(11)
  BY <1>1
<1>6. B(12) = IF Leap(year) THEN 366 ELSE 365
  BY <1>0, <1>2, <1>3, <1>4, <1>5
<1> QED BY <1>6 DEF B

(* Leap days up to a year, by the rules of the calendar.                   *)
Leaps(year) == year \div 4 - year \div 100 + year \div 400

LEMMA LeapsAdd ==
  ASSUME NEW year \in Nat
  PROVE  Leaps(year - 1) \in Int /\ Leaps(year) = Leaps(year - 1) + IF Leap(year) THEN 1 ELSE 0
<1>1. year \div 4 = (year - 1) \div 4 + IF year % 4 = 0 THEN 1 ELSE 0
  OBVIOUS
<1>2. year \div 100 = (year - 1) \div 100 + IF year % 100 = 0 THEN 1 ELSE 0
  OBVIOUS
<1>3. year \div 400 = (year - 1) \div 400 + IF year % 400 = 0 THEN 1 ELSE 0
  OBVIOUS
<1>4. (year % 400 = 0 => year % 100 = 0) /\ (year % 100 = 0 => year % 4 = 0)
  OBVIOUS
<1>5. (year - 1) \div 4 \in Int /\ (year - 1) \div 100 \in Int /\ (year - 1) \div 400 \in Int
  OBVIOUS
<1> QED BY <1>1, <1>2, <1>3, <1>4, <1>5 DEF Leaps, Leap

LEMMA DayNumberIs ==
  ASSUME NEW date \in Dates
  PROVE  /\ DayNumber(date) = 365 * (date.year - 1) + Leaps(date.year - 1)
                                + DaysBefore(date.year, date.month) + date.day
         /\ DayNumber(date) \in Int
<1>1. /\ date.year \in Nat /\ date.month \in 0..11 /\ date.day \in Nat
      /\ DaysBefore(date.year, date.month) \in Int
  BY NextMonthBefore DEF Dates
<1>2. Leaps(date.year - 1) \in Int
  BY <1>1, LeapsAdd
<1>3. DayNumber(date) = 365 * (date.year - 1) + Leaps(date.year - 1)
                          + DaysBefore(date.year, date.month) + date.day
  BY <1>1 DEF DayNumber, Leaps
<1> QED BY <1>1, <1>2, <1>3

(* Date.setDate by at most a month goes on by as many days.                *)
LEMMA PlusDaysGoesOn ==
  ASSUME NEW date \in Dates, date.day =< DaysIn(date.year, date.month), NEW n \in 1..28
  PROVE  /\ PlusDays(date, n) \in Dates
         /\ PlusDays(date, n).day =< DaysIn(PlusDays(date, n).year, PlusDays(date, n).month)
         /\ DayNumber(PlusDays(date, n)) = DayNumber(date) + n
<1> DEFINE y == date.year
           m == date.month
           over == date.day + n - DaysIn(y, m)
           then == Following(y, m)
           later == PlusDays(date, n)
<1>1. date = [year |-> y, month |-> m, day |-> date.day] /\ y \in Nat /\ m \in 0..11 /\ date.day \in 1..31
  BY DEF Dates
<1>2. DaysIn(y, m) \in 28..31 /\ DaysBefore(y, m) \in Int /\ Leaps(y - 1) \in Int
  BY <1>1, DaysInRange, NextMonthBefore, LeapsAdd
<1>3. CASE over =< 0
  <2>1. later = [year |-> y, month |-> m, day |-> date.day + n]
    BY <1>1, <1>3 DEF PlusDays
  <2>2. later \in Dates /\ later.day =< DaysIn(later.year, later.month)
    BY <1>1, <1>2, <1>3, <2>1 DEF Dates
  <2>3. DayNumber(later) = 365 * (y - 1) + Leaps(y - 1) + DaysBefore(y, m) + (date.day + n)
    BY <2>1, <2>2, DayNumberIs
  <2>4. DayNumber(date) = 365 * (y - 1) + Leaps(y - 1) + DaysBefore(y, m) + date.day
    BY DayNumberIs
  <2> HIDE DEF later, y, m
  <2>5. DayNumber(later) = DayNumber(date) + n
    BY <1>1, <1>2, <2>3, <2>4
  <2> QED BY <2>2, <2>5 DEF later
<1>4. CASE ~(over =< 0)
  <2>1. later = [year |-> then[1], month |-> then[2], day |-> over]
    BY <1>4 DEF PlusDays
  <2>2. then[1] \in Nat /\ then[2] \in 0..11
    BY <1>1, FollowingIsMonth
  <2>3. over \in 1..28 /\ DaysIn(then[1], then[2]) >= 28
    BY <1>1, <1>2, <1>4, <2>2, DaysInRange
  <2>4. later \in Dates /\ later.day =< DaysIn(later.year, later.month)
    <3> HIDE DEF then, over
    <3> QED BY <2>1, <2>2, <2>3, DaysInRange DEF Dates
  <2>5. DayNumber(later) = 365 * (then[1] - 1) + Leaps(then[1] - 1) + DaysBefore(then[1], then[2]) + over
    BY <2>1, <2>4, DayNumberIs
  <2>6. DayNumber(date) = 365 * (y - 1) + Leaps(y - 1) + DaysBefore(y, m) + date.day
    BY DayNumberIs
  <2>7. 365 * (then[1] - 1) + Leaps(then[1] - 1) + DaysBefore(then[1], then[2])
          = 365 * (y - 1) + Leaps(y - 1) + DaysBefore(y, m) + DaysIn(y, m)
    <3>1. DaysBefore(y, m + 1) = DaysBefore(y, m) + DaysIn(y, m)
      BY <1>1, NextMonthBefore
    <3>2. CASE m < 11
      <4>1. then[1] = y /\ then[2] = m + 1
        BY <1>1, <3>2, FollowingMonth
      <4> QED BY <1>1, <1>2, <3>1, <4>1
    <3>3. CASE m = 11
      <4>1. then[1] = y + 1 /\ then[2] = 0
        BY <1>1, <3>3, FollowingMonth
      <4>2. DaysBefore(y, 11) + DaysIn(y, 11) = IF Leap(y) THEN 366 ELSE 365
        <5>1. DaysBefore(y, 12) = IF Leap(y) THEN 366 ELSE 365
          BY <1>1, DaysOfYear
        <5>2. m + 1 = 12
          BY <3>3
        <5> QED BY <3>1, <3>3, <5>1, <5>2
      <4>3. DaysBefore(y + 1, 0) = 0
        BY <1>1, NothingBeforeJanuary
      <4>4. Leaps(y) = Leaps(y - 1) + IF Leap(y) THEN 1 ELSE 0
        BY <1>1, LeapsAdd
      <4>5. y + 1 - 1 = y
        BY <1>1
      <4> QED
        <5> HIDE DEF y, m, then
        <5>1. 365 * (then[1] - 1) + Leaps(then[1] - 1) + DaysBefore(then[1], then[2]) = 365 * y + Leaps(y)
          BY <1>1, <1>2, <4>1, <4>3, <4>4, <4>5
        <5> QED BY <1>1, <1>2, <3>3, <4>2, <4>4, <5>1
    <3> QED BY <1>1, <3>2, <3>3
  <2>8. Leaps(then[1] - 1) \in Int /\ DaysBefore(then[1], then[2]) \in Int
    BY <2>2, LeapsAdd, NextMonthBefore
  <2> HIDE DEF later, y, m, then
  <2>9. DayNumber(later) = DayNumber(date) + n
    BY <1>1, <1>2, <2>2, <2>5, <2>6, <2>7, <2>8
  <2> QED BY <2>4, <2>9 DEF later
<1>5. over \in Int
  BY <1>1, <1>2
<1> QED BY <1>3, <1>4, <1>5

(* The least of a set of numbers is what FiniteSetsExt chooses.            *)
LEMMA LeastIsMin ==
  ASSUME NEW S, S \subseteq Int, NEW x \in S, \A y \in S : x =< y
  PROVE  Min(S) = x
<1>1. \A z \in S : (\A y \in S : z =< y) => z = x
  OBVIOUS
<1> QED BY <1>1 DEF Min

(* A month later, on the day or on the last one of that month.             *)
LEMMA PlusMonthGoesOn ==
  ASSUME NEW date \in Dates
  PROVE  LET next == Following(date.year, date.month)
             last == DaysIn(next[1], next[2])
         IN /\ PlusMonth(date) = [year |-> next[1], month |-> next[2],
                                  day |-> IF date.day =< last THEN date.day ELSE last]
            /\ PlusMonth(date) \in Dates
            /\ PlusMonth(date).day =< DaysIn(PlusMonth(date).year, PlusMonth(date).month)
            /\ MonthNumber(PlusMonth(date)) = MonthNumber(date) + 1
<1> DEFINE then == Following(date.year, date.month)
           last == DaysIn(then[1], then[2])
           to == IF date.day =< last THEN date.day ELSE last
<1>1. date.year \in Nat /\ date.month \in 0..11 /\ date.day \in 1..31
  BY DEF Dates
<1>2. then[1] \in Nat /\ then[2] \in 0..11 /\ 12 * then[1] + then[2] = 12 * date.year + date.month + 1
  BY <1>1, FollowingIsMonth
<1>3. last \in 28..31
  BY <1>2, DaysInRange
<1>4. Min({date.day, last}) = to
  <2> DEFINE S == {date.day, last}
  <2>1. S \subseteq Int /\ to \in S /\ \A y \in S : to =< y
    <3> HIDE DEF last
    <3> QED BY <1>1, <1>3
  <2> HIDE DEF S, to
  <2>2. Min(S) = to
    BY <2>1, LeastIsMin
  <2> QED BY <2>2 DEF S
<1>5. PlusMonth(date) = [year |-> then[1], month |-> then[2], day |-> to]
  BY <1>4 DEF PlusMonth
<1> HIDE DEF then
<1>6. PlusMonth(date) \in Dates /\ PlusMonth(date).day =< last /\ PlusMonth(date).year = then[1]
      /\ PlusMonth(date).month = then[2]
  BY <1>1, <1>2, <1>3, <1>5 DEF Dates
<1>7. MonthNumber(PlusMonth(date)) = MonthNumber(date) + 1
  BY <1>1, <1>2, <1>6 DEF MonthNumber
<1> QED BY <1>5, <1>6, <1>7 DEF then

(* Each due date is the one before it, one interval on.                    *)
LEMMA CalendarStarts == CalendarInit => CalendarInv
<1> SUFFICES ASSUME CalendarInit PROVE CalendarInv
  OBVIOUS
<1>1. PICK year \in FirstYear .. LastYear, month \in 0 .. 11 :
        \E day \in 1 .. DaysIn(year, month) : start = [year |-> year, month |-> month, day |-> day]
  BY DEF CalendarInit
<1>2. PICK day \in 1 .. DaysIn(year, month) : start = [year |-> year, month |-> month, day |-> day]
  BY <1>1
<1>3. year \in Nat /\ DaysIn(year, month) \in 28..31
  <2>1. year \in Nat
    OBVIOUS
  <2> QED BY <2>1, DaysInRange
<1>4. start.year = year /\ start.month = month /\ start.day = day /\ start \in Dates
      /\ day =< DaysIn(year, month)
  BY <1>2, <1>3 DEF Dates
<1>5. nextRunAt = start /\ passed = 0 /\ frequency \in {"DAILY", "WEEKLY", "MONTHLY"}
  BY DEF CalendarInit
<1>6. CalendarShapes
  BY <1>4, <1>5 DEF CalendarShapes
<1>7. OncePerPeriod
  <2>1. DayNumber(start) \in Int
    BY <1>4, DayNumberIs
  <2>2. MonthNumber(start) \in Int
    BY <1>3, <1>4 DEF MonthNumber
  <2> QED BY <1>5, <2>1, <2>2 DEF OncePerPeriod
<1>8. LeastDay
  <2> DEFINE n == MonthNumber(start)
  <2>1. n = 12 * year + month /\ n \in Int
    BY <1>3, <1>4 DEF MonthNumber
  <2>2. Months = {n}
    <3>1. Months = n .. n
      BY <1>5 DEF Months
    <3> HIDE DEF n
    <3> QED BY <2>1, <3>1
  <2>3. n \div 12 = year /\ n % 12 = month
    <3> HIDE DEF n
    <3> QED BY <1>3, <2>1, MonthOfNumber
  <2>4. Allowances = {day, DaysIn(year, month)}
    <3> HIDE DEF n
    <3> QED BY <1>4, <2>2, <2>3 DEF Allowances
  <2> QED BY <1>3, <1>4, <1>5, <2>4 DEF LeastDay
<1> QED BY <1>6, <1>7, <1>8 DEF CalendarInv

LEMMA CalendarGoesOn == CalendarInv /\ [CalendarNext]_calendarVars => CalendarInv'
<1> SUFFICES ASSUME CalendarInv, [CalendarNext]_calendarVars PROVE CalendarInv'
  OBVIOUS
<1>1. CASE Advance
  <2>1. CalendarShapes /\ OncePerPeriod /\ LeastDay
    BY DEF CalendarInv
  <2>2. /\ frequency' = frequency /\ start' = start /\ passed' = passed + 1
        /\ nextRunAt' = NextRunDate(nextRunAt, frequency)
    BY <1>1 DEF Advance
  <2>3. /\ frequency \in {"DAILY", "WEEKLY", "MONTHLY"} /\ passed \in Nat
        /\ start \in Dates /\ start.day =< DaysIn(start.year, start.month)
        /\ nextRunAt \in Dates /\ nextRunAt.day =< DaysIn(nextRunAt.year, nextRunAt.month)
    BY <2>1 DEF CalendarShapes
  <2>4. DayNumber(start) \in Int /\ DayNumber(nextRunAt) \in Int
        /\ MonthNumber(start) \in Int /\ MonthNumber(nextRunAt) \in Int
    <3>1. DayNumber(start) \in Int /\ DayNumber(nextRunAt) \in Int
      BY <2>3, DayNumberIs
    <3>2. MonthNumber(start) \in Int /\ MonthNumber(nextRunAt) \in Int
      BY <2>3 DEF MonthNumber, Dates
    <3> QED BY <3>1, <3>2
  <2>5. CASE frequency \in {"DAILY", "WEEKLY"}
    <3> DEFINE n == IF frequency = "DAILY" THEN 1 ELSE 7
    <3>1. nextRunAt' = PlusDays(nextRunAt, n) /\ n \in 1..28
      BY <2>2, <2>5 DEF NextRunDate
    <3> HIDE DEF n
    <3>2. /\ nextRunAt' \in Dates /\ nextRunAt'.day =< DaysIn(nextRunAt'.year, nextRunAt'.month)
          /\ DayNumber(nextRunAt') = DayNumber(nextRunAt) + n
      BY <2>3, <3>1, PlusDaysGoesOn
    <3>3. CalendarShapes'
      BY <2>2, <2>3, <3>2 DEF CalendarShapes
    <3>4. OncePerPeriod'
      <4>1. DayNumber(nextRunAt) = DayNumber(start) + n * passed
        BY <2>1, <2>3, <2>5 DEF OncePerPeriod, n
      <4>2. DayNumber(nextRunAt') = DayNumber(start) + n * (passed + 1)
        BY <2>3, <2>4, <2>5, <3>2, <4>1 DEF n
      <4> QED BY <2>2, <2>3, <2>5, <4>2 DEF OncePerPeriod, n
    <3>5. LeastDay'
      BY <2>2, <2>5 DEF LeastDay
    <3> QED BY <3>3, <3>4, <3>5 DEF CalendarInv
  <2>6. CASE frequency = "MONTHLY"
    <3> DEFINE then == Following(nextRunAt.year, nextRunAt.month)
               last == DaysIn(then[1], then[2])
               n == MonthNumber(nextRunAt)
    <3>1. nextRunAt' = PlusMonth(nextRunAt)
      BY <2>2, <2>6 DEF NextRunDate
    <3>2. /\ PlusMonth(nextRunAt) = [year |-> then[1], month |-> then[2],
                                     day |-> IF nextRunAt.day =< last THEN nextRunAt.day ELSE last]
          /\ PlusMonth(nextRunAt) \in Dates
          /\ PlusMonth(nextRunAt).day =< DaysIn(PlusMonth(nextRunAt).year, PlusMonth(nextRunAt).month)
          /\ MonthNumber(PlusMonth(nextRunAt)) = MonthNumber(nextRunAt) + 1
      BY <2>3, PlusMonthGoesOn
    <3>3. CalendarShapes'
      BY <2>2, <2>3, <3>1, <3>2 DEF CalendarShapes
    <3>4. OncePerPeriod'
      <4>1. MonthNumber(nextRunAt) = MonthNumber(start) + passed
        BY <2>1, <2>6 DEF OncePerPeriod
      <4>2. MonthNumber(nextRunAt') = MonthNumber(start) + (passed + 1)
        BY <2>3, <2>4, <3>1, <3>2, <4>1
      <4> QED BY <2>2, <2>6, <4>2 DEF OncePerPeriod
    <3>5. LeastDay'
      <4>1. n \in Int /\ MonthNumber(start) \in Int /\ MonthNumber(start) =< n + 1
        BY <2>1, <2>3, <2>4, <2>6 DEF OncePerPeriod
      <4>2. Months' = Months \cup {n + 1}
        <5>1. Months' = MonthNumber(start) .. n + 1 /\ Months = MonthNumber(start) .. n
          BY <2>2, <3>1, <3>2 DEF Months
        <5> HIDE DEF n
        <5> QED BY <4>1, <5>1
      <4>3. DaysIn((n + 1) \div 12, (n + 1) % 12) = last
        <5>1. then[1] \in Nat /\ then[2] \in 0..11 /\ n + 1 = 12 * then[1] + then[2]
          BY <2>3, FollowingIsMonth DEF Dates, MonthNumber
        <5> HIDE DEF n, then
        <5>2. (n + 1) \div 12 = then[1] /\ (n + 1) % 12 = then[2]
          BY <5>1, MonthOfNumber
        <5> QED BY <5>2
      <4>4. Allowances' = Allowances \cup {last}
        <5> HIDE DEF n, last
        <5> QED BY <2>2, <4>2, <4>3 DEF Allowances
      <4>5. nextRunAt'.day = IF nextRunAt.day =< last THEN nextRunAt.day ELSE last
        <5> HIDE DEF then, last
        <5> QED BY <3>1, <3>2
      <4>6. nextRunAt.day \in Int /\ last \in Int
        <5>1. then[1] \in Nat /\ then[2] \in 0..11
          BY <2>3, FollowingIsMonth DEF Dates
        <5> QED BY <2>3, <5>1, DaysInRange DEF Dates
      <4>7. nextRunAt.day \in Allowances /\ \A d \in Allowances : nextRunAt.day =< d
        BY <2>1, <2>6 DEF LeastDay
      <4>8. Allowances \subseteq Int
        BY <2>3, <4>7 DEF Allowances, Months, Dates, DaysIn
      <4> HIDE DEF last, n
      <4>9. nextRunAt'.day \in Allowances' /\ \A d \in Allowances' : nextRunAt'.day =< d
        BY <4>4, <4>5, <4>6, <4>7, <4>8
      <4> QED BY <4>9 DEF LeastDay
    <3> QED BY <3>3, <3>4, <3>5 DEF CalendarInv
  <2> QED BY <2>3, <2>5, <2>6
<1>2. CASE AfterLastDate \/ UNCHANGED calendarVars
  <2>1. UNCHANGED <<frequency, start, nextRunAt, passed>>
    BY <1>2 DEF AfterLastDate, calendarVars
  <2> QED BY <2>1 DEF CalendarInv, CalendarShapes, OncePerPeriod, LeastDay, Allowances, Months
<1> QED BY <1>1, <1>2 DEF CalendarNext

LEMMA CalendarInvariant == CalendarSpec => []CalendarInv
<1>1. CalendarInit => CalendarInv
  BY CalendarStarts
<1>2. CalendarInv /\ [CalendarNext]_calendarVars => CalendarInv'
  BY CalendarGoesOn
<1> QED BY <1>1, <1>2, PTL DEF CalendarSpec

(* For any years and any number of due dates, the n-th is n days, weeks or *)
(* months after the first (recurrence.js:21-45).                           *)
THEOREM NoPeriodSkippedOrRepeated == CalendarSpec => []OncePerPeriod
<1>1. CalendarInv => OncePerPeriod
  BY DEF CalendarInv
<1> QED BY <1>1, CalendarInvariant, PTL

(* A monthly mandate is due on the least of its first day and the lengths  *)
(* of the months it has passed (recurrence.js:35).                         *)
THEOREM ShortestMonthSetsTheDay == CalendarSpec => []DayDriftsToShortestMonth
<1>1. CalendarInv => DayDriftsToShortestMonth
  <2> SUFFICES ASSUME CalendarInv, frequency = "MONTHLY" PROVE DayDriftsToShortestMonth
    BY DEF DayDriftsToShortestMonth
  <2>1. nextRunAt.day \in Allowances /\ \A d \in Allowances : nextRunAt.day =< d
    BY DEF CalendarInv, LeastDay
  <2>2. Allowances \subseteq Int
    <3>1. start.day \in Int
      BY DEF CalendarInv, CalendarShapes, Dates
    <3> QED BY <3>1 DEF Allowances, Months, DaysIn
  <2>3. Min(Allowances) = nextRunAt.day
    BY <2>1, <2>2, LeastIsMin
  <2> QED BY <2>3 DEF DayDriftsToShortestMonth, Allowances, Months
<1> QED BY <1>1, CalendarInvariant, PTL

-------------------------------------------------------------------------------
(*****************************************************************************)
(* The migration.  What makes it safe to run again is that each document     *)
(* is written once, in one update; what makes it unsafe is the ledger stage, *)
(* which looks at the whole collection and then writes three documents per   *)
(* user.  LedgerOK says where a run is between an empty ledger and a ledger  *)
(* that backs every balance.                                                 *)
(*****************************************************************************)
USE AmountsAssumption

Stages == {"idle", "users", "txns", "participants", "ledger", "end"}

MigrationShapes ==
  /\ old \in [Users \cup Txns -> Nat]
  /\ user \in [Users -> [balance : Nat \cup {NoAmount}, balancePaise : Nat \cup {NoAmount}]]
  /\ txn \in [Txns -> [amount : Nat \cup {NoAmount}, amountPaise : Nat \cup {NoAmount}, participants : BOOLEAN]]
  /\ entry \in [Users -> [debit : Nat, credit : Nat, posted : Nat]]
  /\ run \in [at : Stages, dry : BOOLEAN, todo : SUBSET (Users \cup Txns),
              left : SUBSET (Users \X {"debit", "credit"})]
  /\ lostBy \in [converted : SUBSET Users, backed : SUBSET {"death", "server"}]

(* What the script has listed when its stage began is still to be done.    *)
ListOK ==
  /\ run.at \in {"idle", "end"} => run.todo = {}
  /\ run.at # "ledger" \/ run.dry => run.left = {}
  /\ \A e \in run.left : e[1] \notin run.todo
  /\ run.at = "end" => ~run.dry
  /\ run.at = "users" => \A u \in run.todo : u \in Users /\ user[u].balancePaise = NoAmount
  /\ run.at = "txns" => \A t \in run.todo : t \in Txns /\ txn[t].amount # NoAmount
  /\ run.at = "ledger" => run.todo \subseteq Users

(* A user not credited before the conversion has either amount, never both. *)
ConversionOK(u) ==
  /\ u \in lostBy.converted => user[u].balancePaise # NoAmount
  /\ u \notin lostBy.converted =>
       IF user[u].balance # NoAmount
       THEN user[u].balancePaise = NoAmount /\ user[u].balance = old[u] /\ entry[u].posted = 0
       ELSE user[u].balancePaise = RupeeFloatToPaise(old[u]) + entry[u].posted

TransactionOK(t) ==
  IF txn[t].amount # NoAmount THEN txn[t].amountPaise = NoAmount /\ txn[t].amount = old[t]
  ELSE txn[t].amountPaise = RupeeFloatToPaise(old[t])

(* What a run that is not dry has done for a user, stage by stage: it has  *)
(* converted the user, and at the ledger it has inserted the entries that  *)
(* are not left.                                                           *)
HasPaise(u) == user[u].balancePaise # NoAmount

Opened(u) ==
  LET opening == user[u].balancePaise - entry[u].posted
  IN /\ HasPaise(u)
     /\ IF u \in run.todo THEN entry[u] = NoEntries
        ELSE /\ entry[u].debit = IF <<u, "debit">> \in run.left THEN 0 ELSE opening
             /\ entry[u].credit = IF <<u, "credit">> \in run.left THEN 0 ELSE opening
     /\ (\E e \in run.left : e[1] = u) => entry[u].posted = 0

Backed(u) == HasPaise(u) /\ entry[u].debit = entry[u].credit /\ Drift(u) = 0

ConvertedSoFar ==
  ~run.dry =>
    /\ run.at = "users" => \A u \in Users \ run.todo : HasPaise(u)
    /\ run.at \in {"txns", "participants", "ledger", "end"} => \A u \in Users : HasPaise(u)

(* Nothing has been inserted yet, or every balance is backed, or a run is  *)
(* on its way from one to the other.                                       *)
LedgerOK ==
  lostBy.backed = {} =>
    \/ run.at # "end" /\ ~(run.at = "ledger" /\ ~run.dry) /\ LedgerIsEmpty
    \/ ~(run.at = "ledger" /\ ~run.dry) /\ \A u \in Users : Backed(u)
    \/ run.at = "ledger" /\ ~run.dry /\ \A u \in Users : Opened(u)

MigrationInv ==
  /\ MigrationShapes
  /\ ListOK
  /\ \A u \in Users : ConversionOK(u)
  /\ \A t \in Txns : TransactionOK(t)
  /\ ConvertedSoFar
  /\ LedgerOK

LEMMA NearestPaisa ==
  ASSUME NEW x \in Nat
  PROVE  RupeeFloatToPaise(x) \in Nat /\ 10 * RupeeFloatToPaise(x) - x \in -5 .. 5
  BY DEF RupeeFloatToPaise

LEMMA NoAmountIsNoNumber == \A n \in Int : n # NoAmount
  OBVIOUS

LEMMA StageAfterIsStage ==
  ASSUME NEW s \in Stages
  PROVE  StageAfter(s) \in Stages \ {"idle"} /\ (StageAfter(s) = "users" <=> s = "idle")
         /\ (StageAfter(s) = "txns" <=> s = "users")
         /\ (StageAfter(s) = "participants" <=> s = "txns")
         /\ (StageAfter(s) = "ledger" <=> s = "participants")
         /\ (StageAfter(s) = "end" <=> s \in {"ledger", "end"})
  BY DEF Stages, StageAfter

(* The fields of a user, of the entries and of the script.                 *)
LEMMA FieldsOK ==
  ASSUME MigrationShapes
  PROVE  /\ run.at \in Stages /\ run.dry \in BOOLEAN
         /\ run.todo \subseteq Users \cup Txns /\ run.left \subseteq Users \X {"debit", "credit"}
         /\ run = [at |-> run.at, dry |-> run.dry, todo |-> run.todo, left |-> run.left]
         /\ \A u \in Users : /\ user[u].balance \in Nat \cup {NoAmount}
                             /\ user[u].balancePaise \in Nat \cup {NoAmount}
                             /\ entry[u] = [debit |-> entry[u].debit, credit |-> entry[u].credit,
                                            posted |-> entry[u].posted]
                             /\ entry[u].debit \in Nat /\ entry[u].credit \in Nat /\ entry[u].posted \in Nat
         /\ \A d \in Users \cup Txns : old[d] \in Nat
  BY DEF MigrationShapes

LEMMA TodoIs ==
  /\ Todo("users") = {u \in Users : user[u].balance # NoAmount /\ user[u].balancePaise = NoAmount}
  /\ Todo("txns") = {t \in Txns : txn[t].amount # NoAmount /\ txn[t].amountPaise = NoAmount}
  /\ Todo("participants") = {t \in Txns : ~txn[t].participants}
  /\ Todo("ledger") = {u \in Users : LedgerIsEmpty /\ user[u].balancePaise \notin {NoAmount, 0}}
  /\ \A s \in Stages : Todo(s) \subseteq Users \cup Txns
  BY DEF Todo, Stages

(* Once the rupees of a user are gone there are paise.                     *)
LEMMA NeitherNever ==
  ASSUME MigrationInv, NEW u \in Users, user[u].balance = NoAmount
  PROVE  HasPaise(u)
<1>1. CASE u \in lostBy.converted
  BY <1>1 DEF MigrationInv, ConversionOK, HasPaise
<1>2. CASE u \notin lostBy.converted
  <2>1. user[u].balancePaise = RupeeFloatToPaise(old[u]) + entry[u].posted
    BY <1>2 DEF MigrationInv, ConversionOK
  <2>2. RupeeFloatToPaise(old[u]) \in Nat /\ entry[u].posted \in Nat
    BY NearestPaisa, FieldsOK DEF MigrationInv
  <2> QED BY <2>1, <2>2, NoAmountIsNoNumber DEF HasPaise
<1> QED BY <1>1, <1>2

LEMMA MigrationStarts == MigrationInit => MigrationInv
<1> SUFFICES ASSUME MigrationInit PROVE MigrationInv
  OBVIOUS
<1>1. old \in [Users \cup Txns -> Nat]
  BY DEF MigrationInit
<1>2. /\ user = [u \in Users |-> [balance |-> old[u], balancePaise |-> NoAmount]]
      /\ txn = [t \in Txns |-> [amount |-> old[t], amountPaise |-> NoAmount, participants |-> FALSE]]
      /\ entry = [u \in Users |-> [debit |-> 0, credit |-> 0, posted |-> 0]]
      /\ run.at = "idle" /\ run.dry = FALSE /\ run.todo = {} /\ run.left = {}
      /\ lostBy = [converted |-> {}, backed |-> {}]
  BY DEF MigrationInit, Idle, NoEntries
<1>3. run \in [at : Stages, dry : BOOLEAN, todo : SUBSET (Users \cup Txns),
                left : SUBSET (Users \X {"debit", "credit"})]
  BY DEF MigrationInit, Idle, Stages
<1>4. MigrationShapes
  BY <1>1, <1>2, <1>3 DEF MigrationShapes
<1>5. ListOK
  BY <1>2 DEF ListOK
<1>6. ASSUME NEW u \in Users PROVE ConversionOK(u)
  BY <1>1, <1>2, NoAmountIsNoNumber DEF ConversionOK
<1>7. ASSUME NEW t \in Txns PROVE TransactionOK(t)
  BY <1>1, <1>2, NoAmountIsNoNumber DEF TransactionOK
<1>8. ConvertedSoFar
  BY <1>2 DEF ConvertedSoFar
<1>9. LedgerOK
  BY <1>2 DEF LedgerOK, LedgerIsEmpty, NoEntries
<1> QED BY <1>4, <1>5, <1>6, <1>7, <1>8, <1>9 DEF MigrationInv

(* Steps that write no document but may begin a stage or end the run.      *)
MigrationDocs == <<user, txn, entry, old>>

LEMMA SameDocuments ==
  ASSUME MigrationInv, UNCHANGED MigrationDocs, lostBy'.converted = lostBy.converted
  PROVE  /\ \A u \in Users : ConversionOK(u)'
         /\ \A t \in Txns : TransactionOK(t)'
         /\ LedgerIsEmpty' = LedgerIsEmpty
         /\ \A u \in Users : HasPaise(u)' = HasPaise(u) /\ Backed(u)' = Backed(u)
<1>1. user' = user /\ txn' = txn /\ entry' = entry /\ old' = old
  BY DEF MigrationDocs
<1>2. ASSUME NEW u \in Users PROVE ConversionOK(u)'
  BY <1>1 DEF MigrationInv, ConversionOK
<1>3. ASSUME NEW t \in Txns PROVE TransactionOK(t)'
  BY <1>1 DEF MigrationInv, TransactionOK
<1>4. LedgerIsEmpty' = LedgerIsEmpty
  BY <1>1 DEF LedgerIsEmpty
<1>5. ASSUME NEW u \in Users PROVE HasPaise(u)' = HasPaise(u) /\ Backed(u)' = Backed(u)
  BY <1>1 DEF HasPaise, Backed, Drift, LedgerBalance
<1> QED BY <1>2, <1>3, <1>4, <1>5

LEMMA StartKeeps == MigrationInv /\ Start => MigrationInv'
<1> SUFFICES ASSUME MigrationInv, Start PROVE MigrationInv'
  OBVIOUS
<1>1. PICK dry \in BOOLEAN : run' = [Idle EXCEPT !.at = "users", !.dry = dry, !.todo = Todo("users")]
  BY DEF Start, StageAfter
<1>2. run' = [at |-> "users", dry |-> dry, todo |-> Todo("users"), left |-> {}]
  BY <1>1 DEF Idle
<1>3. run.at = "idle" /\ UNCHANGED MigrationDocs /\ lostBy' = lostBy
  BY DEF Start, MigrationDocs
<1>4. MigrationShapes'
  BY <1>2, <1>3, TodoIs DEF MigrationInv, MigrationShapes, MigrationDocs, Stages
<1>5. ListOK'
  BY <1>2, <1>3, TodoIs DEF ListOK, MigrationDocs
<1>6. /\ \A u \in Users : ConversionOK(u)'
      /\ \A t \in Txns : TransactionOK(t)'
      /\ LedgerIsEmpty' = LedgerIsEmpty
      /\ \A u \in Users : HasPaise(u)' = HasPaise(u) /\ Backed(u)' = Backed(u)
  BY <1>3, SameDocuments
<1>7. ConvertedSoFar'
  <2>1. ASSUME NEW u \in Users \ Todo("users") PROVE HasPaise(u)
    BY <2>1, TodoIs, NeitherNever DEF HasPaise
  <2> QED BY <1>2, <1>6, <2>1 DEF ConvertedSoFar
<1>8. LedgerOK'
  BY <1>2, <1>3, <1>6 DEF MigrationInv, LedgerOK
<1> QED BY <1>4, <1>5, <1>6, <1>7, <1>8 DEF MigrationInv

(* When a stage is done: what has been opened is backed.                   *)
LEMMA OpenedIsBacked ==
  ASSUME MigrationShapes, run.todo = {}, run.left = {}, NEW u \in Users, Opened(u)
  PROVE  Backed(u)
<1> DEFINE b == user[u].balancePaise
           e == entry[u]
<1>1. b # NoAmount /\ b \in Nat \cup {NoAmount} /\ e.debit \in Nat /\ e.credit \in Nat /\ e.posted \in Nat
  BY FieldsOK DEF Opened, HasPaise
<1>2. e.debit = b - e.posted /\ e.credit = b - e.posted
  BY DEF Opened
<1>3. Drift(u) = b - (e.credit + e.posted)
  BY <1>1 DEF Drift, LedgerBalance
<1> HIDE DEF b, e
<1>4. e.debit = e.credit /\ Drift(u) = 0
  BY <1>1, <1>2, <1>3
<1> QED BY <1>1, <1>4 DEF Backed, HasPaise, b, e

(* The ledger stage lists whom it has to open.                             *)
LEMMA ListedIsOpened ==
  ASSUME MigrationShapes, NEW u \in Users, HasPaise(u), LedgerIsEmpty \/ Backed(u)
  PROVE  LET opening == user[u].balancePaise - entry[u].posted
         IN IF u \in Todo("ledger") THEN entry[u] = NoEntries
            ELSE entry[u].debit = opening /\ entry[u].credit = opening
<1> DEFINE b == user[u].balancePaise
           e == entry[u]
<1>1. b \in Nat /\ b # NoAmount /\ e.debit \in Nat /\ e.credit \in Nat /\ e.posted \in Nat
  BY FieldsOK DEF HasPaise
<1>2. CASE LedgerIsEmpty
  <2>1. entry[u] = NoEntries
    BY <1>2 DEF LedgerIsEmpty
  <2>2. e.debit = 0 /\ e.credit = 0 /\ e.posted = 0
    BY <2>1 DEF NoEntries
  <2>3. u \notin Todo("ledger") => b = 0
    BY <1>1, <1>2, TodoIs
  <2> QED BY <2>1, <2>2, <2>3
<1>3. CASE ~LedgerIsEmpty
  <2>1. u \notin Todo("ledger")
    BY <1>3, TodoIs
  <2>2. e.debit = e.credit /\ b - (e.credit + e.posted) = 0
    BY <1>1, <1>3 DEF Backed, Drift, LedgerBalance
  <2> HIDE DEF b, e
  <2>3. e.debit = b - e.posted /\ e.credit = b - e.posted
    BY <1>1, <2>2
  <2> QED BY <2>1, <2>3 DEF b, e
<1> QED BY <1>2, <1>3

LEMMA NextStageKeeps == MigrationInv /\ NextStage => MigrationInv'
<1> SUFFICES ASSUME MigrationInv, NextStage PROVE MigrationInv'
  OBVIOUS
<1> DEFINE then == StageAfter(run.at)
<1>1. run.at # "idle" /\ run.todo = {} /\ run.left = {} /\ UNCHANGED MigrationDocs /\ lostBy' = lostBy
  BY DEF NextStage, MigrationDocs
<1>2. /\ run.at \in Stages /\ run.dry \in BOOLEAN
      /\ run = [at |-> run.at, dry |-> run.dry, todo |-> run.todo, left |-> run.left]
  BY FieldsOK DEF MigrationInv
<1>3. /\ then \in Stages \ {"idle"} /\ then # "users"
      /\ (then = "txns" <=> run.at = "users")
      /\ (then = "participants" <=> run.at = "txns")
      /\ (then = "ledger" <=> run.at = "participants")
      /\ (then = "end" <=> run.at \in {"ledger", "end"})
  BY <1>1, <1>2, StageAfterIsStage
<1>4. run' = IF then = "end"
             THEN [at |-> IF run.dry THEN "idle" ELSE "end", dry |-> FALSE, todo |-> {}, left |-> {}]
             ELSE [at |-> then, dry |-> run.dry, todo |-> Todo(then), left |-> {}]
  <2> DEFINE rest == IF run.dry THEN "idle" ELSE "end"
             list == Todo(then)
  <2>1. run' = IF then = "end" THEN [Idle EXCEPT !.at = rest] ELSE [run EXCEPT !.at = then, !.todo = list]
    BY DEF NextStage
  <2> HIDE DEF then, rest, list
  <2>2. CASE then = "end"
    <3>1. run' = [Idle EXCEPT !.at = rest]
      BY <2>1, <2>2
    <3>2. run' = [at |-> rest, dry |-> FALSE, todo |-> {}, left |-> {}]
      BY <3>1 DEF Idle
    <3> QED BY <2>2, <3>2 DEF rest
  <2>3. CASE then # "end"
    <3>1. run' = [run EXCEPT !.at = then, !.todo = list]
      BY <2>1, <2>3
    <3>2. run' = [at |-> then, dry |-> run.dry, todo |-> list, left |-> {}]
      BY <1>1, <1>2, <3>1
    <3> QED BY <2>3, <3>2 DEF list
  <2> QED BY <2>2, <2>3
<1> HIDE DEF then
<1>5. MigrationShapes'
  <2>1. run' \in [at : Stages, dry : BOOLEAN, todo : SUBSET (Users \cup Txns),
                  left : SUBSET (Users \X {"debit", "credit"})]
    BY <1>2, <1>3, <1>4, TodoIs DEF Stages
  <2> QED BY <1>1, <2>1 DEF MigrationInv, MigrationShapes, MigrationDocs
<1>6. ListOK'
  <2>1. run'.left = {} /\ (run'.at \in {"idle", "end"} => run'.todo = {}) /\ run'.at # "users"
        /\ (run'.at = "end" => ~run'.dry)
    BY <1>3, <1>4
  <2>2. run'.at = "txns" => run'.todo = Todo("txns")
    BY <1>3, <1>4
  <2>3. run'.at = "ledger" => run'.todo = Todo("ledger")
    BY <1>3, <1>4
  <2> QED BY <1>1, <2>1, <2>2, <2>3, TodoIs DEF ListOK, MigrationDocs
<1>7. /\ \A u \in Users : ConversionOK(u)'
      /\ \A t \in Txns : TransactionOK(t)'
      /\ LedgerIsEmpty' = LedgerIsEmpty
      /\ \A u \in Users : HasPaise(u)' = HasPaise(u) /\ Backed(u)' = Backed(u)
  BY <1>1, SameDocuments
<1>8. ASSUME ~run'.dry, run'.at # "idle" PROVE ~run.dry /\ \A u \in Users : HasPaise(u)
  <2>1. ~run.dry
    BY <1>2, <1>4, <1>8
  <2>2. CASE run.at = "users"
    BY <1>1, <2>1, <2>2 DEF MigrationInv, ConvertedSoFar
  <2>3. CASE run.at # "users"
    BY <1>1, <1>2, <2>1, <2>3 DEF MigrationInv, ConvertedSoFar, Stages
  <2> QED BY <2>1, <2>2, <2>3
<1>9. ConvertedSoFar'
  BY <1>7, <1>8, <1>6 DEF ConvertedSoFar
<1>10. LedgerOK'
  <2> SUFFICES ASSUME lostBy.backed = {} PROVE LedgerOK'
    BY <1>1 DEF LedgerOK
  <2>1. \/ run.at # "end" /\ ~(run.at = "ledger" /\ ~run.dry) /\ LedgerIsEmpty
        \/ ~(run.at = "ledger" /\ ~run.dry) /\ \A u \in Users : Backed(u)
        \/ run.at = "ledger" /\ ~run.dry /\ \A u \in Users : Opened(u)
    BY DEF MigrationInv, LedgerOK
  <2>2. CASE run.at = "ledger" /\ ~run.dry
    <3>1. \A u \in Users : Backed(u)
      BY <1>1, <2>1, <2>2, OpenedIsBacked DEF MigrationInv
    <3>2. run'.at = "end"
      BY <1>3, <1>4, <2>2
    <3> QED BY <1>7, <3>1, <3>2 DEF LedgerOK
  <2>3. CASE run.at = "ledger" /\ run.dry
    <3>1. run'.at = "idle"
      BY <1>3, <1>4, <2>3
    <3> QED BY <1>7, <2>1, <2>3, <3>1 DEF LedgerOK
  <2>4. CASE run.at = "end"
    <3>1. run'.at = "end" /\ \A u \in Users : Backed(u)
      BY <1>3, <1>4, <2>1, <2>4 DEF MigrationInv, ListOK
    <3> QED BY <1>7, <3>1 DEF LedgerOK
  <2>5. CASE run.at = "participants" /\ ~run.dry
    <3>1. run' = [at |-> "ledger", dry |-> run.dry, todo |-> Todo("ledger"), left |-> {}]
      BY <1>3, <1>4, <2>5
    <3>2. ASSUME NEW u \in Users PROVE Opened(u)'
      <4>1. HasPaise(u)
        BY <1>8, <2>5, <3>1
      <4>2. LedgerIsEmpty \/ Backed(u)
        BY <2>1, <2>5
      <4> DEFINE opening == user[u].balancePaise - entry[u].posted
      <4>3. IF u \in Todo("ledger") THEN entry[u] = NoEntries
            ELSE entry[u].debit = opening /\ entry[u].credit = opening
        BY <4>1, <4>2, ListedIsOpened DEF MigrationInv
      <4>4. user' = user /\ entry' = entry /\ run'.todo = Todo("ledger") /\ run'.left = {}
        BY <1>1, <3>1 DEF MigrationDocs
      <4> QED BY <4>1, <4>3, <4>4 DEF Opened, HasPaise
    <3> QED BY <2>5, <3>1, <3>2 DEF LedgerOK
  <2>6. CASE run.at \in {"users", "txns"} \/ (run.at = "participants" /\ run.dry)
    <3>1. run'.at \notin {"end", "idle"} /\ ~(run'.at = "ledger" /\ ~run'.dry)
      BY <1>2, <1>3, <1>4, <2>6
    <3>2. LedgerIsEmpty \/ \A u \in Users : Backed(u)
      BY <2>1, <2>6
    <3> QED BY <1>7, <3>1, <3>2 DEF LedgerOK
  <2> QED BY <1>1, <1>2, <2>2, <2>3, <2>4, <2>5, <2>6 DEF Stages
<1> QED BY <1>5, <1>6, <1>7, <1>9, <1>10 DEF MigrationInv

LEMMA DieKeeps == MigrationInv /\ Die => MigrationInv'
<1> SUFFICES ASSUME MigrationInv, Die PROVE MigrationInv'
  OBVIOUS
<1>1. /\ run' = [at |-> "idle", dry |-> FALSE, todo |-> {}, left |-> {}]
      /\ run.at \notin {"idle", "end"} /\ UNCHANGED MigrationDocs
  BY DEF Die, Idle, MigrationDocs
<1> DEFINE lost == {s \in {"death"} : run.at = "ledger" /\ ~LedgerIsEmpty /\ run.todo \cup run.left # {}}
<1>2. lostBy'.converted = lostBy.converted /\ lostBy'.backed = lostBy.backed \cup lost
      /\ lostBy' \in [converted : SUBSET Users, backed : SUBSET {"death", "server"}]
  <2>1. lostBy' = [lostBy EXCEPT !.backed = @ \cup lost] /\ lost \subseteq {"death"}
    BY DEF Die
  <2> HIDE DEF lost
  <2> QED BY <2>1 DEF MigrationInv, MigrationShapes
<1>3. MigrationShapes'
  BY <1>1, <1>2 DEF MigrationInv, MigrationShapes, MigrationDocs, Stages
<1>4. ListOK'
  BY <1>1 DEF ListOK
<1>5. /\ \A u \in Users : ConversionOK(u)'
      /\ \A t \in Txns : TransactionOK(t)'
      /\ LedgerIsEmpty' = LedgerIsEmpty
      /\ \A u \in Users : HasPaise(u)' = HasPaise(u) /\ Backed(u)' = Backed(u)
  BY <1>1, <1>2, SameDocuments
<1>6. ConvertedSoFar'
  BY <1>1 DEF ConvertedSoFar
<1>7. LedgerOK'
  <2> SUFFICES ASSUME lostBy'.backed = {} PROVE LedgerOK'
    BY DEF LedgerOK
  <2>1. lostBy.backed = {} /\ (run.at = "ledger" /\ ~LedgerIsEmpty => run.todo = {} /\ run.left = {})
    BY <1>2
  <2>2. LedgerIsEmpty \/ \A u \in Users : Backed(u)
    <3>1. CASE run.at = "ledger" /\ ~LedgerIsEmpty /\ \A u \in Users : Opened(u)
      BY <2>1, <3>1, OpenedIsBacked DEF MigrationInv
    <3> QED BY <1>1, <2>1, <3>1 DEF MigrationInv, LedgerOK
  <2> QED BY <1>1, <1>5, <2>2 DEF LedgerOK
<1> QED BY <1>3, <1>4, <1>5, <1>6, <1>7 DEF MigrationInv

LEMMA AgainKeeps == MigrationInv /\ Again => MigrationInv'
<1> SUFFICES ASSUME MigrationInv, Again PROVE MigrationInv'
  OBVIOUS
<1>1. /\ run' = [at |-> "idle", dry |-> FALSE, todo |-> {}, left |-> {}]
      /\ run.at = "end" /\ UNCHANGED MigrationDocs /\ lostBy' = lostBy
  BY DEF Again, Idle, MigrationDocs
<1>2. MigrationShapes'
  BY <1>1 DEF MigrationInv, MigrationShapes, MigrationDocs, Stages
<1>3. /\ \A u \in Users : ConversionOK(u)'
      /\ \A t \in Txns : TransactionOK(t)'
      /\ LedgerIsEmpty' = LedgerIsEmpty
      /\ \A u \in Users : HasPaise(u)' = HasPaise(u) /\ Backed(u)' = Backed(u)
  BY <1>1, SameDocuments
<1>4. ListOK' /\ ConvertedSoFar'
  BY <1>1 DEF ListOK, ConvertedSoFar
<1>5. LedgerOK'
  BY <1>1, <1>3 DEF MigrationInv, LedgerOK
<1> QED BY <1>2, <1>3, <1>4, <1>5 DEF MigrationInv

(* Taking a document from the list, whatever is then done with it.         *)
LEMMA TakenFromList ==
  ASSUME MigrationInv, NEW stage \in {"users", "txns", "participants"}, NEW d, Takes(stage, d)
  PROVE  /\ run' = [at |-> stage, dry |-> run.dry, todo |-> run.todo \ {d}, left |-> {}]
         /\ run.at = stage /\ d \in run.todo
         /\ run' \in [at : Stages, dry : BOOLEAN, todo : SUBSET (Users \cup Txns),
                      left : SUBSET (Users \X {"debit", "credit"})]
<1>1. /\ run.dry \in BOOLEAN /\ run.todo \subseteq Users \cup Txns
      /\ run = [at |-> run.at, dry |-> run.dry, todo |-> run.todo, left |-> run.left]
  BY FieldsOK DEF MigrationInv
<1>2. run.at = stage /\ d \in run.todo /\ run.left = {} /\ run' = [run EXCEPT !.todo = @ \ {d}]
  BY DEF Takes
<1>3. run' = [at |-> stage, dry |-> run.dry, todo |-> run.todo \ {d}, left |-> {}]
  BY <1>1, <1>2
<1> QED BY <1>1, <1>2, <1>3 DEF Stages

LEMMA ConvertUserKeeps ==
  ASSUME MigrationInv, NEW u \in Users, ConvertUser(u)
  PROVE  MigrationInv'
<1>1. /\ run' = [at |-> "users", dry |-> run.dry, todo |-> run.todo \ {u}, left |-> {}]
      /\ run.at = "users" /\ u \in run.todo
      /\ run' \in [at : Stages, dry : BOOLEAN, todo : SUBSET (Users \cup Txns),
                   left : SUBSET (Users \X {"debit", "credit"})]
  BY TakenFromList DEF ConvertUser
<1>2. txn' = txn /\ entry' = entry /\ old' = old /\ lostBy' = lostBy
  BY DEF ConvertUser
<1>3. /\ user[u].balancePaise = NoAmount /\ user[u].balance # NoAmount /\ u \notin lostBy.converted
      /\ user[u].balance = old[u] /\ entry[u].posted = 0
  <2>1. user[u].balancePaise = NoAmount
    BY <1>1 DEF MigrationInv, ListOK
  <2>2. ~HasPaise(u)
    BY <2>1 DEF HasPaise
  <2>3. user[u].balance # NoAmount
    BY <2>2, NeitherNever
  <2> QED BY <2>1, <2>3 DEF MigrationInv, ConversionOK
<1>4. /\ user' \in [Users -> [balance : Nat \cup {NoAmount}, balancePaise : Nat \cup {NoAmount}]]
      /\ \A v \in Users : v # u \/ run.dry => user'[v] = user[v]
      /\ ~run.dry => user'[u] = [balance |-> NoAmount, balancePaise |-> RupeeFloatToPaise(old[u])]
  <2>1. RupeeFloatToPaise(old[u]) \in Nat
    BY NearestPaisa, FieldsOK DEF MigrationInv
  <2>2. user \in [Users -> [balance : Nat \cup {NoAmount}, balancePaise : Nat \cup {NoAmount}]]
    BY DEF MigrationInv, MigrationShapes
  <2> QED BY <1>3, <2>1, <2>2 DEF ConvertUser
<1>5. MigrationShapes'
  BY <1>1, <1>2, <1>4 DEF MigrationInv, MigrationShapes
<1>6. ListOK'
  BY <1>1, <1>4 DEF MigrationInv, ListOK
<1>7. ASSUME NEW v \in Users PROVE ConversionOK(v)'
  <2>1. CASE v = u /\ ~run.dry
    <3>1. RupeeFloatToPaise(old[u]) \in Nat
      BY NearestPaisa, FieldsOK DEF MigrationInv
    <3> QED BY <1>2, <1>3, <1>4, <2>1, <3>1 DEF ConversionOK
  <2>2. CASE v # u \/ run.dry
    <3>1. user'[v] = user[v]
      BY <1>4, <2>2
    <3> QED BY <1>2, <3>1 DEF MigrationInv, ConversionOK
  <2> QED BY <2>1, <2>2
<1>8. ASSUME NEW t \in Txns PROVE TransactionOK(t)'
  BY <1>2 DEF MigrationInv, TransactionOK
<1>9. ConvertedSoFar'
  <2> SUFFICES ASSUME ~run.dry, NEW v \in Users \ (run.todo \ {u}) PROVE HasPaise(v)'
    BY <1>1 DEF ConvertedSoFar
  <2>1. CASE v = u
    <3>1. RupeeFloatToPaise(old[u]) \in Nat
      BY NearestPaisa, FieldsOK DEF MigrationInv
    <3> QED BY <1>4, <2>1, <3>1, NoAmountIsNoNumber DEF HasPaise
  <2>2. CASE v # u
    BY <1>1, <1>4, <2>2 DEF MigrationInv, ConvertedSoFar, HasPaise
  <2> QED BY <2>1, <2>2
<1>10. LedgerOK'
  <2>1. ~HasPaise(u)
    BY <1>3 DEF HasPaise
  <2>2. lostBy.backed = {} => LedgerIsEmpty
    BY <1>1, <2>1 DEF MigrationInv, LedgerOK, Backed
  <2> QED BY <1>1, <1>2, <2>2 DEF LedgerOK, LedgerIsEmpty
<1> QED BY <1>5, <1>6, <1>7, <1>8, <1>9, <1>10 DEF MigrationInv

(* The two stages that write transactions leave users and entries alone.   *)
LEMMA TransactionStageKeeps ==
  ASSUME MigrationInv, NEW stage \in {"txns", "participants"}, NEW t \in Txns, Takes(stage, t),
         UNCHANGED <<user, entry, old, lostBy>>,
         txn' \in [Txns -> [amount : Nat \cup {NoAmount}, amountPaise : Nat \cup {NoAmount}, participants : BOOLEAN]],
         \A s \in Txns : TransactionOK(s)',
         \A s \in Txns : s # t /\ txn[s].amount # NoAmount => txn'[s].amount # NoAmount
  PROVE  MigrationInv'
<1>1. /\ run' = [at |-> stage, dry |-> run.dry, todo |-> run.todo \ {t}, left |-> {}]
      /\ run.at = stage /\ t \in run.todo
      /\ run' \in [at : Stages, dry : BOOLEAN, todo : SUBSET (Users \cup Txns),
                   left : SUBSET (Users \X {"debit", "credit"})]
  BY TakenFromList
<1>2. MigrationShapes'
  BY <1>1 DEF MigrationInv, MigrationShapes
<1>3. ListOK'
  BY <1>1 DEF MigrationInv, ListOK
<1>4. ASSUME NEW v \in Users PROVE ConversionOK(v)'
  BY DEF MigrationInv, ConversionOK
<1>5. ConvertedSoFar'
  BY <1>1 DEF MigrationInv, ConvertedSoFar, HasPaise
<1>6. LedgerOK'
  <2>1. lostBy.backed = {} => LedgerIsEmpty \/ \A v \in Users : Backed(v)
    BY <1>1 DEF MigrationInv, LedgerOK
  <2> QED BY <1>1, <2>1 DEF LedgerOK, LedgerIsEmpty, Backed, HasPaise, Drift, LedgerBalance
<1> QED BY <1>2, <1>3, <1>4, <1>5, <1>6 DEF MigrationInv

LEMMA ConvertTransactionKeeps ==
  ASSUME MigrationInv, NEW t \in Txns, ConvertTransaction(t)
  PROVE  MigrationInv'
<1>1. Takes("txns", t) /\ UNCHANGED <<user, entry, old, lostBy>>
  BY DEF ConvertTransaction
<1>2. t \in run.todo /\ run.at = "txns"
  BY <1>1 DEF Takes
<1>3. txn[t].amount # NoAmount /\ txn[t].amount = old[t] /\ old[t] \in Nat
  BY <1>2, FieldsOK DEF MigrationInv, ListOK, TransactionOK
<1>4. RupeeFloatToPaise(old[t]) \in Nat
  BY <1>3, NearestPaisa
<1>5. txn \in [Txns -> [amount : Nat \cup {NoAmount}, amountPaise : Nat \cup {NoAmount}, participants : BOOLEAN]]
  BY DEF MigrationInv, MigrationShapes
<1>6. /\ txn' \in [Txns -> [amount : Nat \cup {NoAmount}, amountPaise : Nat \cup {NoAmount}, participants : BOOLEAN]]
      /\ \A s \in Txns : s # t \/ run.dry => txn'[s] = txn[s]
      /\ ~run.dry => txn'[t].amount = NoAmount /\ txn'[t].amountPaise = RupeeFloatToPaise(old[t])
  BY <1>3, <1>4, <1>5 DEF ConvertTransaction
<1>7. ASSUME NEW s \in Txns PROVE TransactionOK(s)'
  <2>1. CASE s = t /\ ~run.dry
    BY <1>1, <1>6, <2>1 DEF TransactionOK
  <2>2. CASE s # t \/ run.dry
    <3>1. txn'[s] = txn[s]
      BY <1>6, <2>2
    <3> QED BY <1>1, <3>1 DEF MigrationInv, TransactionOK
  <2> QED BY <2>1, <2>2
<1> QED BY <1>1, <1>6, <1>7, TransactionStageKeeps

LEMMA BackfillKeeps ==
  ASSUME MigrationInv, NEW t \in Txns, BackfillParticipants(t)
  PROVE  MigrationInv'
<1>1. Takes("participants", t) /\ UNCHANGED <<user, entry, old, lostBy>>
  BY DEF BackfillParticipants
<1>2. txn \in [Txns -> [amount : Nat \cup {NoAmount}, amountPaise : Nat \cup {NoAmount}, participants : BOOLEAN]]
  BY DEF MigrationInv, MigrationShapes
<1>3. /\ txn' \in [Txns -> [amount : Nat \cup {NoAmount}, amountPaise : Nat \cup {NoAmount}, participants : BOOLEAN]]
      /\ \A s \in Txns : txn'[s].amount = txn[s].amount /\ txn'[s].amountPaise = txn[s].amountPaise
  BY <1>2 DEF BackfillParticipants
<1>4. \A s \in Txns : TransactionOK(s)'
  BY <1>1, <1>3 DEF MigrationInv, TransactionOK
<1> QED BY <1>1, <1>3, <1>4, TransactionStageKeeps

(* The ledger stage.                                                       *)
LEMMA OpenLedgerKeeps ==
  ASSUME MigrationInv, NEW u \in Users, OpenLedger(u)
  PROVE  MigrationInv'
<1>1. /\ run.dry \in BOOLEAN /\ run.todo \subseteq Users \cup Txns
      /\ run = [at |-> run.at, dry |-> run.dry, todo |-> run.todo, left |-> run.left]
  BY FieldsOK DEF MigrationInv
<1> DEFINE both == IF run.dry THEN {} ELSE {<<u, "debit">>, <<u, "credit">>}
<1>2. /\ run.at = "ledger" /\ u \in run.todo /\ run.left = {} /\ UNCHANGED MigrationDocs /\ lostBy' = lostBy
      /\ run' = [run EXCEPT !.todo = @ \ {u}, !.left = both]
  BY DEF OpenLedger, MigrationDocs
<1>3. run' = [at |-> "ledger", dry |-> run.dry, todo |-> run.todo \ {u}, left |-> both]
  <2> HIDE DEF both
  <2> QED BY <1>1, <1>2
<1>4. MigrationShapes'
  <2>1. both \subseteq Users \X {"debit", "credit"}
    OBVIOUS
  <2> HIDE DEF both
  <2>2. run' \in [at : Stages, dry : BOOLEAN, todo : SUBSET (Users \cup Txns),
                  left : SUBSET (Users \X {"debit", "credit"})]
    BY <1>1, <1>3, <2>1 DEF Stages
  <2> QED BY <1>2, <2>2 DEF MigrationInv, MigrationShapes, MigrationDocs
<1>5. ListOK'
  BY <1>2, <1>3 DEF MigrationInv, ListOK
<1>6. /\ \A v \in Users : ConversionOK(v)'
      /\ \A t \in Txns : TransactionOK(t)'
      /\ LedgerIsEmpty' = LedgerIsEmpty
      /\ \A v \in Users : HasPaise(v)' = HasPaise(v) /\ Backed(v)' = Backed(v)
  BY <1>2, SameDocuments
<1>7. ConvertedSoFar'
  BY <1>2, <1>3, <1>6 DEF MigrationInv, ConvertedSoFar
<1>8. LedgerOK'
  <2> SUFFICES ASSUME lostBy.backed = {} PROVE LedgerOK'
    BY <1>2 DEF LedgerOK
  <2>1. CASE run.dry
    BY <1>2, <1>3, <1>6, <2>1 DEF MigrationInv, LedgerOK
  <2>2. CASE ~run.dry
    <3>1. ASSUME NEW v \in Users PROVE Opened(v)'
      <4>1. Opened(v) /\ Opened(u) /\ user' = user /\ entry' = entry
        BY <1>2, <2>2 DEF MigrationInv, LedgerOK, MigrationDocs
      <4>2. CASE v = u
        <5>1. entry[u] = NoEntries /\ HasPaise(u)
          BY <1>2, <4>1 DEF Opened
        <5>2. entry[u].debit = 0 /\ entry[u].credit = 0 /\ entry[u].posted = 0
          BY <5>1 DEF NoEntries
        <5>3. u \notin run'.todo /\ run'.left = {<<u, "debit">>, <<u, "credit">>}
          BY <1>3, <2>2
        <5> QED BY <4>1, <4>2, <5>1, <5>2, <5>3 DEF Opened, HasPaise
      <4>3. CASE v # u
        <5>1. (v \in run'.todo <=> v \in run.todo) /\ run.left = {}
              /\ <<v, "debit">> \notin run'.left /\ <<v, "credit">> \notin run'.left
              /\ ~ \E e \in run'.left : e[1] = v
          BY <1>2, <1>3, <4>3
        <5> QED BY <4>1, <5>1 DEF Opened, HasPaise
      <4> QED BY <4>2, <4>3
    <3> QED BY <1>3, <2>2, <3>1 DEF LedgerOK
  <2> QED BY <2>1, <2>2
<1> QED BY <1>4, <1>5, <1>6, <1>7, <1>8 DEF MigrationInv

LEMMA InsertEntryKeeps == MigrationInv /\ InsertEntry => MigrationInv'
<1> SUFFICES ASSUME MigrationInv, InsertEntry PROVE MigrationInv'
  OBVIOUS
<1>1. PICK e \in run.left :
        /\ entry' = [entry EXCEPT ![e[1]][e[2]] = @ + user[e[1]].balancePaise]
        /\ run' = [run EXCEPT !.left = @ \ {e}]
  BY DEF InsertEntry
<1>2. /\ run.dry \in BOOLEAN /\ run.todo \subseteq Users \cup Txns
      /\ run.left \subseteq Users \X {"debit", "credit"}
      /\ run = [at |-> run.at, dry |-> run.dry, todo |-> run.todo, left |-> run.left]
  BY FieldsOK DEF MigrationInv
<1>3. PICK u \in Users, side \in {"debit", "credit"} : e = <<u, side>>
  BY <1>2
<1>4. run.at = "ledger" /\ ~run.dry /\ u \notin run.todo
  <2>1. run.left # {}
    BY <1>1
  <2> QED BY <1>3, <2>1 DEF MigrationInv, ListOK
<1>5. user' = user /\ txn' = txn /\ old' = old /\ lostBy' = lostBy
  BY DEF InsertEntry
<1>6. run' = [at |-> "ledger", dry |-> run.dry, todo |-> run.todo, left |-> run.left \ {e}]
  BY <1>1, <1>2, <1>4
<1>7. HasPaise(u) /\ user[u].balancePaise \in Nat
  <2>1. HasPaise(u)
    BY <1>4 DEF MigrationInv, ConvertedSoFar
  <2> QED BY <2>1, FieldsOK DEF MigrationInv, HasPaise
<1>8. /\ entry' \in [Users -> [debit : Nat, credit : Nat, posted : Nat]]
      /\ \A v \in Users : v # u => entry'[v] = entry[v]
      /\ entry'[u].posted = entry[u].posted
      /\ entry'[u].debit = IF side = "debit" THEN entry[u].debit + user[u].balancePaise ELSE entry[u].debit
      /\ entry'[u].credit = IF side = "credit" THEN entry[u].credit + user[u].balancePaise ELSE entry[u].credit
  <2>1. entry' = [entry EXCEPT ![u] = [entry[u] EXCEPT ![side] = @ + user[u].balancePaise]]
    BY <1>1, <1>3
  <2>2. entry \in [Users -> [debit : Nat, credit : Nat, posted : Nat]]
    BY DEF MigrationInv, MigrationShapes
  <2>3. CASE side = "debit"
    <3>1. entry' = [entry EXCEPT ![u] = [entry[u] EXCEPT !.debit = @ + user[u].balancePaise]]
      BY <2>1, <2>3
    <3> QED BY <1>7, <2>2, <2>3, <3>1
  <2>4. CASE side = "credit"
    <3>1. entry' = [entry EXCEPT ![u] = [entry[u] EXCEPT !.credit = @ + user[u].balancePaise]]
      BY <2>1, <2>4
    <3> QED BY <1>7, <2>2, <2>4, <3>1
  <2> QED BY <2>3, <2>4
<1>9. MigrationShapes'
  <2>1. run' \in [at : Stages, dry : BOOLEAN, todo : SUBSET (Users \cup Txns),
                  left : SUBSET (Users \X {"debit", "credit"})]
    BY <1>2, <1>6 DEF Stages
  <2> QED BY <1>5, <1>8, <2>1 DEF MigrationInv, MigrationShapes
<1>10. ListOK'
  BY <1>4, <1>6 DEF MigrationInv, ListOK
<1>11. ASSUME NEW v \in Users PROVE ConversionOK(v)'
  <2>1. entry'[v].posted = entry[v].posted
    BY <1>8
  <2> QED BY <1>5, <2>1 DEF MigrationInv, ConversionOK
<1>12. ASSUME NEW t \in Txns PROVE TransactionOK(t)'
  BY <1>5 DEF MigrationInv, TransactionOK
<1>13. ConvertedSoFar'
  BY <1>4, <1>5, <1>6 DEF MigrationInv, ConvertedSoFar, HasPaise
<1>14. LedgerOK'
  <2> SUFFICES ASSUME lostBy.backed = {}, NEW v \in Users PROVE Opened(v)'
    BY <1>4, <1>5, <1>6 DEF LedgerOK
  <2>1. Opened(v) /\ Opened(u)
    BY <1>4 DEF MigrationInv, LedgerOK
  <2>2. CASE v # u
    <3>1. entry'[v] = entry[v] /\ run'.todo = run.todo
          /\ (<<v, "debit">> \in run'.left <=> <<v, "debit">> \in run.left)
          /\ (<<v, "credit">> \in run'.left <=> <<v, "credit">> \in run.left)
          /\ ((\E x \in run'.left : x[1] = v) => \E x \in run.left : x[1] = v)
      BY <1>3, <1>6, <1>8, <2>2
    <3> QED BY <1>5, <2>1, <3>1 DEF Opened, HasPaise
  <2>3. CASE v = u
    <3>1. entry[u].posted = 0
      BY <1>1, <1>3, <2>1 DEF Opened
    <3> DEFINE b == user[u].balancePaise
    <3>2. /\ entry[u].debit = IF <<u, "debit">> \in run.left THEN 0 ELSE b
          /\ entry[u].credit = IF <<u, "credit">> \in run.left THEN 0 ELSE b
      BY <1>4, <1>7, <2>1, <3>1 DEF Opened
    <3>3. CASE side = "debit"
      <4>1. <<u, "debit">> \in run.left /\ <<u, "debit">> \notin run'.left
            /\ (<<u, "credit">> \in run'.left <=> <<u, "credit">> \in run.left)
        BY <1>1, <1>3, <1>6, <3>3
      <4>2. /\ entry'[u].debit = b /\ entry'[u].posted = 0
            /\ entry'[u].credit = IF <<u, "credit">> \in run'.left THEN 0 ELSE b
        BY <1>7, <1>8, <3>1, <3>2, <3>3, <4>1
      <4> QED BY <1>4, <1>5, <1>6, <1>7, <2>3, <4>1, <4>2 DEF Opened, HasPaise
    <3>4. CASE side = "credit"
      <4>1. <<u, "credit">> \in run.left /\ <<u, "credit">> \notin run'.left
            /\ (<<u, "debit">> \in run'.left <=> <<u, "debit">> \in run.left)
        BY <1>1, <1>3, <1>6, <3>4
      <4>2. /\ entry'[u].credit = b /\ entry'[u].posted = 0
            /\ entry'[u].debit = IF <<u, "debit">> \in run'.left THEN 0 ELSE b
        BY <1>7, <1>8, <3>1, <3>2, <3>4, <4>1
      <4> QED BY <1>4, <1>5, <1>6, <1>7, <2>3, <4>1, <4>2 DEF Opened, HasPaise
    <3> QED BY <3>3, <3>4
  <2> QED BY <2>2, <2>3
<1> QED BY <1>9, <1>10, <1>11, <1>12, <1>13, <1>14 DEF MigrationInv

(* A posting of the new server.                                            *)
LEMMA ServeKeeps ==
  ASSUME MigrationInv, NEW u \in Users, Serve(u)
  PROVE  MigrationInv'
<1> DEFINE b == user[u].balancePaise
           unconverted == {v \in {u} : user[u].balancePaise = NoAmount}
           unopened == {s \in {"server"} : LedgerIsEmpty}
<1>1. /\ run.at \in {"idle", "end"} /\ txn' = txn /\ run' = run /\ old' = old
      /\ user' = [user EXCEPT ![u].balancePaise = IF @ = NoAmount THEN 1 ELSE @ + 1]
      /\ entry' = [entry EXCEPT ![u].posted = @ + 1]
      /\ lostBy' = [converted |-> lostBy.converted \cup unconverted, backed |-> lostBy.backed \cup unopened]
  BY DEF Serve
<1>2. /\ user \in [Users -> [balance : Nat \cup {NoAmount}, balancePaise : Nat \cup {NoAmount}]]
      /\ entry \in [Users -> [debit : Nat, credit : Nat, posted : Nat]]
      /\ lostBy \in [converted : SUBSET Users, backed : SUBSET {"death", "server"}]
  BY DEF MigrationInv, MigrationShapes
<1>3. /\ user' \in [Users -> [balance : Nat \cup {NoAmount}, balancePaise : Nat \cup {NoAmount}]]
      /\ \A v \in Users : v # u => user'[v] = user[v]
      /\ user'[u].balance = user[u].balance
      /\ user'[u].balancePaise = IF b = NoAmount THEN 1 ELSE b + 1
  BY <1>1, <1>2
<1>4. /\ entry' \in [Users -> [debit : Nat, credit : Nat, posted : Nat]]
      /\ \A v \in Users : v # u => entry'[v] = entry[v]
      /\ entry'[u].debit = entry[u].debit /\ entry'[u].credit = entry[u].credit
      /\ entry'[u].posted = entry[u].posted + 1
  BY <1>1, <1>2
<1>5. /\ b \in Nat \cup {NoAmount}
      /\ user'[u].balancePaise \in Nat /\ user'[u].balancePaise # NoAmount
  <2>1. b \in Nat \cup {NoAmount}
    BY <1>2
  <2> HIDE DEF b
  <2>2. user'[u].balancePaise \in Nat
    BY <1>3, <2>1
  <2> QED BY <2>1, <2>2, NoAmountIsNoNumber
<1>6. /\ lostBy' \in [converted : SUBSET Users, backed : SUBSET {"death", "server"}]
      /\ lostBy'.converted = lostBy.converted \cup unconverted
      /\ lostBy'.backed = lostBy.backed \cup unopened
  <2>1. unconverted \subseteq Users /\ unopened \subseteq {"death", "server"}
    OBVIOUS
  <2> HIDE DEF unconverted, unopened
  <2> QED BY <1>1, <1>2, <2>1
<1>7. MigrationShapes'
  BY <1>1, <1>3, <1>4, <1>6 DEF MigrationInv, MigrationShapes
<1>8. ListOK'
  BY <1>1 DEF MigrationInv, ListOK
<1>9. ASSUME NEW v \in Users PROVE ConversionOK(v)'
  <2>1. CASE v # u
    <3>1. user'[v] = user[v] /\ entry'[v] = entry[v] /\ (v \in lostBy'.converted <=> v \in lostBy.converted)
      BY <1>3, <1>4, <1>6, <2>1
    <3> QED BY <1>1, <3>1 DEF MigrationInv, ConversionOK
  <2>2. CASE v = u
    <3>1. CASE u \in lostBy'.converted
      BY <1>5, <2>2, <3>1 DEF ConversionOK
    <3>2. CASE u \notin lostBy'.converted
      <4>1. u \notin lostBy.converted /\ b # NoAmount
        BY <1>6, <3>2
      <4>2. user[u].balance = NoAmount /\ b = RupeeFloatToPaise(old[u]) + entry[u].posted
        BY <4>1 DEF MigrationInv, ConversionOK
      <4>3. RupeeFloatToPaise(old[u]) \in Nat /\ entry[u].posted \in Nat
        BY NearestPaisa, FieldsOK DEF MigrationInv
      <4>4. user'[u].balancePaise = RupeeFloatToPaise(old[u]) + entry'[u].posted
        BY <1>3, <1>4, <4>1, <4>2, <4>3
      <4> QED BY <1>1, <1>3, <2>2, <3>2, <4>2, <4>4 DEF ConversionOK
    <3> QED BY <3>1, <3>2
  <2> QED BY <2>1, <2>2
<1>10. ASSUME NEW t \in Txns PROVE TransactionOK(t)'
  BY <1>1 DEF MigrationInv, TransactionOK
<1>11. ASSUME NEW v \in Users, HasPaise(v) PROVE HasPaise(v)'
  BY <1>3, <1>5, <1>11 DEF HasPaise
<1>12. ConvertedSoFar'
  BY <1>1, <1>11 DEF MigrationInv, ConvertedSoFar
<1>13. LedgerOK'
  <2> SUFFICES ASSUME lostBy'.backed = {}, NEW v \in Users PROVE Backed(v)'
    BY <1>1 DEF LedgerOK
  <2>1. lostBy.backed = {} /\ ~LedgerIsEmpty
    BY <1>6
  <2>2. Backed(v) /\ Backed(u)
    BY <1>1, <2>1 DEF MigrationInv, LedgerOK
  <2>3. CASE v # u
    <3>1. user'[v] = user[v] /\ entry'[v] = entry[v]
      BY <1>3, <1>4, <2>3
    <3> QED BY <2>2, <3>1 DEF Backed, HasPaise, Drift, LedgerBalance
  <2>4. CASE v = u
    <3>1. b # NoAmount /\ b \in Nat
      BY <1>5, <2>2 DEF Backed, HasPaise
    <3>2. b - (entry[u].credit + entry[u].posted) = 0 /\ entry[u].debit = entry[u].credit
      BY <2>2, <3>1 DEF Backed, Drift, LedgerBalance
    <3>3. entry[u].credit \in Nat /\ entry[u].posted \in Nat
      BY <1>2
    <3>4. user'[u].balancePaise - (entry'[u].credit + entry'[u].posted) = 0
      <4>1. user'[u].balancePaise = b + 1
        BY <1>3, <3>1
      <4>2. entry'[u].credit = entry[u].credit /\ entry'[u].posted = entry[u].posted + 1
        BY <1>4
      <4> HIDE DEF b
      <4> QED BY <3>1, <3>2, <3>3, <4>1, <4>2
    <3>5. Backed(u)'
      BY <1>4, <1>5, <3>2, <3>4 DEF Backed, HasPaise, Drift, LedgerBalance
    <3> QED BY <2>4, <3>5
  <2> QED BY <2>3, <2>4
<1> QED BY <1>7, <1>8, <1>9, <1>10, <1>12, <1>13 DEF MigrationInv

LEMMA MigrationInvariant == MigrationSpec => []MigrationInv
<1>1. MigrationInit => MigrationInv
  BY MigrationStarts
<1>2. MigrationInv /\ [MigrationNext]_migrationVars => MigrationInv'
  <2> SUFFICES ASSUME MigrationInv, [MigrationNext]_migrationVars PROVE MigrationInv'
    OBVIOUS
  <2>1. CASE Start
    BY <2>1, StartKeeps
  <2>2. CASE NextStage
    BY <2>2, NextStageKeeps
  <2>3. CASE InsertEntry
    BY <2>3, InsertEntryKeeps
  <2>4. CASE Die
    BY <2>4, DieKeeps
  <2>5. CASE Again
    BY <2>5, AgainKeeps
  <2>6. ASSUME NEW u \in Users, ConvertUser(u) PROVE MigrationInv'
    BY <2>6, ConvertUserKeeps
  <2>7. ASSUME NEW u \in Users, OpenLedger(u) PROVE MigrationInv'
    BY <2>7, OpenLedgerKeeps
  <2>8. ASSUME NEW u \in Users, Serve(u) PROVE MigrationInv'
    BY <2>8, ServeKeeps
  <2>9. ASSUME NEW t \in Txns, ConvertTransaction(t) PROVE MigrationInv'
    BY <2>9, ConvertTransactionKeeps
  <2>10. ASSUME NEW t \in Txns, BackfillParticipants(t) PROVE MigrationInv'
    BY <2>10, BackfillKeeps
  <2>11. CASE MigrationRests \/ UNCHANGED migrationVars
    <3>1. user' = user /\ txn' = txn /\ entry' = entry /\ run' = run /\ old' = old /\ lostBy' = lostBy
      BY <2>11 DEF MigrationRests, migrationVars
    <3> QED BY <3>1 DEF MigrationInv, MigrationShapes, ListOK, ConversionOK, TransactionOK, ConvertedSoFar,
                        LedgerOK, LedgerIsEmpty, Backed, Opened, HasPaise, Drift, LedgerBalance
  <2> QED BY <2>1, <2>2, <2>3, <2>4, <2>5, <2>6, <2>7, <2>8, <2>9, <2>10, <2>11 DEF MigrationNext
<1> QED BY <1>1, <1>2, PTL DEF MigrationSpec

(* However many users and transactions there are, and however often the    *)
(* script is run and dies, every amount is converted once, to the nearest  *)
(* paisa, and keeps what was posted since (migrate-to-paise.js:35-72).     *)
THEOREM ConversionHappensOnce == MigrationSpec => []ConvertedOnce
<1>1. MigrationInv => ConvertedOnce
  <2> SUFFICES ASSUME MigrationInv PROVE ConvertedOnce
    OBVIOUS
  <2>1. ASSUME NEW u \in Users \ lostBy.converted
        PROVE  IF user[u].balance # NoAmount
               THEN user[u].balancePaise = NoAmount /\ user[u].balance = old[u]
               ELSE 10 * (user[u].balancePaise - entry[u].posted) - old[u] \in -5 .. 5
    <3>1. CASE user[u].balance # NoAmount
      BY <2>1, <3>1 DEF MigrationInv, ConversionOK
    <3>2. CASE user[u].balance = NoAmount
      <4>1. user[u].balancePaise = RupeeFloatToPaise(old[u]) + entry[u].posted
        BY <2>1, <3>2 DEF MigrationInv, ConversionOK
      <4>2. old[u] \in Nat /\ entry[u].posted \in Nat
        BY FieldsOK DEF MigrationInv
      <4>3. RupeeFloatToPaise(old[u]) \in Nat /\ 10 * RupeeFloatToPaise(old[u]) - old[u] \in -5 .. 5
        BY <4>2, NearestPaisa
      <4>4. user[u].balancePaise - entry[u].posted = RupeeFloatToPaise(old[u])
        BY <4>1, <4>2, <4>3
      <4> QED BY <3>2, <4>3, <4>4
    <3> QED BY <3>1, <3>2
  <2>2. ASSUME NEW t \in Txns
        PROVE  IF txn[t].amount # NoAmount THEN txn[t].amountPaise = NoAmount /\ txn[t].amount = old[t]
               ELSE 10 * txn[t].amountPaise - old[t] \in -5 .. 5
    <3>1. old[t] \in Nat
      BY FieldsOK DEF MigrationInv
    <3> QED BY <3>1, NearestPaisa DEF MigrationInv, TransactionOK
  <2> QED BY <2>1, <2>2 DEF ConvertedOnce
<1> QED BY <1>1, MigrationInvariant, PTL

(* When a run has ended every balance is backed by its entries, unless a   *)
(* run died after it had inserted an entry, or the server posted before    *)
(* the ledger was opened (migrate-to-paise.js:93-138).                     *)
THEOREM OnlyDeathsLeaveUnbacked == MigrationSpec => []UnbackedExplained
<1>1. MigrationInv => UnbackedExplained
  BY DEF MigrationInv, LedgerOK, UnbackedExplained, Backed
<1> QED BY <1>1, MigrationInvariant, PTL

(* How many opening Transactions a user has: the one at hand included, as  *)
(* many as runs that died too early, until an entry has been inserted; and *)
(* whom a run still lists, it has not opened.                              *)
OpeningsOK ==
  /\ openings \in [Users -> Nat] /\ orphaned \in [Users -> Nat]
  /\ \A u \in Users : openings[u] <= 1 + orphaned[u]
  /\ LedgerIsEmpty => \A u \in Users : openings[u] = orphaned[u] + (IF AtHand(u) THEN 1 ELSE 0)
  /\ run.at = "ledger" => \A u \in Users :
       /\ u \in run.todo => openings[u] = orphaned[u]
       /\ u \in run.todo \/ AtHand(u) => user[u].balancePaise \notin {NoAmount, 0}

LEMMA OpeningsStart == MigrationInit => OpeningsOK
<1> SUFFICES ASSUME MigrationInit PROVE OpeningsOK
  OBVIOUS
<1>1. run.at = "idle" /\ run.left = {}
  BY DEF MigrationInit, Idle
<1> QED BY <1>1 DEF MigrationInit, OpeningsOK, AtHand

(* The steps outside the ledger stage open nobody.                         *)
LEMMA OpeningsStay ==
  ASSUME OpeningsOK, openings' = openings, orphaned' = orphaned,
         run.left = {}, run'.left = {}, run'.at # "ledger",
         LedgerIsEmpty' => LedgerIsEmpty
  PROVE  OpeningsOK'
  BY DEF OpeningsOK, AtHand

LEMMA NextStageOpens == MigrationInv /\ OpeningsOK /\ NextStage => OpeningsOK'
<1> SUFFICES ASSUME MigrationInv, OpeningsOK, NextStage PROVE OpeningsOK'
  OBVIOUS
<1>1. /\ run.left = {} /\ user' = user /\ entry' = entry /\ openings' = openings /\ orphaned' = orphaned
      /\ LedgerIsEmpty' = LedgerIsEmpty
  BY DEF NextStage, LedgerIsEmpty
<1>2. run = [at |-> run.at, dry |-> run.dry, todo |-> run.todo, left |-> run.left]
  BY FieldsOK DEF MigrationInv
<1>3. \/ run'.at # "ledger" /\ run'.left = {}
      \/ run' = [at |-> "ledger", dry |-> run.dry, todo |-> Todo("ledger"), left |-> {}]
  <2>1. CASE StageAfter(run.at) = "end"
    BY <2>1 DEF NextStage, Idle
  <2>2. CASE StageAfter(run.at) # "end"
    BY <1>1, <1>2, <2>2 DEF NextStage
  <2> QED BY <2>1, <2>2
<1>4. CASE run'.at # "ledger" /\ run'.left = {}
  BY <1>1, <1>4, OpeningsStay
<1>5. CASE run' = [at |-> "ledger", dry |-> run.dry, todo |-> Todo("ledger"), left |-> {}]
  <2>1. \A u \in Users : ~AtHand(u) /\ ~AtHand(u)'
    BY <1>1, <1>5 DEF AtHand
  <2>2. ASSUME NEW u \in Users, u \in Todo("ledger")
        PROVE  LedgerIsEmpty /\ user[u].balancePaise \notin {NoAmount, 0}
    BY <2>2, TodoIs
  <2>3. \A u \in Todo("ledger") \cap Users : openings[u] = orphaned[u]
    BY <2>1, <2>2 DEF OpeningsOK
  <2> QED BY <1>1, <1>5, <2>1, <2>2, <2>3 DEF OpeningsOK
<1> QED BY <1>3, <1>4, <1>5

LEMMA OpenLedgerOpens ==
  ASSUME MigrationInv, OpeningsOK, NEW u \in Users, OpenLedger(u)
  PROVE  OpeningsOK'
<1>1. /\ run.at = "ledger" /\ u \in run.todo /\ run.left = {}
      /\ user' = user /\ entry' = entry /\ orphaned' = orphaned /\ LedgerIsEmpty' = LedgerIsEmpty
      /\ run' = [run EXCEPT !.todo = @ \ {u}, !.left = IF run.dry THEN {} ELSE {<<u, "debit">>, <<u, "credit">>}]
      /\ openings' = IF run.dry THEN openings ELSE [openings EXCEPT ![u] = @ + 1]
  BY DEF OpenLedger, LedgerIsEmpty
<1>2. /\ run = [at |-> run.at, dry |-> run.dry, todo |-> run.todo, left |-> run.left]
      /\ run.dry \in BOOLEAN
  BY FieldsOK DEF MigrationInv
<1>3. run'.at = "ledger" /\ run'.todo = run.todo \ {u}
      /\ run'.left = IF run.dry THEN {} ELSE {<<u, "debit">>, <<u, "credit">>}
  BY <1>1, <1>2
<1>4. ASSUME NEW v \in Users PROVE ~AtHand(v) /\ (AtHand(v)' <=> v = u /\ ~run.dry)
  <2>1. ~AtHand(v) /\ (AtHand(v)' <=> \E e \in run'.left : e[1] = v)
    BY <1>1 DEF AtHand
  <2>2. CASE run.dry
    BY <1>3, <2>1, <2>2
  <2>3. CASE ~run.dry
    <3>1. run'.left = {<<u, "debit">>, <<u, "credit">>} /\ <<u, "debit">>[1] = u /\ <<u, "credit">>[1] = u
      BY <1>3, <2>3
    <3> QED BY <2>1, <2>3, <3>1
  <2> QED BY <2>2, <2>3
<1>5. openings[u] = orphaned[u] /\ user[u].balancePaise \notin {NoAmount, 0}
  BY <1>1 DEF OpeningsOK
<1>6. /\ openings' \in [Users -> Nat]
      /\ \A v \in Users : openings'[v] = IF v = u /\ ~run.dry THEN openings[v] + 1 ELSE openings[v]
  BY <1>1 DEF OpeningsOK
<1>7. \A v \in Users : openings'[v] <= 1 + orphaned[v]
  BY <1>5, <1>6 DEF OpeningsOK
<1>8. LedgerIsEmpty => \A v \in Users : openings'[v] = orphaned[v] + (IF AtHand(v)' THEN 1 ELSE 0)
  BY <1>4, <1>5, <1>6 DEF OpeningsOK
<1>9. ASSUME NEW v \in Users
      PROVE  /\ v \in run'.todo => openings'[v] = orphaned[v]
             /\ v \in run'.todo \/ AtHand(v)' => user[v].balancePaise \notin {NoAmount, 0}
  BY <1>1, <1>3, <1>4, <1>5, <1>6 DEF OpeningsOK
<1> QED BY <1>1, <1>3, <1>6, <1>7, <1>8, <1>9 DEF OpeningsOK

LEMMA InsertEntryOpens == MigrationInv /\ OpeningsOK /\ InsertEntry => OpeningsOK'
<1> SUFFICES ASSUME MigrationInv, OpeningsOK, InsertEntry PROVE OpeningsOK'
  OBVIOUS
<1>1. PICK e \in run.left :
        /\ entry' = [entry EXCEPT ![e[1]][e[2]] = @ + user[e[1]].balancePaise]
        /\ run' = [run EXCEPT !.left = @ \ {e}]
  BY DEF InsertEntry
<1>2. /\ run.left \subseteq Users \X {"debit", "credit"}
      /\ run = [at |-> run.at, dry |-> run.dry, todo |-> run.todo, left |-> run.left]
  BY FieldsOK DEF MigrationInv
<1>3. PICK u \in Users, side \in {"debit", "credit"} : e = <<u, side>>
  BY <1>1, <1>2
<1>4. run.at = "ledger" /\ AtHand(u)
  BY <1>1, <1>3 DEF MigrationInv, ListOK, AtHand
<1>5. user[u].balancePaise \in Nat \ {0}
  BY <1>4, FieldsOK DEF OpeningsOK, MigrationInv
<1>6. ~LedgerIsEmpty'
  <2>1. entry' = [entry EXCEPT ![u] = [entry[u] EXCEPT ![side] = @ + user[u].balancePaise]]
    BY <1>1, <1>3
  <2>2. entry \in [Users -> [debit : Nat, credit : Nat, posted : Nat]]
    BY DEF MigrationInv, MigrationShapes
  <2>3. entry'[u] # NoEntries
    <3>1. CASE side = "debit"
      <4>1. entry'[u].debit = entry[u].debit + user[u].balancePaise
        BY <2>1, <2>2, <3>1
      <4>2. entry[u].debit \in Nat
        BY <2>2
      <4> QED BY <1>5, <4>1, <4>2 DEF NoEntries
    <3>2. CASE side = "credit"
      <4>1. entry'[u].credit = entry[u].credit + user[u].balancePaise
        BY <2>1, <2>2, <3>2
      <4>2. entry[u].credit \in Nat
        BY <2>2
      <4> QED BY <1>5, <4>1, <4>2 DEF NoEntries
    <3> QED BY <3>1, <3>2
  <2> QED BY <2>3 DEF LedgerIsEmpty
<1>7. /\ run'.at = run.at /\ run'.todo = run.todo /\ \A v \in Users : AtHand(v)' => AtHand(v)
      /\ user' = user /\ openings' = openings /\ orphaned' = orphaned
  BY <1>1, <1>2 DEF InsertEntry, AtHand
<1> QED BY <1>6, <1>7 DEF OpeningsOK

LEMMA DieOpens == OpeningsOK /\ Die => OpeningsOK'
<1> SUFFICES ASSUME OpeningsOK, Die PROVE OpeningsOK'
  OBVIOUS
<1>1. /\ run'.at = "idle" /\ run'.left = {} /\ openings' = openings /\ LedgerIsEmpty' = LedgerIsEmpty
      /\ orphaned' = [u \in Users |-> IF LedgerIsEmpty /\ AtHand(u) THEN orphaned[u] + 1 ELSE orphaned[u]]
  BY DEF Die, Idle, LedgerIsEmpty
<1>2. orphaned' \in [Users -> Nat] /\ \A u \in Users : orphaned'[u] >= orphaned[u] /\ ~AtHand(u)'
  BY <1>1 DEF OpeningsOK, AtHand
<1> QED BY <1>1, <1>2 DEF OpeningsOK

LEMMA OpeningsGoOn == MigrationInv /\ OpeningsOK /\ [MigrationNext]_migrationVars => OpeningsOK'
<1> SUFFICES ASSUME MigrationInv, OpeningsOK, [MigrationNext]_migrationVars PROVE OpeningsOK'
  OBVIOUS
<1>1. run.at # "ledger" => run.left = {}
  BY DEF MigrationInv, ListOK
<1>2. CASE Start
  <2>1. run.at = "idle" /\ run'.left = {} /\ run'.at = "users"
    BY <1>2 DEF Start, Idle, StageAfter
  <2> QED BY <1>1, <1>2, <2>1, OpeningsStay DEF Start, LedgerIsEmpty
<1>3. CASE Again
  <2>1. run.at = "end" /\ run'.left = {} /\ run'.at = "idle"
    BY <1>3 DEF Again, Idle
  <2> QED BY <1>1, <1>3, <2>1, OpeningsStay DEF Again, LedgerIsEmpty
<1>4. ASSUME NEW d, ConvertUser(d) \/ ConvertTransaction(d) \/ BackfillParticipants(d) PROVE OpeningsOK'
  <2>1. PICK stage \in {"users", "txns", "participants"} : Takes(stage, d)
    BY <1>4 DEF ConvertUser, ConvertTransaction, BackfillParticipants
  <2>2. run.at = stage /\ run'.left = {} /\ run'.at = stage
    BY <2>1, TakenFromList
  <2> QED BY <1>1, <1>4, <2>2, OpeningsStay
          DEF ConvertUser, ConvertTransaction, BackfillParticipants, LedgerIsEmpty
<1>5. ASSUME NEW u \in Users, Serve(u) PROVE OpeningsOK'
  <2>1. run.at \in {"idle", "end"} /\ run' = run /\ openings' = openings /\ orphaned' = orphaned
    BY <1>5 DEF Serve
  <2>2. ~LedgerIsEmpty'
    <3>1. entry \in [Users -> [debit : Nat, credit : Nat, posted : Nat]]
      BY DEF MigrationInv, MigrationShapes
    <3>2. entry'[u].posted = entry[u].posted + 1
      BY <1>5, <3>1 DEF Serve
    <3> QED BY <3>1, <3>2 DEF LedgerIsEmpty, NoEntries
  <2> QED BY <1>1, <2>1, <2>2, OpeningsStay
<1>6. CASE MigrationRests \/ UNCHANGED migrationVars
  BY <1>6 DEF MigrationRests, migrationVars, OpeningsOK, AtHand, LedgerIsEmpty
<1>7. CASE NextStage \/ InsertEntry \/ Die
  BY <1>7, NextStageOpens, InsertEntryOpens, DieOpens
<1> QED BY <1>2, <1>3, <1>4, <1>5, <1>6, <1>7, OpenLedgerOpens DEF MigrationNext

(* For any number of users, runs, dry runs and postings in between, a user *)
(* has one opening Transaction and one more for each run that died between *)
(* this user's Transaction and the first entry of all                      *)
(* (migrate-to-paise.js:93-117).                                           *)
THEOREM OnlyEarlyDeathsOpenAgain == MigrationSpec => []OpeningsExplained
<1>1. OpeningsOK => OpeningsExplained
  BY DEF OpeningsOK, OpeningsExplained
<1> QED BY <1>1, OpeningsStart, OpeningsGoOn, MigrationInvariant, PTL DEF MigrationSpec
===============================================================================
