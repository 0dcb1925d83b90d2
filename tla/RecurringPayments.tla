-------------------------- MODULE RecurringPayments ---------------------------
(***************************************************************************)
(* Autopay: runDueMandates of src/workers/recurringWorker.js, run by a     *)
(* cron task that does not wait for its previous run to end (and by every  *)
(* process that has a worker), against the mandates that their owners      *)
(* pause, resume and cancel in src/controllers/recurringController.js.     *)
(*                                                                         *)
(* Time is counted in intervals of the mandates' frequency: nextRunDate    *)
(* adds one, and periodKey of a run is its interval.  Everyone works on a  *)
(* copy loaded before an await, and save() writes the fields that were     *)
(* changed, by _id alone.  postTransaction is one step, as AtomicLedger    *)
(* has it; the unique index on reference.periodKey is MongoDB's.           *)
(***************************************************************************)
EXTENDS Integers, FiniteSets, Functions

CONSTANTS Mandates,     \* RecurringPayment documents
          NoMandate,    \* a run that is between two mandates
          Ticks,        \* runs of runDueMandates that may overlap
          Edits,        \* calls of pauseMandate, resumeMandate and cancelMandate
          MaxFailures,  \* MAX_FAILURES
          Horizon,      \* bound: the last interval
          Faults,       \* what goes wrong: a subset of {"save", "crash"}
          MaxFaults     \* bound: how often

ASSUME RecurringAssumption ==
  /\ NoMandate \notin Mandates
  /\ MaxFailures \in Nat \ {0} /\ Horizon \in Nat /\ MaxFaults \in Nat
  /\ Faults \subseteq {"save", "crash"}

VARIABLES today,    \* the current interval
          mandate,  \* the documents
          charges,  \* how many Transactions each mandate has per periodKey
          tick,     \* each run: where it is, the mandates left, its copies of them
          edit,     \* each call: what it does to which mandate, its copy
          faults    \* how often something has gone wrong

vars == <<today, mandate, charges, tick, edit, faults>>

Keys == 0..Horizon
None == [status |-> "none", nextRunAt |-> 0, runCount |-> 0, failureCount |-> 0]
NoTick == [at |-> "idle", cur |-> NoMandate, due |-> {}, copy |-> [m \in Mandates |-> None]]
NoEdit == [at |-> "idle"]

Init ==
  /\ today = 0
  /\ mandate = [m \in Mandates |-> None]
  /\ charges = [m \in Mandates |-> [k \in Keys |-> 0]]
  /\ tick = [t \in Ticks |-> NoTick]
  /\ edit = [e \in Edits |-> NoEdit]
  /\ faults = 0

TimePasses ==
  /\ today < Horizon
  /\ today' = today + 1
  /\ UNCHANGED <<mandate, charges, tick, edit, faults>>

(* startAt, or one interval from now.                                      *)
CreateMandate(m) ==
  /\ mandate[m].status = "none"
  /\ \E start \in today..Horizon :
       mandate' = [mandate EXCEPT ![m].status = "ACTIVE", ![m].nextRunAt = start]
  /\ UNCHANGED <<today, charges, tick, edit, faults>>

Fault(kind) == kind \in Faults /\ faults < MaxFaults /\ faults' = faults + 1

-------------------------------------------------------------------------------
(* runDueMandates.  A run that is idle has not started, or has ended.      *)
Due == {m \in Mandates : mandate[m].status = "ACTIVE" /\ mandate[m].nextRunAt <= today}

FindDue(t) ==
  /\ tick[t].at = "idle" /\ Due # {}
  /\ tick' = [tick EXCEPT ![t] = [at |-> "loop", cur |-> NoMandate, due |-> Due, copy |-> mandate]]
  /\ UNCHANGED <<today, mandate, charges, edit, faults>>

Key(t, m) == tick[t].copy[m].nextRunAt

Outcome(t, m, at) == tick' = [tick EXCEPT ![t].at = at, ![t].cur = m]

(* Faulty: the unique index is missing.                                    *)
ChargeUnindexed(t) ==
  /\ tick[t].at = "loop"
  /\ \E m \in tick[t].due :
       /\ charges' = [charges EXCEPT ![m][Key(t, m)] = @ + 1]
       /\ Outcome(t, m, "charged")
  /\ UNCHANGED <<today, mandate, edit, faults>>

(* postTransaction under the periodKey: at most one Transaction may have it. *)
(* An error after its commit (ledgerService.js:170-178) is like any other.   *)
Charge(t) ==
  /\ tick[t].at = "loop"
  /\ \E m \in tick[t].due :
       IF charges[m][Key(t, m)] = 0
       THEN /\ charges' = [charges EXCEPT ![m][Key(t, m)] = 1]
            /\ \E at \in {"charged", "refused"} : Outcome(t, m, at)
       ELSE Outcome(t, m, "duplicate") /\ UNCHANGED charges
  /\ UNCHANGED <<today, mandate, edit, faults>>

(* Any other error.  The debit comes before the insert, so a period that   *)
(* has been charged may be refused for want of money as well.              *)
Refuse(t) ==
  /\ tick[t].at = "loop"
  /\ \E m \in tick[t].due : Outcome(t, m, "refused")
  /\ UNCHANGED <<today, mandate, charges, edit, faults>>

(* save(), and on to the next mandate; the run ends with the last one.     *)
Saved(t, doc) ==
  LET m == tick[t].cur
      due == tick[t].due \ {m}
  IN  /\ mandate' = [mandate EXCEPT ![m] = doc]
      /\ tick' = [tick EXCEPT ![t] = IF due = {} THEN NoTick
                                     ELSE [@ EXCEPT !.at = "loop", !.cur = NoMandate, !.due = due]]
      /\ UNCHANGED <<today, charges, edit, faults>>

(* Faulty: the stored document is moved on, not the copy.                  *)
SaveRunStored(t) ==
  LET m == tick[t].cur
      copy == tick[t].copy[m]
  IN  /\ tick[t].at = "charged"
      /\ Saved(t, [mandate[m] EXCEPT !.nextRunAt = @ + 1, !.runCount = copy.runCount + 1,
                                     !.failureCount = IF copy.failureCount = 0 THEN @ ELSE 0])

(* Setting failureCount to the 0 that the copy has is no change.           *)
SaveRun(t) ==
  LET m == tick[t].cur
      copy == tick[t].copy[m]
  IN  /\ tick[t].at = "charged"
      /\ Saved(t, [mandate[m] EXCEPT !.nextRunAt = copy.nextRunAt + 1,
                                     !.runCount = copy.runCount + 1,
                                     !.failureCount = IF copy.failureCount = 0 THEN @ ELSE 0])

(* Faulty: a duplicate counts as a run; a duplicate is left as it is.      *)
SaveDuplicateAsRun(t) ==
  LET m == tick[t].cur
      copy == tick[t].copy[m]
  IN  /\ tick[t].at = "duplicate"
      /\ Saved(t, [mandate[m] EXCEPT !.nextRunAt = copy.nextRunAt + 1, !.runCount = copy.runCount + 1])
SaveDuplicateUnmoved(t) == tick[t].at = "duplicate" /\ Saved(t, mandate[tick[t].cur])

SaveDuplicate(t) ==
  LET m == tick[t].cur
  IN  /\ tick[t].at = "duplicate"
      /\ Saved(t, [mandate[m] EXCEPT !.nextRunAt = Key(t, m) + 1])

(* A failure is counted; the MaxFailures-th parks the mandate.             *)
Failed(doc, nextRunAt, failureCount) ==
  IF failureCount >= MaxFailures
  THEN [doc EXCEPT !.failureCount = failureCount, !.status = "FAILED"]
  ELSE [doc EXCEPT !.failureCount = failureCount, !.nextRunAt = nextRunAt + 1]

SaveFailure(t) ==
  LET m == tick[t].cur
      copy == tick[t].copy[m]
  IN  /\ tick[t].at = "refused"
      /\ Saved(t, Failed(mandate[m], copy.nextRunAt, copy.failureCount + 1))

(* The save after a charge fails inside the try block: the catch takes it  *)
(* for a failed payment, on a copy that has already been moved on.         *)
SaveFails(t) ==
  /\ tick[t].at = "charged" /\ Fault("save")
  /\ tick' = [tick EXCEPT ![t].at = "unsaved"]
  /\ UNCHANGED <<today, mandate, charges, edit>>
SaveUnsaved(t) ==
  LET m == tick[t].cur
      copy == tick[t].copy[m]
      ran == [mandate[m] EXCEPT !.runCount = copy.runCount + 1, !.nextRunAt = copy.nextRunAt + 1]
  IN  /\ tick[t].at = "unsaved"
      /\ Saved(t, Failed(ran, copy.nextRunAt + 1, 1))

(* The process dies, or a save in the catch block throws out of the loop.  *)
Abandon(t) ==
  /\ tick[t].at # "idle" /\ Fault("crash")
  /\ tick' = [tick EXCEPT ![t] = NoTick]
  /\ UNCHANGED <<today, mandate, charges, edit>>

-------------------------------------------------------------------------------
(* The owner's calls: a copy is loaded and checked, and later saved.       *)

(* Faulty: anything that does not run can be resumed.                      *)
AllowedAnyStopped(op, status) ==
  \/ op = "pause"  /\ status = "ACTIVE"
  \/ op = "resume" /\ status # "ACTIVE"
  \/ op = "cancel"

Allowed(op, status) ==
  \/ op = "pause"  /\ status = "ACTIVE"
  \/ op = "resume" /\ status \in {"PAUSED", "FAILED"}
  \/ op = "cancel"

LoadOwnMandate(e) ==
  /\ edit[e].at = "idle"
  /\ \E m \in Mandates, op \in {"pause", "resume", "cancel"} :
       /\ mandate[m].status # "none"
       /\ Allowed(op, mandate[m].status)
       /\ edit' = [edit EXCEPT ![e] = [at |-> "loaded", op |-> op, of |-> m, copy |-> mandate[m]]]
  /\ UNCHANGED <<today, mandate, charges, tick, faults>>

(* Resuming never leaves a run in the past.                                *)
Resumed(doc, copy) ==
  [doc EXCEPT !.status = "ACTIVE",
              !.failureCount = IF copy.failureCount = 0 THEN @ ELSE 0,
              !.nextRunAt = IF copy.nextRunAt <= today THEN today + 1 ELSE @]

SaveEdit(e) ==
  /\ edit[e].at = "loaded"
  /\ LET m == edit[e].of
         copy == edit[e].copy
     IN  mandate' = [mandate EXCEPT ![m] =
           IF edit[e].op = "resume" THEN Resumed(@, copy)
           ELSE IF edit[e].op = "pause" THEN [@ EXCEPT !.status = "PAUSED"]
           ELSE IF copy.status = "CANCELLED" THEN @ ELSE [@ EXCEPT !.status = "CANCELLED"]]
  /\ edit' = [edit EXCEPT ![e].at = "done"]
  /\ UNCHANGED <<today, charges, tick, faults>>

-------------------------------------------------------------------------------
Run(t) == FindDue(t) \/ Charge(t) \/ Refuse(t) \/ SaveRun(t) \/ SaveDuplicate(t)
            \/ SaveFailure(t) \/ SaveUnsaved(t)

(* Nothing is due, and nothing will be.                                    *)
Quiet ==
  /\ today = Horizon /\ Due = {} /\ \A t \in Ticks : tick[t].at = "idle"
  /\ \A e \in Edits : edit[e].at = "done"
  /\ UNCHANGED vars

Next ==
  \/ TimePasses
  \/ \E m \in Mandates : CreateMandate(m)
  \/ \E t \in Ticks : Run(t) \/ SaveFails(t) \/ Abandon(t)
  \/ \E e \in Edits : LoadOwnMandate(e) \/ SaveEdit(e)
  \/ Quiet

Spec == Init /\ [][Next]_vars

(* The cron task keeps starting runs, and a run goes on while it lives.    *)
FairSpec == Spec /\ \A t \in Ticks : WF_vars(Run(t))

-------------------------------------------------------------------------------
Documents ==
  [status : {"none", "ACTIVE", "PAUSED", "CANCELLED", "FAILED"}, nextRunAt : 0..Horizon + 2,
   runCount : Nat, failureCount : Nat]

(* Every variable has its type.                                            *)
TypeOK ==
  /\ today \in 0..Horizon
  /\ mandate \in [Mandates -> Documents]
  /\ charges \in [Mandates -> [Keys -> Nat]]
  /\ \A t \in Ticks :
       /\ tick[t].at \in {"idle", "loop", "charged", "duplicate", "refused", "unsaved"}
       /\ tick[t].due \subseteq Mandates
       /\ tick[t].cur \in tick[t].due \cup {NoMandate}
       /\ tick[t].copy \in [Mandates -> Documents]
  /\ \A e \in Edits : edit[e] = NoEdit \/ edit[e].copy \in Documents
  /\ faults \in 0..MaxFaults

(* However runs overlap, crash and start over, a period is charged once    *)
(* (RecurringPayment.js, "physically cannot charge twice").                *)
ChargedOncePerPeriod ==
  \A m \in Mandates : \A k \in Keys : charges[m][k] <= 1

(* The runs a mandate counts are runs that were charged, whatever copies   *)
(* the overlapping runs have counted on.                                   *)
RunsWereCharged ==
  \A m \in Mandates : mandate[m].runCount <= SumFunction(charges[m])

(* A mandate is cancelled for good, except for a call or a run that had    *)
(* loaded it before it was cancelled.                                      *)
OnlyLateWritersRevive ==
  [][\A m \in Mandates :
       mandate[m].status = "CANCELLED" /\ mandate'[m].status # "CANCELLED" =>
         \/ \E e \in Edits : edit[e].at = "loaded" /\ edit'[e].at = "done" /\ edit[e].of = m
                               /\ edit[e].copy.status # "CANCELLED"
         \/ \E t \in Ticks : tick[t].cur = m /\ tick'[t].cur = NoMandate
                               /\ tick[t].at \in {"refused", "unsaved"}]_vars

(* A mandate that is due does not stay due: it is charged, found charged,  *)
(* or its failure is counted, after finitely many crashes.                 *)
DueIsHandled ==
  \A m \in Mandates : m \in Due ~> m \notin Due

(* A run moves a mandate on past the period it tried and no further,       *)
(* whatever other runs and the owner saved meanwhile; only the catch block *)
(* that a failed save has landed in skips a period (features.test.js,      *)
(* "exactly once per period").                                             *)
OnlyFailedSavesSkip ==
  [][\A t \in Ticks : LET m == tick[t].cur IN
       /\ m # NoMandate /\ tick'[t].cur = NoMandate
       /\ mandate'[m].nextRunAt # mandate[m].nextRunAt /\ mandate'[m].nextRunAt > Key(t, m) + 1
       => tick[t].at = "unsaved"]_vars
===============================================================================
