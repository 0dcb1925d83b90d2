----------------------------- MODULE Notifications -----------------------------
(***************************************************************************)
(* The mail that tells a receiver of a committed transaction: from the     *)
(* event through the BullMQ queue, the worker and the circuit breaker of   *)
(* its process to SMTP, and what becomes of it when an add, a send, a      *)
(* process or the move to the dead-letter queue fails.                     *)
(***************************************************************************)
EXTENDS CircuitBreaker, FiniteSets, Sequences

CONSTANTS Txns,         \* committed transactions whose receiver has an address
          Attempts,     \* QUEUE_MAX_ATTEMPTS
          Concurrency,  \* QUEUE_CONCURRENCY
          MaxFaults     \* failed adds, failed moves to the DLQ and crashes

ASSUME NotificationAssumption ==
  {Attempts, Concurrency} \subseteq Nat \ {0} /\ MaxFaults \in Nat

VARIABLES redis,    \* REDIS_URL is set
          breakers,  \* smtpBreaker of the API process and of the worker process
          event,    \* how far transaction:success of each transaction got
          sends,    \* the calls of processJob made for each, in order
          job,      \* txn-notify-<id>: where it is, and its attemptsMade
          due,      \* jobs whose moveToDlq the worker has begun
          dead,     \* jobs on the dead-letter queue
          faults

notifyVars == <<redis, breakers, event, sends, job, due, dead, faults>>

Processes == {"api", "worker"}

NotifyInit ==
  /\ redis \in BOOLEAN
  /\ breakers = [p \in Processes |-> Constructed]
  /\ event = [t \in Txns |-> "none"]
  /\ sends = [t \in Txns |-> <<>>]
  /\ job = [t \in Txns |-> [at |-> "none", made |-> 0]]
  /\ due = {} /\ dead = {} /\ faults = 0

Fault == faults < MaxFaults /\ faults' = faults + 1

(* processJob in process p: sendMail asks the breaker before it does       *)
(* anything else.                                                          *)
Send(p, t) ==
  \E elapsed \in BOOLEAN :
    LET b == Asked(breakers[p], elapsed)
    IN  /\ breakers' = [breakers EXCEPT ![p] = IF Admits(b) THEN Admitted(b) ELSE b]
        /\ sends' = [sends EXCEPT ![t] = Append(@,
             [by |-> p, at |-> IF Admits(b) THEN "running" ELSE "failed", mailed |-> FALSE])]

-------------------------------------------------------------------------------
(* The API process: the event, and enqueue().                              *)
Announce(t) ==
  /\ event[t] = "none"
  /\ IF redis
     THEN event' = [event EXCEPT ![t] = "adding"] /\ UNCHANGED <<breakers, sends>>
     ELSE event' = [event EXCEPT ![t] = "inProcess"] /\ Send("api", t)
  /\ UNCHANGED <<redis, job, due, dead, faults>>

(* The client repeats an add whose reply it missed; the jobId makes that a *)
(* no-op while the job exists.  Faulty: without a jobId it is another job. *)
Add(t, absent) ==
  /\ event[t] \in {"adding", "queued"} /\ absent
  /\ event' = [event EXCEPT ![t] = "queued"]
  /\ job' = [job EXCEPT ![t].at = "waiting"]
  /\ UNCHANGED <<redis, breakers, sends, due, dead, faults>>

AddArrivesAnew(t) == Add(t, job[t].at \in {"none", "completed"})
AddArrives(t)     == Add(t, job[t].at = "none")

(* add() throws, whether or not Redis has taken the job: the fallback.     *)
AddFails(t) ==
  /\ event[t] = "adding" /\ Fault
  /\ event' = [event EXCEPT ![t] = "inProcess"]
  /\ \/ UNCHANGED job
     \/ job' = [job EXCEPT ![t].at = "waiting"]
  /\ Send("api", t)
  /\ UNCHANGED <<redis, due, dead>>

-------------------------------------------------------------------------------
(* A send, in either process, ends.  mailed: SMTP takes its mail, which    *)
(* may be after a timeout has ended the call, or before a failure does.    *)
SendEnds(t, i, how, mailed, b) ==
  /\ sends[t][i].at = "running"
  /\ sends' = [sends EXCEPT ![t][i] = [@ EXCEPT !.at = how, !.mailed = mailed]]
  /\ breakers' = [breakers EXCEPT ![sends[t][i].by] = b]
  /\ UNCHANGED <<redis, event, job, due, dead, faults>>

SendSucceeds(t, i) == SendEnds(t, i, "ok", TRUE, AfterSuccess(breakers[sends[t][i].by]))

SendFails(t, i) ==
  \E mailed \in BOOLEAN :
    SendEnds(t, i, "failed", mailed, AfterFailure(breakers[sends[t][i].by]))

(* A timeout is a failure to the breaker and to the caller.  Faulty: none  *)
(* is set, and a call may hang.                                            *)
SendHangs(t, i)    == FALSE
SendTimesOut(t, i) == SendFails(t, i)

-------------------------------------------------------------------------------
(* The worker: it takes a job when it has a place free (the backoff of a   *)
(* retry has passed by then), or when BullMQ finds it stalled, ...         *)
Active == {t \in Txns : job[t].at = "active"}

Take(t) ==
  /\ job[t].at = "waiting" /\ Cardinality(Active) < Concurrency
  /\ job' = [job EXCEPT ![t].at = "active"]
  /\ Send("worker", t)
  /\ UNCHANGED <<redis, event, due, dead, faults>>

(* The send of the worker for its active job t.                            *)
Current(t) ==
  CHOOSE i \in DOMAIN sends[t] :
    /\ sends[t][i].by = "worker"
    /\ \A j \in DOMAIN sends[t] : sends[t][j].by = "worker" => j <= i

(* ... and tells BullMQ how it ended.                                      *)
FinishWell(t) ==
  /\ job[t].at = "active" /\ sends[t][Current(t)].at = "ok"
  /\ job' = [job EXCEPT ![t].at = "completed"]
  /\ UNCHANGED <<redis, breakers, event, sends, due, dead, faults>>

(* on('failed'): exhausted compares attemptsMade, which counts this one.   *)
(* Faulty: it is compared as it was before.                                *)
ExhaustedBefore(t) == job[t].made >= Attempts
Exhausted(t)       == job[t].made + 1 >= Attempts

FinishBadly(t) ==
  /\ job[t].at = "active" /\ sends[t][Current(t)].at = "failed"
  /\ job' = [job EXCEPT ![t] = [at |-> IF @.made + 1 < Attempts THEN "waiting" ELSE "failed",
                                made |-> @.made + 1]]
  /\ due' = IF Exhausted(t) THEN due \cup {t} ELSE due
  /\ UNCHANGED <<redis, breakers, event, sends, dead, faults>>

MoveToDlq(t) ==
  /\ t \in due
  /\ due' = due \ {t}
  /\ \/ dead' = dead \cup {t} /\ UNCHANGED faults
     \/ Fault /\ UNCHANGED dead
  /\ UNCHANGED <<redis, breakers, event, sends, job>>

-------------------------------------------------------------------------------
(* A process dies, and starts again with a new breaker.  What it was       *)
(* sending, or had sent and not reported, is killed; SMTP may have taken   *)
(* the mails in M.                                                         *)
Killed(p, M) ==
  [t \in Txns |-> [i \in DOMAIN sends[t] |->
    LET s == sends[t][i]
        unreported == p = "worker" /\ t \in Active /\ i = Current(t) /\ s.at = "ok"
    IN  IF s.by # p THEN s
        ELSE IF s.at = "running" THEN [s EXCEPT !.at = "killed", !.mailed = t \in M]
        ELSE IF unreported THEN [s EXCEPT !.at = "killed"] ELSE s]]

ApiCrash ==
  /\ Fault
  /\ \E M \in SUBSET Txns : sends' = Killed("api", M)
  /\ breakers' = [breakers EXCEPT !["api"] = Constructed]
  /\ event' = [t \in Txns |-> IF event[t] = "adding" THEN "lost" ELSE event[t]]
  /\ UNCHANGED <<redis, job, due, dead>>

(* BullMQ puts the jobs of a dead worker back, which is no attempt made.   *)
WorkerCrash ==
  /\ redis /\ Fault
  /\ \E M \in SUBSET Txns : sends' = Killed("worker", M)
  /\ breakers' = [breakers EXCEPT !["worker"] = Constructed]
  /\ job' = [t \in Txns |-> IF t \in Active THEN [job[t] EXCEPT !.at = "waiting"] ELSE job[t]]
  /\ due' = {}
  /\ UNCHANGED <<redis, event, dead>>

Rest ==
  /\ \A t \in Txns : /\ event[t] \in {"queued", "inProcess", "lost"}
                     /\ job[t].at \in {"none", "completed", "failed"}
                     /\ \A i \in DOMAIN sends[t] : sends[t][i].at # "running"
  /\ due = {}
  /\ UNCHANGED notifyVars

Work ==
  \/ \E t \in Txns : \/ Announce(t) \/ AddArrives(t)
                     \/ Take(t) \/ FinishWell(t) \/ FinishBadly(t) \/ MoveToDlq(t)
                     \/ \E i \in DOMAIN sends[t] : SendTimesOut(t, i)

NotifyNext ==
  \/ Work
  \/ \E t \in Txns : \/ AddFails(t)
                     \/ \E i \in DOMAIN sends[t] : SendSucceeds(t, i) \/ SendFails(t, i)
  \/ ApiCrash \/ WorkerCrash \/ Rest

NotifySpec == NotifyInit /\ [][NotifyNext]_notifyVars

(* Both processes are restarted and go on, and every call that SMTP leaves *)
(* without an answer times out.                                            *)
FairNotifySpec == NotifySpec /\ WF_notifyVars(Work)

-------------------------------------------------------------------------------
(* One transaction is mailed twice only if one of the two sends was not    *)
(* known to have worked (it failed, timed out or died), or if one is the   *)
(* fallback of an add that Redis had taken (notificationQueue.js:85,       *)
(* events.js:26).                                                          *)
DuplicatesExplained ==
  \A t \in Txns : \A i, j \in DOMAIN sends[t] :
    i < j /\ sends[t][i].mailed /\ sends[t][j].mailed =>
      \/ sends[t][i].at \in {"failed", "killed"}
      \/ sends[t][i].by # sends[t][j].by

(* A job is completed only when its mail was taken by SMTP; it is dead-    *)
(* lettered only after Attempts sends of the worker that did not succeed;  *)
(* and where nothing goes wrong besides SMTP, one that failed for good is  *)
(* dead-lettered (notificationWorker.js:46-54).                            *)
Worked(t)   == \E i \in DOMAIN sends[t] : sends[t][i].by = "worker" /\ sends[t][i].at = "ok"
Unworked(t) == {i \in DOMAIN sends[t] : sends[t][i].by = "worker" /\ sends[t][i].at \in {"failed", "killed"}}

OutcomesAreHonest ==
  \A t \in Txns :
    /\ job[t].at = "completed" => Worked(t)
    /\ t \in due \cup dead => job[t].at = "failed" /\ ~Worked(t) /\ Cardinality(Unworked(t)) >= Attempts
    /\ job[t].at = "failed" /\ faults = 0 => t \in due \cup dead

(* A queued notification is settled, whatever SMTP, the breaker, the queue *)
(* and the processes do: completed, or failed and kept (notificationQueue  *)
(* .js:9-15).                                                              *)
QueuedIsSettled ==
  \A t \in Txns : job[t].at # "none" ~> job[t].at \in {"completed", "failed"}
=================================================================================
