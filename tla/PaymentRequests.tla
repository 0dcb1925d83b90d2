---------------------------- MODULE PaymentRequests ---------------------------
(***************************************************************************)
(* src/controllers/paymentRequestController.js and the expiry sweep of     *)
(* src/workers/recurringWorker.js: PENDING requests that HTTP calls        *)
(* accept, decline, cancel or list, and that run out of time.              *)
(*                                                                         *)
(* Every handler works on the copy it loaded: it decides on the copy's     *)
(* status, and save() writes the fields it set by _id alone, whatever the  *)
(* stored document has become.  postTransaction is one step, as            *)
(* AtomicLedger has it, which may be refused for reasons of the ledger.    *)
(***************************************************************************)
EXTENDS Naturals, FiniteSets

CONSTANTS Requests,  \* PaymentRequest documents
          Calls,     \* HTTP calls
          NoCall     \* a request without a transaction

ASSUME NoCallAssumption == NoCall \notin Calls

VARIABLES status,       \* PaymentRequest.status, "none" before it is created
          transaction,  \* PaymentRequest.transaction, by the call that posted it
          overdue,      \* expiresAt has passed
          payments,     \* per request, the calls that moved money for it
          pc,           \* where each call is
          call          \* what each call does, to which request, and its copy's status

vars == <<status, transaction, overdue, payments, pc, call>>

Kinds == {"accept", "decline", "cancel", "list"}
Final == {"ACCEPTED", "DECLINED", "CANCELLED", "EXPIRED"}
Statuses == {"none", "PENDING"} \cup Final
NoWork == [kind |-> "none"]

TypeOK ==
  /\ status \in [Requests -> Statuses]
  /\ transaction \in [Requests -> Calls \cup {NoCall}]
  /\ overdue \in [Requests -> BOOLEAN]
  /\ payments \in [Requests -> SUBSET Calls]
  /\ pc \in [Calls -> {"idle", "loaded", "checked", "paid", "done", "refused", "crashed"}]
  /\ call \in [Calls -> [kind : Kinds, request : Requests, seen : Statuses] \cup {NoWork}]

Init ==
  /\ status = [r \in Requests |-> "none"]
  /\ transaction = [r \in Requests |-> NoCall]
  /\ overdue = [r \in Requests |-> FALSE]
  /\ payments = [r \in Requests |-> {}]
  /\ pc = [c \in Calls |-> "idle"]
  /\ call = [c \in Calls |-> NoWork]

CreatePaymentRequest(r) ==
  /\ status[r] = "none"
  /\ status' = [status EXCEPT ![r] = "PENDING"]
  /\ UNCHANGED <<transaction, overdue, payments, pc, call>>

TimePasses(r) ==
  /\ status[r] # "none" /\ ~overdue[r]
  /\ overdue' = [overdue EXCEPT ![r] = TRUE]
  /\ UNCHANGED <<status, transaction, payments, pc, call>>

Load(c, kind, r) ==
  /\ pc[c] = "idle" /\ status[r] # "none"
  /\ pc' = [pc EXCEPT ![c] = IF kind = "cancel" THEN "checked" ELSE "loaded"]
  /\ call' = [call EXCEPT ![c] = [kind |-> kind, request |-> r, seen |-> status[r]]]
  /\ UNCHANGED <<status, transaction, overdue, payments>>

(* expireIfNeeded, on the copy: cancelPaymentRequest has no such call.     *)
ExpireIfNeeded(c) ==
  LET r == call[c].request
      expires == call[c].seen = "PENDING" /\ overdue[r]
  IN  /\ pc[c] = "loaded"
      /\ status' = IF expires THEN [status EXCEPT ![r] = "EXPIRED"] ELSE status
      /\ call' = IF expires THEN [call EXCEPT ![c].seen = "EXPIRED"] ELSE call
      /\ pc' = [pc EXCEPT ![c] = IF call[c].kind = "list" THEN "done" ELSE "checked"]
      /\ UNCHANGED <<transaction, overdue, payments>>

(* 409: the copy is not PENDING any more.                                  *)
AlreadySettled(c) ==
  /\ pc[c] = "checked" /\ call[c].seen # "PENDING"
  /\ pc' = [pc EXCEPT ![c] = "refused"]
  /\ UNCHANGED <<status, transaction, overdue, payments, call>>

(* postTransaction of acceptPaymentRequest, which the ledger may refuse.   *)
Pay(c) ==
  /\ pc[c] = "checked" /\ call[c].kind = "accept" /\ call[c].seen = "PENDING"
  /\ \/ /\ payments' = [payments EXCEPT ![call[c].request] = @ \cup {c}]
        /\ pc' = [pc EXCEPT ![c] = "paid"]
     \/ pc' = [pc EXCEPT ![c] = "refused"] /\ UNCHANGED payments
  /\ UNCHANGED <<status, transaction, overdue, call>>

(* Faulty: the transaction is saved without the status.                    *)
SaveAcceptedSilently(c) ==
  /\ pc[c] = "paid"
  /\ transaction' = [transaction EXCEPT ![call[c].request] = c]
  /\ pc' = [pc EXCEPT ![c] = "done"]
  /\ UNCHANGED <<status, overdue, payments, call>>

(* request.save() of the three handlers that answer a request.             *)
SaveAccepted(c) ==
  /\ pc[c] = "paid"
  /\ status' = [status EXCEPT ![call[c].request] = "ACCEPTED"]
  /\ transaction' = [transaction EXCEPT ![call[c].request] = c]
  /\ pc' = [pc EXCEPT ![c] = "done"]
  /\ UNCHANGED <<overdue, payments, call>>

SaveRefusal(c) ==
  /\ pc[c] = "checked" /\ call[c].kind \in {"decline", "cancel"} /\ call[c].seen = "PENDING"
  /\ status' = [status EXCEPT ![call[c].request] =
                  IF call[c].kind = "decline" THEN "DECLINED" ELSE "CANCELLED"]
  /\ pc' = [pc EXCEPT ![c] = "done"]
  /\ UNCHANGED <<transaction, overdue, payments, call>>

Crash(c) ==
  /\ pc[c] \in {"loaded", "checked", "paid"}
  /\ pc' = [pc EXCEPT ![c] = "crashed"]
  /\ UNCHANGED <<status, transaction, overdue, payments, call>>

(* Faulty: the sweep takes every overdue request, or those not overdue.    *)
ExpireAnyOverdue ==
  LET due == {r \in Requests : status[r] \notin {"none", "EXPIRED"} /\ overdue[r]}
  IN  /\ due # {}
      /\ status' = [r \in Requests |-> IF r \in due THEN "EXPIRED" ELSE status[r]]
      /\ UNCHANGED <<transaction, overdue, payments, pc, call>>
ExpireNotOverdue ==
  LET due == {r \in Requests : status[r] = "PENDING" /\ ~overdue[r]}
  IN  /\ due # {}
      /\ status' = [r \in Requests |-> IF r \in due THEN "EXPIRED" ELSE status[r]]
      /\ UNCHANGED <<transaction, overdue, payments, pc, call>>

(* expireStalePaymentRequests: one updateMany, guarded by the stored status. *)
ExpireStalePaymentRequests ==
  LET due == {r \in Requests : status[r] = "PENDING" /\ overdue[r]}
  IN  /\ due # {}
      /\ status' = [r \in Requests |-> IF r \in due THEN "EXPIRED" ELSE status[r]]
      /\ UNCHANGED <<transaction, overdue, payments, pc, call>>

Answered == (\A c \in Calls : pc[c] \in {"done", "refused", "crashed"}) /\ UNCHANGED vars

Next ==
  \/ \E r \in Requests : CreatePaymentRequest(r) \/ TimePasses(r)
  \/ \E c \in Calls, kind \in Kinds, r \in Requests : Load(c, kind, r)
  \/ \E c \in Calls : ExpireIfNeeded(c) \/ AlreadySettled(c) \/ Pay(c) \/ SaveAccepted(c)
                        \/ SaveRefusal(c) \/ Crash(c)
  \/ ExpireStalePaymentRequests
  \/ Answered

Spec == Init /\ [][Next]_vars

(* The cron task runs the sweep every few minutes for as long as it lives. *)
FairSpec == Spec /\ WF_vars(ExpireStalePaymentRequests)

-------------------------------------------------------------------------------
(* Once a call that paid a request has ended, no later call can find the   *)
(* request payable: two payments need two overlapping calls, or a crash.   *)
PaidIsNotPayable ==
  \A r \in Requests : (\E c \in payments[r] : pc[c] = "done") => status[r] \in Final

(* A request that reads ACCEPTED names a transfer made for it.             *)
AcceptedHasPayment ==
  \A r \in Requests : status[r] = "ACCEPTED" => transaction[r] \in payments[r]

(* The status of a request that was answered is only ever changed by a     *)
(* call that had read it, PENDING, before the answer.                      *)
OnlyLateWritersOverwrite ==
  [][\A r \in Requests : status[r] \in Final /\ status'[r] # status[r] =>
       \E c \in Calls : /\ pc[c] \in {"loaded", "checked", "paid"} /\ pc'[c] # pc[c]
                        /\ call[c].request = r /\ call[c].seen = "PENDING"]_vars

(* The sweep gets every request that runs out of time.                     *)
OverdueExpires ==
  \A r \in Requests : overdue[r] /\ status[r] = "PENDING" ~> status[r] \in Final
==============================================================================
