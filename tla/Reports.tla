------------------------------- MODULE Reports --------------------------------
(***************************************************************************)
(* What a user is told of their transactions: the statement                *)
(* (src/services/statementService.js), the monthly summary and the         *)
(* spending analytics (src/controllers/txnController.js), which also is    *)
(* what the spending limits count (enforceLimits.js).  All the documents   *)
(* are of one month, and none lies outside the range that is asked for.    *)
(***************************************************************************)
EXTENDS Postings, FiniteSetsExt

Paise(T) == MapThenSumSet(LAMBDA t : txns[t].amountPaise, T)

History(u) == {t \in Calls : txns[t] # NoTxn /\ u \in {txns[t].sender, txns[t].receiver}}

(* Faulty: a refund is shown as money received, to both parties.           *)
DirectionForRefundIn(t, u) ==
  CASE t.type \in {"ADD_MONEY", "REFUND"} -> "CREDIT"
    [] t.type \in {"WITHDRAW", "BILL_PAY"} -> "DEBIT"
    [] OTHER -> IF t.sender = u THEN "DEBIT" ELSE "CREDIT"

DirectionFor(t, u) ==
  CASE t.type = "ADD_MONEY" -> "CREDIT"
    [] t.type \in {"WITHDRAW", "BILL_PAY"} -> "DEBIT"
    [] OTHER -> IF t.sender = u THEN "DEBIT" ELSE "CREDIT"

(* The totals of a statement are over every status.                        *)
StatementNet(u) ==
  LET toward(direction) == {t \in History(u) : DirectionFor(txns[t], u) = direction}
  IN Paise(toward("CREDIT")) - Paise(toward("DEBIT"))

(* The summary and the analytics are over transactions that read SUCCESS.  *)
Succeeded(u) == {t \in History(u) : txns[t].status = "SUCCESS"}

Summary(u) ==
  LET of(types, outbound) == Paise({t \in Succeeded(u) : txns[t].type \in types
                                      /\ (txns[t].sender = u) = outbound})
  IN [sent |-> of({"TRANSFER", "REFUND"}, TRUE), received |-> of({"TRANSFER", "REFUND"}, FALSE),
      billsPaid |-> of({"BILL_PAY"}, TRUE), addedMoney |-> of({"ADD_MONEY"}, FALSE),
      withdrawn |-> of({"WITHDRAW"}, TRUE)]

TotalSpent(u) ==
  Paise({t \in Succeeded(u) : txns[t].sender = u /\ txns[t].type \in {"TRANSFER", "BILL_PAY", "WITHDRAW"}})

-------------------------------------------------------------------------------
(* A statement's net is what the user's balance has changed by since the   *)
(* opening, however transfers are refunded; the summary's net is off by    *)
(* exactly the reversed transfers, which it leaves out while it counts     *)
(* their refunds; and spending is what the summary has sent, paid and      *)
(* withdrawn, less the refunds the user gave (statementService.js:61-66,   *)
(* txnController.js:108, :134-138, :166-171).                              *)
ReportsFollowTheBalance ==
  \A u \in Users :
    LET change == balance[u] - Opening[u]
        s == Summary(u)
        reversed == {t \in History(u) : txns[t].status = "REVERSED"}
        given == {t \in Succeeded(u) : txns[t].sender = u /\ txns[t].type = "REFUND"}
    IN /\ StatementNet(u) = change
       /\ s.received + s.addedMoney - s.sent - s.billsPaid - s.withdrawn
            = change + Paise({t \in reversed : txns[t].sender = u})
                     - Paise({t \in reversed : txns[t].receiver = u})
       /\ TotalSpent(u) = s.sent + s.billsPaid + s.withdrawn - Paise(given)
===============================================================================
