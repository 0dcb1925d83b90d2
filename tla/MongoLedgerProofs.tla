--------------------------- MODULE MongoLedgerProofs --------------------------
(***************************************************************************)
(* MongoLedger, for any wallets, requests and amounts: its inductive       *)
(* invariant, and with it that no wallet is overdrawn, that every balance  *)
(* is what its ledger entries add up to, and that refunds stay bounded.    *)
(***************************************************************************)
EXTENDS MongoLedger, Reports, Sums

USE AccountsAssumption, PostingsAssumption, NoTxnAssumption

-------------------------------------------------------------------------------
(* Every movement buildEntries accepts has balanced entries, each side of  *)
(* them the amount: the check of assertBalanced never fires.               *)
THEOREM EntriesBalance ==
  ASSUME NEW m, Buildable(m)
  PROVE  \A side \in {"DEBIT", "CREDIT"} : SideTotal(BuildEntries(m), side) = m.amountPaise
BY DEF Buildable, BuildEntries, DebitedAccount, CreditedAccount, SideTotal, OnSide, Debit, Credit, Types

(* The entries of a movement are worth to each wallet exactly what the     *)
(* movement does to its cached balance: minus the amount to the payer,     *)
(* plus the amount to the payee.                                           *)
THEOREM EntriesMatchMovement ==
  ASSUME NEW m, WellFormed(m), Postable(m), NEW u \in Users
  PROVE  NetForAccount(BuildEntries(m), u) =
           IF u = m.from THEN -m.amountPaise ELSE IF u = m.to THEN m.amountPaise ELSE 0
BY AccountsAssumption
   DEF Buildable, WellFormed, Postable, BuildEntries, DebitedAccount, CreditedAccount, NetForAccount, Signed, OnSide, Debit, Credit, Types

-------------------------------------------------------------------------------
(* The invariant holds before the first request.                           *)
LEMMA InitIInv == Init => IInv
  <1> SUFFICES ASSUME Init PROVE IInv
    OBVIOUS
  <1> USE DEF Init, PostingsInit
  <1>1. TypeOK
    BY DEF TypeOK, PostingsTypeOK, Snapshots, NoSnap, Docs
  <1>2. NoOverdraft /\ Reconciled
    BY DEF NoOverdraft, Reconciled
  <1>3. RefundsBounded
    BY DEF RefundsBounded
  <1>4. \A c \in Calls : Written(c) = {}
    BY DEF Written
  <1>5. \A c \in Calls : CallOK(c)
    BY <1>4 DEF CallOK, Pending, InSession, StepApplies, GuardsHold
  <1>6. QED
    BY <1>1, <1>2, <1>3, <1>4, <1>5 DEF IInv, WritesDisjoint

(***************************************************************************)
(* A step of one call that changes no document keeps the invariant if the  *)
(* call itself ends up in order.                                           *)
(***************************************************************************)
LEMMA LocalStep ==
  ASSUME IInv, NEW c \in Calls, UNCHANGED money, TypeOK', CallOK(c)',
         \A s \in Calls \ {c} : /\ pc'[s] = pc[s] /\ req'[s] = req[s]
                                /\ snap'[s] = snap[s] /\ stale'[s] = stale[s]
                                /\ emitted'[s] = emitted[s],
         \A s \in Calls \ {c} : Written(c)' \cap Written(s) = {}
  PROVE  IInv'
  <1>1. NoOverdraft' /\ Reconciled' /\ RefundsBounded'
    BY DEF IInv, NoOverdraft, Reconciled, RefundsBounded, money
  <1>2. \A s \in Calls \ {c} : Written(s)' = Written(s)
    BY DEF Written
  <1>3. ASSUME NEW s \in Calls \ {c} PROVE CallOK(s)'
    <2>1. CallOK(s)
      BY DEF IInv
    <2>2. QED
      BY <2>1, <1>2 DEF CallOK, money, RequestSound, StepApplies, SnapshotCurrent, GuardsHold, Db
  <1>4. WritesDisjoint'
    BY <1>2 DEF IInv, WritesDisjoint
  <1>5. QED
    BY <1>1, <1>3, <1>4 DEF IInv

(* A session that has just begun, or a call outside one, has written nothing. *)
LEMMA WrittenNothing ==
  ASSUME NEW c \in Calls, pc[c] \notin {"debit", "credit", "record"}
  PROVE  Written(c) = {}
BY DEF Written

(* The handlers: a sound request, and no session yet.                      *)
LEMMA AcceptStep ==
  ASSUME IInv, NEW c \in Calls, NEW m, Accept(c, m), RequestSound(m), UNCHANGED <<snap, stale>>
  PROVE  IInv'
  <1> USE DEF Accept
  <1>1. pc' = [pc EXCEPT ![c] = "posting"] /\ req' = [req EXCEPT ![c] = m] /\ UNCHANGED money
    OBVIOUS
  <1>2. m \in Requests /\ TypeOK
    BY DEF IInv, RequestSound
  <1>3. TypeOK'
    BY <1>2 DEF TypeOK, PostingsTypeOK, money
  <1>4. pc'[c] = "posting" /\ req'[c] = m /\ snap'[c] = snap[c] /\ stale'[c] = stale[c]
    BY <1>2 DEF TypeOK, PostingsTypeOK
  <1>5. Written(c)' = {}
    BY <1>4 DEF Written
  <1>6. txns[c] = NoTxn /\ emitted[c] = 0
    BY DEF IInv, CallOK
  <1>7. RequestSound(req[c])'
    BY <1>4 DEF RequestSound, money
  <1>8. CallOK(c)'
    BY <1>4, <1>5, <1>6, <1>7 DEF CallOK, InSession, StepApplies, GuardsHold, money, IInv
  <1>9. \A s \in Calls \ {c} : /\ pc'[s] = pc[s] /\ req'[s] = req[s]
                                /\ snap'[s] = snap[s] /\ stale'[s] = stale[s]
                                /\ emitted'[s] = emitted[s]
    BY <1>2 DEF TypeOK, PostingsTypeOK
  <1>10. QED
    BY <1>3, <1>5, <1>8, <1>9, LocalStep

(* Whatever its kind, a request that a handler accepts is sound: a refund  *)
(* names a transfer that is there, and no more than is left of it.         *)
LEMMA HandleStep ==
  ASSUME IInv, NEW c \in Calls, Handle(c), UNCHANGED <<snap, stale>>
  PROVE  IInv'
  <1> USE DEF RequestSound, Requests, Movement, WellFormed, Buildable, Types
  <1>1. CASE SendMoney(c)
    <2>1. PICK sender \in Users, receiver \in Users, paise \in 1..MaxPaise :
            Accept(c, Movement("TRANSFER", paise, sender, receiver))
      BY <1>1 DEF SendMoney
    <2>2. RequestSound(Movement("TRANSFER", paise, sender, receiver))
      BY <2>1 DEF Accept
    <2>3. QED
      BY <2>1, <2>2, AcceptStep
  <1>2. CASE AddMoney(c)
    <2>1. PICK user \in Users, paise \in 1..MaxPaise :
            Accept(c, Movement("ADD_MONEY", paise, NoUser, user))
      BY <1>2 DEF AddMoney
    <2>2. RequestSound(Movement("ADD_MONEY", paise, NoUser, user))
      BY <2>1 DEF Accept
    <2>3. QED
      BY <2>1, <2>2, AcceptStep
  <1>3. CASE PayBill(c)
    <2>1. PICK user \in Users, paise \in 1..MaxPaise :
            Accept(c, Movement("BILL_PAY", paise, user, NoUser))
      BY <1>3 DEF PayBill
    <2>2. RequestSound(Movement("BILL_PAY", paise, user, NoUser))
      BY <2>1 DEF Accept
    <2>3. QED
      BY <2>1, <2>2, AcceptStep
  <1>4. CASE Withdraw(c)
    <2>1. PICK user \in Users, paise \in 1..MaxPaise :
            Accept(c, Movement("WITHDRAW", paise, user, NoUser))
      BY <1>4 DEF Withdraw
    <2>2. RequestSound(Movement("WITHDRAW", paise, user, NoUser))
      BY <2>1 DEF Accept
    <2>3. QED
      BY <2>1, <2>2, AcceptStep
  <1>5. CASE RefundTransaction(c)
    <2>1. PICK o \in Calls : /\ txns[o] # NoTxn /\ txns[o].type = "TRANSFER"
                             /\ \E requested \in 1..(txns[o].amountPaise - txns[o].refundedPaise) :
                                  Accept(c, [type |-> "REFUND", amountPaise |-> requested,
                                             from |-> txns[o].receiver, to |-> txns[o].sender,
                                             refundOf |-> o, seen |-> txns[o].refundedPaise])
      BY <1>5 DEF RefundTransaction
    <2> DEFINE refund(paise) == [type |-> "REFUND", amountPaise |-> paise,
                                 from |-> txns[o].receiver, to |-> txns[o].sender,
                                 refundOf |-> o, seen |-> txns[o].refundedPaise]
    <2>2. PICK requested \in 1..(txns[o].amountPaise - txns[o].refundedPaise) :
            Accept(c, refund(requested))
      BY <2>1
    <2>3. txns[o] \in Transactions
      BY <2>1 DEF IInv, TypeOK, PostingsTypeOK
    <2>4. Postable(refund(requested))
      BY <2>2 DEF Accept
    <2>5. RequestSound(refund(requested))
      BY <2>1, <2>3, <2>4 DEF Transactions, Postable
    <2>6. QED
      BY <2>2, <2>5, AcceptStep
  <1>6. QED
    BY <1>1, <1>2, <1>3, <1>4, <1>5 DEF Handle


(* A call that ends, or goes back to wait for its next session.            *)
LEMMA LeaveStep ==
  ASSUME IInv, NEW c \in Calls,
         NEW to \in Terminal \cup {"aborted", "posting"},
         UNCHANGED money, TypeOK',
         pc' = [pc EXCEPT ![c] = to],
         to \in {"aborted", "posting"} => pc[c] \in Pending \ {"committed"} /\ UNCHANGED req,
         to = "done" => pc[c] = "committed" /\ emitted'[c] = IF NotifiesOf(txns[c]) THEN 1 ELSE 0,
         to # "done" => UNCHANGED emitted,
         to = "failed" => pc[c] \in Pending,
         \A s \in Calls \ {c} : /\ req'[s] = req[s] /\ snap'[s] = snap[s] /\ stale'[s] = stale[s]
                                /\ emitted'[s] = emitted[s]
  PROVE  IInv'
  <1>1. TypeOK /\ CallOK(c)
    BY DEF IInv
  <1>2. pc'[c] = to /\ \A s \in Calls \ {c} : pc'[s] = pc[s]
    BY <1>1 DEF TypeOK
  <1>3. Written(c)' = {}
    BY <1>2 DEF Written, Terminal
  <1>4. pc'[c] \in Pending => RequestSound(req[c])'
    BY <1>1, <1>2 DEF CallOK, RequestSound, money, Terminal, Pending, InSession
  <1>5. /\ pc'[c] # "committed"
        /\ pc'[c] = "done" => txns'[c] # NoTxn
        /\ txns'[c] # NoTxn => pc'[c] \in {"done", "failed"}
    BY <1>1, <1>2 DEF CallOK, money, Terminal, Pending, InSession
  <1>6. emitted'[c] = IF pc'[c] = "done" /\ NotifiesOf(txns'[c]) THEN 1 ELSE 0
    <2>1. CASE to = "done"
      BY <1>2, <2>1 DEF money
    <2>2. CASE to # "done"
      <3>1. pc[c] \in Pending
        BY <2>2 DEF Terminal, Pending
      <3>2. QED
        BY <1>1, <1>2, <2>2, <3>1 DEF CallOK, Pending, InSession
    <2>3. QED
      BY <2>1, <2>2
  <1>8. CallOK(c)'
    <2>1. StepApplies(c)' /\ GuardsHold(c)' /\ pc'[c] \notin InSession
      BY <1>2 DEF StepApplies, GuardsHold, InSession, Terminal
    <2>2. (emitted[c] = IF pc[c] = "done" /\ NotifiesOf(txns[c]) THEN 1 ELSE 0)'
      BY <1>6 DEF NotifiesOf
    <2>3. QED
      BY <1>3, <1>4, <1>5, <2>1, <2>2 DEF CallOK
  <1>7. QED
    BY <1>2, <1>3, <1>8, LocalStep

(* A call that is answered, refused, aborted, rerun, timed out or crashed  *)
(* leaves every document as it was.                                        *)
LEMMA EndStep ==
  ASSUME IInv, NEW c \in Calls,
         \/ (Finish(c) \/ FailCommitted(c)) /\ UNCHANGED <<snap, stale>>
         \/ Refuse(c) \/ Conflict(c) \/ Retry(c) \/ TimeUp(c) \/ Fault(c) \/ Crash(c)
  PROVE  IInv'
  <1>1. TypeOK
    BY DEF IInv
  <1>2. NoSnap \in Snapshots
    BY DEF NoSnap, Snapshots
  <1>3. CASE (Finish(c) \/ FailCommitted(c)) /\ UNCHANGED <<snap, stale>>
    <2>1. TypeOK'
      BY <1>1, <1>3 DEF TypeOK, PostingsTypeOK, Finish, FailCommitted, money, Terminal
    <2>2. /\ pc[c] = "committed" /\ emitted[c] = 0
          /\ Notifies(req[c]) = NotifiesOf(txns[c])
      BY <1>3 DEF Finish, FailCommitted, IInv, CallOK, Notifies, NotifiesOf
    <2>3. ASSUME Finish(c) PROVE IInv'
      <3>1. emitted'[c] = IF NotifiesOf(txns[c]) THEN 1 ELSE 0
        BY <1>1, <2>2, <2>3 DEF Finish, TypeOK, PostingsTypeOK
      <3>2. QED
        BY <1>1, <1>3, <2>1, <2>2, <2>3, <3>1, LeaveStep
           DEF Finish, Terminal, TypeOK, PostingsTypeOK
    <2>4. ASSUME FailCommitted(c) PROVE IInv'
      BY <1>1, <1>3, <2>1, <2>2, <2>4, LeaveStep
         DEF FailCommitted, Terminal, Pending, TypeOK, PostingsTypeOK
    <2>5. QED
      BY <1>3, <2>3, <2>4
  <1>4. ASSUME Fail(c), pc[c] \in Pending \ {"committed"} PROVE IInv'
    <2>1. TypeOK'
      BY <1>1, <1>2, <1>4 DEF TypeOK, PostingsTypeOK, Fail, EndSession, money, Terminal
    <2>2. QED
      BY <1>1, <1>4, <2>1, LeaveStep DEF Fail, EndSession, Terminal, TypeOK, PostingsTypeOK
  <1>5. ASSUME Abort(c), pc[c] \in InSession PROVE IInv'
    <2>1. TypeOK'
      BY <1>1, <1>2, <1>5 DEF TypeOK, PostingsTypeOK, Abort, EndSession, money
    <2>2. QED
      BY <1>1, <1>5, <2>1, LeaveStep
         DEF Abort, EndSession, Terminal, TypeOK, PostingsTypeOK, Pending, InSession
  <1>6. CASE Retry(c)
    <2>1. TypeOK'
      BY <1>1, <1>6 DEF TypeOK, PostingsTypeOK, Retry, GoTo, money
    <2>2. QED
      BY <1>1, <1>6, <2>1, LeaveStep DEF Retry, GoTo, Terminal, Pending
  <1>7. QED
    BY <1>3, <1>4, <1>5, <1>6
       DEF Refuse, Conflict, TimeUp, Fault, Crash, InSession, Pending

(* A new session sees every document as it is.                             *)
LEMMA BeginStep ==
  ASSUME IInv, NEW c \in Calls, Begin(c)
  PROVE  IInv'
  <1>1. TypeOK /\ CallOK(c) /\ pc[c] = "posting" /\ RequestSound(req[c])
    BY DEF IInv, Begin, CallOK, Pending
  <1>2. FirstWrite(req[c]) \in {"claim", "debit", "credit"}
    BY <1>1 DEF FirstWrite, AfterClaim, AfterDebit, RequestSound, WellFormed, Buildable, Types
  <1>3. /\ pc'[c] = FirstWrite(req[c]) /\ stale'[c] = {} /\ UNCHANGED <<money, req, emitted>>
        /\ snap'[c] = [balance |-> balance, active |-> active, txns |-> txns]
    BY <1>1 DEF Begin, TypeOK, PostingsTypeOK
  <1>4. TypeOK'
    BY <1>1, <1>2 DEF Begin, TypeOK, PostingsTypeOK, money, Snapshots, InSession
  <1>5. Written(c)' \cap stale'[c] = {}
    BY <1>3
  <1>6. StepApplies(c)' /\ (FirstWrite(req[c]) = "debit" => req[c].type # "REFUND")
        /\ (FirstWrite(req[c]) = "credit" => req[c].type # "REFUND" /\ req[c].from \notin Users)
    BY <1>1, <1>3 DEF StepApplies, FirstWrite, AfterClaim, AfterDebit, RequestSound, Requests
  <1>7. Written(c)' = {}
    BY <1>1, <1>2, <1>3, <1>6 DEF Written, RequestSound, Requests, Docs
  <1>8. GuardsHold(c)'
    BY <1>2, <1>3, <1>6 DEF GuardsHold
  <1>9. SnapshotCurrent(c)'
    BY <1>3 DEF SnapshotCurrent, money
  <1>10. CallOK(c)'
    BY <1>1, <1>2, <1>3, <1>5, <1>6, <1>8, <1>9 DEF CallOK, RequestSound, money
  <1>11. QED
    BY <1>1, <1>4, <1>7, <1>10, LocalStep DEF Begin, TypeOK, PostingsTypeOK

(* A guarded write: its document is free and seen as it is, so its guard   *)
(* holds of the document itself, and the session now owns it.              *)
LEMMA WriteStep ==
  ASSUME IInv, NEW c \in Calls, Claim(c) \/ DebitSender(c) \/ CreditReceiver(c)
  PROVE  IInv'
  <1> DEFINE m == req[c]
             doc == IF pc[c] = "claim" THEN m.refundOf ELSE IF pc[c] = "debit" THEN m.from ELSE m.to
  <1>1. /\ TypeOK /\ CallOK(c) /\ WritesDisjoint /\ pc[c] \in {"claim", "debit", "credit"}
        /\ RequestSound(m) /\ SnapshotCurrent(c) /\ StepApplies(c)
    BY DEF IInv, CallOK, Claim, DebitSender, CreditReceiver, Pending, InSession
  <1>2. /\ UNCHANGED <<money, req, emitted, snap, stale>> /\ Writable(c, doc)
        /\ pc' = [pc EXCEPT ![c] = IF pc[c] = "claim" THEN AfterClaim(m)
                                   ELSE IF pc[c] = "debit" THEN AfterDebit(m) ELSE "record"]
    BY <1>1 DEF Claim, DebitSender, CreditReceiver, GoTo
  <1>3. pc'[c] = IF pc[c] = "claim" THEN AfterClaim(m)
                 ELSE IF pc[c] = "debit" THEN AfterDebit(m) ELSE "record"
    BY <1>1, <1>2 DEF TypeOK
  <1>4. pc'[c] \in {"debit", "credit", "record"} /\ \A s \in Calls \ {c} : pc'[s] = pc[s]
    BY <1>1, <1>2, <1>3 DEF AfterClaim, AfterDebit, TypeOK
  <1>5. TypeOK'
    BY <1>1, <1>2, <1>4 DEF TypeOK, PostingsTypeOK, money, InSession, Terminal
  <1>6. /\ m \in Requests /\ WellFormed(m)
        /\ m.type = "REFUND" => m.refundOf \in Calls /\ m.from \in Users /\ m.to \in Users
        /\ m.type # "REFUND" => m.refundOf = NoTxn
        /\ m.from \in Users \cup {NoUser} /\ m.to \in Users \cup {NoUser}
    BY <1>1 DEF RequestSound, Requests, WellFormed, Buildable
  <1>7. StepApplies(c)'
    BY <1>1, <1>2, <1>3, <1>4, <1>6 DEF StepApplies, AfterClaim, AfterDebit
  <1>8. Written(c)' \subseteq Written(c) \cup {doc}
    <2>1. CASE pc[c] = "claim"
      BY <2>1, <1>1, <1>2, <1>3, <1>6 DEF Written, AfterClaim, StepApplies, Docs
    <2>2. CASE pc[c] = "debit"
      BY <2>2, <1>1, <1>2, <1>3, <1>6 DEF Written, AfterDebit, StepApplies, Docs
    <2>3. CASE pc[c] = "credit"
      BY <2>3, <1>1, <1>2, <1>3, <1>6 DEF Written, StepApplies, Docs
    <2>4. QED
      BY <1>1, <2>1, <2>2, <2>3
  <1>9. Written(c)' \cap stale'[c] = {}
    BY <1>1, <1>2, <1>8 DEF CallOK, Writable
  <1>10. \A s \in Calls \ {c} : Written(c)' \cap Written(s) = {}
    BY <1>1, <1>2, <1>8 DEF WritesDisjoint, Writable
  <1>11. GuardsHold(c)'
    <2>1. CASE pc[c] = "claim"
      <3>1. ClaimMatches(Db, m)
        BY <2>1, <1>1, <1>2, <1>6 DEF Claim, DebitSender, CreditReceiver, Writable,
           SnapshotCurrent, ClaimMatches, Db, StepApplies
      <3>2. QED
        BY <2>1, <3>1, <1>1, <1>2, <1>3, <1>6
           DEF GuardsHold, AfterClaim, ClaimMatches, Db, money, StepApplies
    <2>2. CASE pc[c] = "debit"
      <3>1. DebitMatches(Db, m)
        BY <2>2, <1>1, <1>2, <1>6 DEF Claim, DebitSender, CreditReceiver, Writable,
           SnapshotCurrent, DebitMatches, Db, StepApplies
      <3>2. QED
        BY <2>2, <3>1, <1>1, <1>2, <1>3, <1>6
           DEF CallOK, GuardsHold, AfterDebit, DebitMatches, ClaimMatches, Db, money
    <2>3. CASE pc[c] = "credit"
      <3>1. CreditMatches(Db, m)
        BY <2>3, <1>1, <1>2, <1>6 DEF Claim, DebitSender, CreditReceiver, Writable,
           SnapshotCurrent, CreditMatches, Db, StepApplies
      <3>2. QED
        BY <2>3, <3>1, <1>1, <1>2, <1>3, <1>6
           DEF CallOK, GuardsHold, DebitMatches, ClaimMatches, CreditMatches, Db, money
    <2>4. QED
      BY <1>1, <2>1, <2>2, <2>3
  <1>12. CallOK(c)'
    BY <1>1, <1>2, <1>4, <1>7, <1>9, <1>11
       DEF CallOK, RequestSound, SnapshotCurrent, money, InSession, Pending
  <1>13. QED
    BY <1>2, <1>4, <1>5, <1>10, <1>12, LocalStep

(* No open session has written the document of a deactivated account.      *)
LEMMA DeactivateStep ==
  ASSUME IInv, NEW u \in Users, DeactivateAccount(u)
  PROVE  IInv'
  <1>1. /\ TypeOK /\ UNCHANGED <<balance, ledger, books, txns, pc, req, emitted, snap>>
        /\ active' = [active EXCEPT ![u] = FALSE] /\ stale' = Missed({u}, {})
        /\ \A s \in Calls : u \notin Written(s)
    BY DEF IInv, DeactivateAccount
  <1>2. \A s \in Calls : stale'[s] = IF pc[s] \in InSession THEN stale[s] \cup {u} ELSE stale[s]
    BY <1>1 DEF Missed
  <1>3. TypeOK'
    BY <1>1 DEF TypeOK, PostingsTypeOK, Missed, Docs
  <1>4. NoOverdraft' /\ Reconciled' /\ RefundsBounded'
    BY <1>1 DEF IInv, NoOverdraft, Reconciled, RefundsBounded
  <1>5. \A s \in Calls : Written(s)' = Written(s)
    BY <1>1 DEF Written
  <1>6. ASSUME NEW s \in Calls PROVE CallOK(s)'
    <2>1. CallOK(s)
      BY DEF IInv
    <2>2. pc'[s] \in Pending => RequestSound(req[s])'
      BY <1>1, <2>1 DEF CallOK, RequestSound
    <2>3. StepApplies(s)'
      BY <1>1, <2>1 DEF CallOK, StepApplies
    <2>4. pc'[s] \in InSession => SnapshotCurrent(s)'
      BY <1>1, <1>2, <2>1, ZenonT(40) DEF CallOK, SnapshotCurrent, TypeOK, PostingsTypeOK
    <2>5. Written(s)' \cap stale'[s] = {}
      BY <1>1, <1>2, <1>5, <2>1 DEF CallOK
    <2>6. GuardsHold(s)'
      <3>1. req[s].from # u \/ pc[s] \notin {"credit", "record"}
        BY <1>1 DEF Written, Docs
      <3>2. req[s].to # u \/ pc[s] # "record"
        BY <1>1 DEF Written, Docs
      <3>3. QED
        BY <1>1, <2>1, <3>1, <3>2
           DEF CallOK, GuardsHold, ClaimMatches, DebitMatches, CreditMatches, Db, TypeOK, PostingsTypeOK
    <2>7. QED
      BY <1>1, <2>1, <2>2, <2>3, <2>4, <2>5, <2>6 DEF CallOK
  <1>7. QED
    BY <1>3, <1>4, <1>5, <1>6 DEF IInv, WritesDisjoint

(* What a commit does to the documents, and what held of them just before. *)
LEMMA CommitFacts ==
  ASSUME IInv, NEW c \in Calls, Commit(c)
  PROVE  LET m == req[c] IN
    /\ RequestSound(m) /\ txns[c] = NoTxn /\ m.refundOf # c
    /\ m.from \in Users => active[m.from] /\ balance[m.from] >= m.amountPaise
    /\ m.to \in Users => active[m.to]
    /\ m.type = "REFUND" =>
         txns[m.refundOf].refundedPaise + m.amountPaise <= txns[m.refundOf].amountPaise
    /\ \A u \in Users :
         LET net == NetForAccount(BuildEntries(m), u) IN
         balance'[u] = balance[u] + net /\ ledger'[u] = ledger[u] + net
    /\ txns'[c] = TxnDoc(m)
    /\ \A t \in Calls \ {c, m.refundOf} : txns'[t] = txns[t]
    /\ m.type = "REFUND" =>
         txns'[m.refundOf] =
           [txns[m.refundOf] EXCEPT
              !.refundedPaise = @ + m.amountPaise,
              !.status = IF m.seen + m.amountPaise = txns[m.refundOf].amountPaise
                         THEN "REVERSED" ELSE "SUCCESS"]
    /\ \A s \in Calls : pc'[s] = IF s = c THEN "committed" ELSE pc[s]
  <1> DEFINE m == req[c]
  <1>1. /\ TypeOK /\ CallOK(c) /\ pc[c] = "record" /\ RequestSound(m) /\ GuardsHold(c)
    BY DEF IInv, CallOK, Commit, Pending, InSession
  <1>2. txns[c] = NoTxn /\ m.refundOf # c
    BY <1>1 DEF CallOK, RequestSound
  <1>3. /\ m.from \in Users => active[m.from] /\ balance[m.from] >= m.amountPaise
        /\ m.to \in Users => active[m.to]
        /\ m.type = "REFUND" =>
             txns[m.refundOf].refundedPaise + m.amountPaise <= txns[m.refundOf].amountPaise
    BY <1>1 DEF GuardsHold, ClaimMatches, DebitMatches, CreditMatches, Db
  <1>4. ASSUME NEW u \in Users
        PROVE  LET net == NetForAccount(BuildEntries(m), u) IN
               balance'[u] = balance[u] + net /\ ledger'[u] = ledger[u] + net
    <2>1. NetForAccount(BuildEntries(m), u) =
            IF u = m.from THEN -m.amountPaise ELSE IF u = m.to THEN m.amountPaise ELSE 0
      BY <1>1, EntriesMatchMovement DEF RequestSound
    <2>2. m.amountPaise \in Int /\ balance[u] \in Int
      BY <1>1 DEF RequestSound, Requests, TypeOK, PostingsTypeOK
    <2>3. /\ balance'[u] = IF u = m.from THEN balance[u] - m.amountPaise
                           ELSE IF u = m.to THEN balance[u] + m.amountPaise ELSE balance[u]
          /\ ledger'[u] = ledger[u] + NetForAccount(BuildEntries(m), u)
      BY DEF Commit
    <2>4. QED
      BY <2>1, <2>2, <2>3
  <1>5. txns' = [(IF m.type = "REFUND" THEN Claimed(m) ELSE txns) EXCEPT ![c] = TxnDoc(m)]
    BY DEF Commit
  <1>6. /\ txns'[c] = TxnDoc(m)
        /\ \A t \in Calls \ {c, m.refundOf} : txns'[t] = txns[t]
    BY <1>1, <1>5 DEF TypeOK, PostingsTypeOK, Claimed
  <1>7. m.type = "REFUND" =>
         txns'[m.refundOf] =
           [txns[m.refundOf] EXCEPT
              !.refundedPaise = @ + m.amountPaise,
              !.status = IF m.seen + m.amountPaise = txns[m.refundOf].amountPaise
                         THEN "REVERSED" ELSE "SUCCESS"]
    BY <1>1, <1>2, <1>5 DEF TypeOK, PostingsTypeOK, Claimed, RequestSound
  <1>8. \A s \in Calls : pc'[s] = IF s = c THEN "committed" ELSE pc[s]
    BY <1>1 DEF Commit, TypeOK
  <1>9. QED
    BY <1>1, <1>2, <1>3, <1>4, <1>6, <1>7, <1>8

(* The commit: what every session has seen, and not missed, stays as it    *)
(* is, and the wallets, the ledger and the refunded transfer move as one.  *)
LEMMA CommitStep ==
  ASSUME IInv, NEW c \in Calls, Commit(c)
  PROVE  IInv'
  <1> DEFINE m == req[c]
  <1>1. /\ TypeOK /\ CallOK(c) /\ WritesDisjoint /\ NoOverdraft /\ Reconciled /\ RefundsBounded
        /\ pc[c] = "record" /\ UNCHANGED <<active, req, emitted>>
        /\ snap' = [snap EXCEPT ![c] = NoSnap]
        /\ stale' = [Missed(Written(c), {c}) EXCEPT ![c] = {}]
    BY DEF IInv, Commit
  <1>2. RequestSound(m) /\ txns[c] = NoTxn /\ m.refundOf # c
    BY CommitFacts
  <1>3. /\ m.from \in Users => balance[m.from] >= m.amountPaise
        /\ m.type = "REFUND" =>
             txns[m.refundOf].refundedPaise + m.amountPaise <= txns[m.refundOf].amountPaise
    BY CommitFacts
  <1>4. \A u \in Users : LET net == NetForAccount(BuildEntries(m), u) IN
          balance'[u] = balance[u] + net /\ ledger'[u] = ledger[u] + net
    BY CommitFacts
  <1>5. txns'[c] = TxnDoc(m) /\ \A t \in Calls \ {c, m.refundOf} : txns'[t] = txns[t]
    BY CommitFacts
  <1>6. m.type = "REFUND" =>
         txns'[m.refundOf] =
           [txns[m.refundOf] EXCEPT
              !.refundedPaise = @ + m.amountPaise,
              !.status = IF m.seen + m.amountPaise = txns[m.refundOf].amountPaise
                         THEN "REVERSED" ELSE "SUCCESS"]
    BY CommitFacts
  <1>7. \A s \in Calls : pc'[s] = IF s = c THEN "committed" ELSE pc[s]
    BY CommitFacts
  <1>8. /\ m \in Requests /\ m.amountPaise \in Nat \ {0} /\ m.seen \in Nat
        /\ m.type = "REFUND" =>
             /\ m.refundOf \in Calls /\ txns[m.refundOf] \in Transactions
             /\ txns[m.refundOf] # NoTxn
             /\ m.seen <= txns[m.refundOf].refundedPaise
             /\ m.seen + m.amountPaise <= txns[m.refundOf].amountPaise
        /\ m.type # "REFUND" => m.refundOf = NoTxn
    BY <1>1, <1>2 DEF RequestSound, Requests, TypeOK, PostingsTypeOK
  <1> DEFINE mark == IF m.seen + m.amountPaise = txns[m.refundOf].amountPaise
                     THEN "REVERSED" ELSE "SUCCESS"
             old == txns[m.refundOf]
             new == txns'[m.refundOf]
  <1>9. m.type = "REFUND" =>
           /\ new \in Transactions
           /\ new.type = old.type /\ new.amountPaise = old.amountPaise
           /\ new.sender = old.sender /\ new.receiver = old.receiver
           /\ new.refundedPaise = old.refundedPaise + m.amountPaise
           /\ new.status = mark
    <2>1. mark \in {"SUCCESS", "REVERSED"} /\ m.amountPaise \in Nat
      BY <1>8
    <2>2. ASSUME m.type = "REFUND"
          PROVE  new = [old EXCEPT !.refundedPaise = @ + m.amountPaise, !.status = mark]
      BY <1>6, <2>2
    <2>3. m.type = "REFUND" => old \in Transactions
      BY <1>8
    <2>4. ASSUME m.type = "REFUND"
          PROVE  /\ new \in Transactions
                 /\ new.type = old.type /\ new.amountPaise = old.amountPaise
                 /\ new.sender = old.sender /\ new.receiver = old.receiver
                 /\ new.refundedPaise = old.refundedPaise + m.amountPaise
                 /\ new.status = mark
      <3> HIDE DEF mark, new, old
      <3>1. old \in Transactions /\ old.refundedPaise + m.amountPaise \in Nat
        BY <2>1, <2>3, <2>4 DEF Transactions
      <3>2. new = [old EXCEPT !.refundedPaise = old.refundedPaise + m.amountPaise, !.status = mark]
        BY <2>2, <2>4
      <3>3. new = [type |-> old.type, amountPaise |-> old.amountPaise, sender |-> old.sender,
                   receiver |-> old.receiver, refundOf |-> old.refundOf,
                   refundedPaise |-> old.refundedPaise + m.amountPaise, status |-> mark]
        BY <3>1, <3>2 DEF Transactions
      <3>4. QED
        BY <3>1, <3>3, <2>1 DEF Transactions
    <2>5. QED
      BY <2>4
  <1>10. \A u \in Users : NetForAccount(BuildEntries(m), u) =
          IF u = m.from THEN -m.amountPaise ELSE IF u = m.to THEN m.amountPaise ELSE 0
    BY <1>2, EntriesMatchMovement DEF RequestSound
  <1>11. TypeOK'
    <2>1. balance' \in [Users -> Int] /\ ledger' \in [Users -> Int]
      <3>1. \A u \in Users : NetForAccount(BuildEntries(m), u) \in Int
        <4>1. m.amountPaise \in Int /\ -m.amountPaise \in Int /\ 0 \in Int
          BY <1>8
        <4>2. QED
          BY <4>1, <1>10
      <3>2. /\ balance' = [u \in Users |-> balance'[u]] /\ ledger' = [u \in Users |-> ledger'[u]]
        BY DEF Commit
      <3>3. \A u \in Users : balance'[u] \in Int /\ ledger'[u] \in Int
        BY <3>1, <1>1, <1>4 DEF TypeOK, PostingsTypeOK
      <3>4. QED
        BY <3>2, <3>3
    <2>2. books' \in [{"DEBIT", "CREDIT"} -> Nat]
      <3>1. \A side \in {"DEBIT", "CREDIT"} : SideTotal(BuildEntries(m), side) = m.amountPaise
        BY <1>2, EntriesBalance DEF RequestSound, WellFormed
      <3>2. books' = [d \in {"DEBIT", "CREDIT"} |-> books[d] + SideTotal(BuildEntries(m), d)]
        BY DEF Commit
      <3>3. QED
        BY <3>1, <3>2, <1>1, <1>8 DEF TypeOK, PostingsTypeOK
    <2>3. txns' \in [Calls -> Transactions \cup {NoTxn}]
      <3>1. TxnDoc(m) \in Transactions
        BY <1>8 DEF TxnDoc, Transactions, Requests
      <3>2. txns' = [(IF m.type = "REFUND" THEN Claimed(m) ELSE txns) EXCEPT ![c] = TxnDoc(m)]
        BY DEF Commit
      <3>3. txns' = [t \in Calls |-> txns'[t]]
        BY <3>2, <1>1, ZenonT(40) DEF Claimed, TypeOK, PostingsTypeOK
      <3>4. \A t \in Calls : txns'[t] \in Transactions \cup {NoTxn}
        BY <3>1, <1>1, <1>5, <1>8, <1>9 DEF TypeOK, PostingsTypeOK
      <3>5. QED
        BY <3>3, <3>4
    <2>4. snap' \in [Calls -> Snapshots]
      BY <1>1 DEF TypeOK, NoSnap, Snapshots
    <2>5. stale' \in [Calls -> SUBSET Docs]
      BY <1>1 DEF TypeOK, Missed, Written
    <2>6. pc' \in [Calls -> InSession \cup Terminal \cup {"idle", "posting", "aborted", "committed"}]
      BY <1>1 DEF Commit, TypeOK
    <2>7. QED
      BY <2>1, <2>2, <2>3, <2>4, <2>5, <2>6, <1>1 DEF TypeOK, PostingsTypeOK
  <1>12. NoOverdraft'
    BY <1>1, <1>3, <1>4, <1>8, <1>10 DEF NoOverdraft, TypeOK, PostingsTypeOK
  <1>13. Reconciled'
    BY <1>1, <1>4 DEF Reconciled
  <1>14. RefundsBounded'
    <2>1. ASSUME NEW t \in Calls, txns'[t] # NoTxn
          PROVE  /\ txns'[t].refundedPaise <= txns'[t].amountPaise
                 /\ txns'[t].status = "REVERSED" => txns'[t].refundedPaise = txns'[t].amountPaise
      <3>1. CASE t = c
        BY <3>1, <1>5, <1>8 DEF TxnDoc
      <3>2. CASE t = m.refundOf /\ m.type = "REFUND"
        BY <3>2, <1>3, <1>8, <1>9 DEF Transactions
      <3>3. CASE t # c /\ t # m.refundOf
        BY <2>1, <3>3, <1>1, <1>5 DEF RefundsBounded
      <3>4. QED
        BY <3>1, <3>2, <3>3, <1>8
    <2>2. QED
      BY <2>1 DEF RefundsBounded
  <1>15. Written(c)' = {} /\ \A s \in Calls \ {c} : Written(s)' = Written(s)
    BY <1>1, <1>7 DEF Written
  <1>16. \A d \in Docs : d = m.from \/ d = m.to \/ d = m.refundOf => d \in Written(c)
    BY <1>1 DEF Written
  <1>17. ASSUME NEW t \in Calls, txns[t] # NoTxn
         PROVE  /\ txns'[t] # NoTxn
                /\ txns'[t].type = txns[t].type /\ txns'[t].amountPaise = txns[t].amountPaise
                /\ txns'[t].sender = txns[t].sender /\ txns'[t].receiver = txns[t].receiver
                /\ txns'[t].refundedPaise >= txns[t].refundedPaise
                /\ t \notin Written(c) => txns'[t] = txns[t]
    <2>1. txns[t] \in Transactions /\ t # c
      BY <1>1, <1>2, <1>17 DEF TypeOK, PostingsTypeOK
    <2>2. CASE t = m.refundOf /\ m.type = "REFUND"
      <3>1. t \in Written(c)
        BY <2>2, <1>16 DEF Docs
      <3>2. QED
        BY <2>2, <3>1, <1>8, <1>9 DEF Transactions
    <2>3. CASE t # m.refundOf
      BY <2>1, <2>3, <1>5, <1>17 DEF Transactions
    <2>4. QED
      BY <2>2, <2>3, <1>8
  <1>18. ASSUME NEW r, RequestSound(r) PROVE RequestSound(r)'
    <2>1. r.type = "REFUND" =>
            /\ txns'[r.refundOf] # NoTxn
            /\ txns'[r.refundOf].type = "TRANSFER"
            /\ r.from = txns'[r.refundOf].receiver /\ r.to = txns'[r.refundOf].sender
            /\ r.seen <= txns'[r.refundOf].refundedPaise
            /\ r.seen + r.amountPaise <= txns'[r.refundOf].amountPaise
      <3>1. SUFFICES ASSUME r.type = "REFUND"
                     PROVE  /\ txns'[r.refundOf] # NoTxn
                            /\ txns'[r.refundOf].type = "TRANSFER"
                            /\ r.from = txns'[r.refundOf].receiver /\ r.to = txns'[r.refundOf].sender
                            /\ r.seen <= txns'[r.refundOf].refundedPaise
                            /\ r.seen + r.amountPaise <= txns'[r.refundOf].amountPaise
        OBVIOUS
      <3>2. /\ r.refundOf \in Calls /\ txns[r.refundOf] # NoTxn
            /\ txns[r.refundOf].type = "TRANSFER"
            /\ r.from = txns[r.refundOf].receiver /\ r.to = txns[r.refundOf].sender
            /\ r.seen <= txns[r.refundOf].refundedPaise
            /\ r.seen + r.amountPaise <= txns[r.refundOf].amountPaise
            /\ r.seen \in Nat
        BY <1>18, <3>1 DEF RequestSound, Requests
      <3>3. txns[r.refundOf].refundedPaise \in Nat /\ txns'[r.refundOf].refundedPaise \in Nat
        BY <3>2, <1>1, <1>11, <1>17 DEF TypeOK, PostingsTypeOK, Transactions
      <3>4. QED
        BY <3>2, <3>3, <1>17
    <2>2. QED
      BY <2>1, <1>18 DEF RequestSound
  <1>19. CallOK(c)'
    <2>1. /\ pc'[c] = "committed" /\ txns'[c] # NoTxn
          /\ txns'[c].type = m.type /\ txns'[c].receiver = m.to
      <3>1. TxnDoc(m) \in Transactions
        BY <1>8 DEF TxnDoc, Transactions, Requests
      <3>2. QED
        BY <3>1, <1>5, <1>7, NoTxnAssumption DEF TxnDoc
    <2>2. stale'[c] = {} /\ req'[c] = m /\ emitted'[c] = 0
      BY <1>1 DEF TypeOK, CallOK, Missed
    <2>3. QED
      BY <2>1, <2>2, <1>2, <1>15, <1>18 DEF CallOK, StepApplies, GuardsHold, InSession
  <1>20. ASSUME NEW s \in Calls \ {c} PROVE CallOK(s)'
    <2>1. /\ CallOK(s) /\ pc'[s] = pc[s] /\ req'[s] = req[s] /\ snap'[s] = snap[s]
          /\ emitted'[s] = emitted[s]
          /\ stale'[s] = IF pc[s] \in InSession THEN stale[s] \cup Written(c) ELSE stale[s]
      BY <1>1, <1>7 DEF IInv, TypeOK, Missed
    <2>2. pc'[s] \in Pending => RequestSound(req[s])'
      <3>1. pc[s] \in Pending => RequestSound(req[s])
        BY <2>1 DEF CallOK
      <3>2. QED
        BY <2>1, <3>1, <1>1, <1>18
    <2>3. StepApplies(s)'
      BY <2>1 DEF CallOK, StepApplies
    <2>4. pc'[s] \in InSession => SnapshotCurrent(s)'
      <3>1. SUFFICES ASSUME pc[s] \in InSession PROVE SnapshotCurrent(s)'
        BY <2>1
      <3>2. SnapshotCurrent(s) /\ stale'[s] = stale[s] \cup Written(c)
        BY <2>1, <3>1 DEF CallOK
      <3>3. ASSUME NEW u \in Users \ stale'[s]
            PROVE  snap'[s].balance[u] = balance'[u] /\ snap'[s].active[u] = active'[u]
        <4>1. u # m.from /\ u # m.to /\ balance[u] \in Int
          BY <3>2, <1>1, <1>16 DEF Docs, TypeOK, PostingsTypeOK
        <4>2. QED
          BY <4>1, <3>2, <2>1, <1>1, <1>4, <1>10 DEF SnapshotCurrent
      <3>4. ASSUME NEW t \in Calls \ stale'[s], snap'[s].txns[t] # NoTxn
            PROVE  snap'[s].txns[t] = txns'[t]
        BY <3>2, <3>4, <2>1, <1>17 DEF SnapshotCurrent
      <3>5. QED
        BY <3>3, <3>4 DEF SnapshotCurrent
    <2>5. Written(s)' \cap stale'[s] = {}
      BY <2>1, <1>1, <1>15 DEF CallOK, WritesDisjoint
    <2>6. GuardsHold(s)'
      <3> DEFINE w == req[s]
      <3>1. pc[s] \in {"debit", "credit", "record"} /\ w.type = "REFUND" => ClaimMatches(Db, w)'
        <4>1. SUFFICES ASSUME pc[s] \in {"debit", "credit", "record"}, w.type = "REFUND"
                       PROVE  ClaimMatches(Db, w)'
          OBVIOUS
        <4>2. RequestSound(w) /\ ClaimMatches(Db, w)
          BY <2>1, <4>1 DEF CallOK, GuardsHold, Pending, InSession
        <4>3. w.refundOf \in Written(s) /\ w.refundOf \in Calls
          BY <4>1, <4>2 DEF Written, Docs, RequestSound
        <4>4. w.refundOf \notin Written(c) /\ txns[w.refundOf] # NoTxn
          BY <4>2, <4>3, <1>1 DEF WritesDisjoint, ClaimMatches, Db
        <4>5. txns'[w.refundOf] = txns[w.refundOf] /\ req'[s] = req[s]
          BY <4>3, <4>4, <2>1, <1>17
        <4>6. QED
          BY <4>2, <4>5 DEF ClaimMatches, Db
      <3>2. pc[s] \in {"credit", "record"} /\ w.from \in Users => DebitMatches(Db, w)'
        <4>1. SUFFICES ASSUME pc[s] \in {"credit", "record"}, w.from \in Users
                       PROVE  DebitMatches(Db, w)'
          OBVIOUS
        <4>2. DebitMatches(Db, w)
          BY <2>1, <4>1 DEF CallOK, GuardsHold
        <4>3. w.from \in Written(s)
          BY <4>1 DEF Written, Docs
        <4>4. w.from # m.from /\ w.from # m.to
          BY <4>1, <4>3, <1>1, <1>16 DEF WritesDisjoint, Docs
        <4>5. balance'[w.from] = balance[w.from] /\ req'[s] = req[s] /\ active' = active
          BY <4>1, <4>4, <2>1, <1>1, <1>4, <1>10 DEF TypeOK, PostingsTypeOK
        <4>6. QED
          BY <4>2, <4>5 DEF DebitMatches, Db
      <3>3. pc[s] = "record" /\ w.to \in Users => CreditMatches(Db, w)'
        BY <2>1, <1>1 DEF CallOK, GuardsHold, CreditMatches, Db
      <3>4. QED
        BY <2>1, <3>1, <3>2, <3>3 DEF GuardsHold
    <2>7. /\ pc'[s] \in {"committed", "done"} => txns'[s] # NoTxn
          /\ txns'[s] # NoTxn => pc'[s] \in {"committed", "done", "failed"}
          /\ pc'[s] = "committed" =>
               txns'[s].type = req'[s].type /\ txns'[s].receiver = req'[s].to
          /\ emitted'[s] = IF pc'[s] = "done" /\ NotifiesOf(txns'[s]) THEN 1 ELSE 0
      <3>1. /\ pc[s] \in {"committed", "done"} => txns[s] # NoTxn
            /\ txns[s] # NoTxn => pc[s] \in {"committed", "done", "failed"}
            /\ pc[s] = "committed" => txns[s].type = req[s].type /\ txns[s].receiver = req[s].to
            /\ emitted[s] = IF pc[s] = "done" /\ NotifiesOf(txns[s]) THEN 1 ELSE 0
        BY <2>1 DEF CallOK
      <3>2. txns[s] # NoTxn =>
              /\ txns'[s] # NoTxn
              /\ txns'[s].type = txns[s].type /\ txns'[s].receiver = txns[s].receiver
        BY <1>17
      <3>3. txns[s] = NoTxn => txns'[s] = NoTxn
        BY <1>5, <1>8
      <3>4. pc'[s] = "done" => NotifiesOf(txns'[s]) = NotifiesOf(txns[s])
        BY <2>1, <3>1, <3>2 DEF NotifiesOf
      <3>5. emitted'[s] = emitted[s]
        BY DEF Commit
      <3>6. QED
        BY <2>1, <3>1, <3>2, <3>3, <3>4, <3>5
    <2>8. QED
      BY <2>1, <2>2, <2>3, <2>4, <2>5, <2>6, <2>7 DEF CallOK
  <1>21. QED
    BY <1>11, <1>12, <1>13, <1>14, <1>15, <1>1, <1>19, <1>20 DEF IInv, WritesDisjoint

(* Every step keeps the invariant.                                         *)
LEMMA NextIInv == IInv /\ [Next]_vars => IInv'
  <1> SUFFICES ASSUME IInv, [Next]_vars PROVE IInv'
    OBVIOUS
  <1>1. CASE UNCHANGED vars
    BY <1>1 DEF vars, money, IInv, TypeOK, PostingsTypeOK, NoOverdraft, Reconciled, RefundsBounded,
       CallOK, RequestSound, StepApplies, SnapshotCurrent, GuardsHold, Db, Written, WritesDisjoint
  <1>2. ASSUME NEW c \in Calls, Handle(c), UNCHANGED <<snap, stale>> PROVE IInv'
    BY <1>2, HandleStep
  <1>3. ASSUME NEW c \in Calls, Begin(c) PROVE IInv'
    BY <1>3, BeginStep
  <1>4. ASSUME NEW c \in Calls, Claim(c) \/ DebitSender(c) \/ CreditReceiver(c) PROVE IInv'
    BY <1>4, WriteStep
  <1>5. ASSUME NEW c \in Calls, Commit(c) PROVE IInv'
    BY <1>5, CommitStep
  <1>6. ASSUME NEW c \in Calls,
               \/ (Finish(c) \/ FailCommitted(c)) /\ UNCHANGED <<snap, stale>>
               \/ Refuse(c) \/ Conflict(c) \/ Retry(c) \/ TimeUp(c) \/ Fault(c) \/ Crash(c)
        PROVE  IInv'
    BY <1>6, EndStep
  <1>7. ASSUME NEW u \in Users, DeactivateAccount(u) PROVE IInv'
    BY <1>7, DeactivateStep
  <1>8. QED
    BY <1>1, <1>2, <1>3, <1>4, <1>5, <1>6, <1>7 DEF Next, Post, Answered

(* The inductive invariant holds throughout.                               *)
THEOREM InductiveInvariant == Spec => []IInv
  BY InitIInv, NextIInv, PTL DEF Spec

(* Every variable keeps its type.                                          *)
THEOREM TypeCorrect == Spec => []TypeOK
  <1>1. IInv => TypeOK
    BY DEF IInv
  <1>2. QED
    BY <1>1, InductiveInvariant, PTL

(* In sessions, no wallet is ever overdrawn, whatever runs at once.        *)
THEOREM NeverOverdrawn == Spec => []NoOverdraft
  <1>1. IInv => NoOverdraft
    BY DEF IInv
  <1>2. QED
    BY <1>1, InductiveInvariant, PTL

(* In sessions, reconciliation never finds a drift.                        *)
THEOREM AlwaysReconciled == Spec => []Reconciled
  <1>1. IInv => Reconciled
    BY DEF IInv
  <1>2. QED
    BY <1>1, InductiveInvariant, PTL

(* Racing refunds never exceed the transfer, and REVERSED, although it is  *)
(* computed from a stale copy, is only ever written by the refund that     *)
(* closes it.                                                              *)
THEOREM RefundsStayBounded == Spec => []RefundsBounded
  <1>1. IInv => RefundsBounded
    BY DEF IInv
  <1>2. QED
    BY <1>1, InductiveInvariant, PTL

(* A caller told of success has its Transaction, whose receiver has been   *)
(* notified exactly once, and nobody is notified of money that has not     *)
(* moved, however often sessions are aborted and callbacks rerun.          *)
THEOREM ReceiversNotifiedOnce == Spec => []NotifiedOnce
  <1>1. IInv => NotifiedOnce
    BY DEF IInv, CallOK, NotifiedOnce
  <1>2. QED
    BY <1>1, InductiveInvariant, PTL

-------------------------------------------------------------------------------
(* The refinement: a commit is the instant at which the posting happens.   *)

(* A commit is a posting of the abstract ledger, on the documents as they  *)
(* are at that instant.                                                    *)
LEMMA CommitIsPost ==
  ASSUME IInv, NEW c \in Calls, Commit(c)
  PROVE  Atomic!Next
  <1> DEFINE m == req[c]
             a == [type |-> m.type, amountPaise |-> m.amountPaise, from |-> m.from, to |-> m.to,
                   refundOf |-> m.refundOf]
  <1>1. /\ RequestSound(m) /\ m \in Requests /\ m.amountPaise \in 1..MaxPaise /\ txns[c] = NoTxn
        /\ m.refundOf # c /\ WellFormed(m) /\ Postable(m)
        /\ m.type \in Types /\ m.from \in Users \cup {NoUser} /\ m.to \in Users \cup {NoUser}
    BY CommitFacts DEF RequestSound, Requests
  <1>2. Atomic!WellFormed(a)
    BY <1>1 DEF WellFormed, Buildable, Atomic!WellFormed, Atomic!Buildable, Types, Atomic!Types
  <1>3. Atomic!BuildEntries(a) = BuildEntries(m)
    BY DEF BuildEntries, DebitedAccount, CreditedAccount, Debit, Credit, Atomic!BuildEntries,
       Atomic!DebitedAccount, Atomic!CreditedAccount, Atomic!Debit, Atomic!Credit
  <1>4. \A entries, side : Atomic!SideTotal(entries, side) = SideTotal(entries, side)
    BY DEF SideTotal, OnSide, Atomic!SideTotal, Atomic!OnSide
  <1>5. \A entries, u : Atomic!NetForAccount(entries, u) = NetForAccount(entries, u)
    BY DEF NetForAccount, Signed, OnSide, Atomic!NetForAccount, Atomic!Signed, Atomic!OnSide
  <1>6. Atomic!Postable(a)
    BY <1>1, <1>2, <1>3, <1>4
       DEF Postable, Atomic!Postable, Atomic!WellFormed, AssertBalanced, Atomic!AssertBalanced
  <1>7. Atomic!Paid(a) /\ Atomic!Received(a)
    BY CommitFacts DEF Atomic!Paid, Atomic!Received
  <1>8. Atomic!Refundable(a)
    BY <1>1, CommitFacts DEF Atomic!Refundable, RequestSound
  <1>9. Atomic!Records(c, a)
    <2> DEFINE mark == IF m.type = "REFUND" /\ m.seen + m.amountPaise = txns[m.refundOf].amountPaise
                       THEN "REVERSED" ELSE "SUCCESS"
               recorded == [t \in Calls |->
                              IF t = c THEN Atomic!TxnDoc(a)
                              ELSE IF t = a.refundOf
                              THEN [txns[t] EXCEPT !.refundedPaise = @ + a.amountPaise, !.status = mark]
                              ELSE txns[t]]
    <2>1. mark \in {"SUCCESS", "REVERSED"}
      OBVIOUS
    <2>2. mark = "REVERSED" =>
            /\ m.type = "REFUND"
            /\ txns[m.refundOf].refundedPaise + m.amountPaise = txns[m.refundOf].amountPaise
      <3>1. SUFFICES ASSUME m.type = "REFUND", m.seen + m.amountPaise = txns[m.refundOf].amountPaise
                     PROVE  txns[m.refundOf].refundedPaise + m.amountPaise = txns[m.refundOf].amountPaise
        OBVIOUS
      <3>2. /\ txns[m.refundOf].refundedPaise + m.amountPaise <= txns[m.refundOf].amountPaise
            /\ m.seen <= txns[m.refundOf].refundedPaise /\ m.seen \in Nat /\ m.amountPaise \in Nat
            /\ txns[m.refundOf] \in Transactions
        <4>1. txns[m.refundOf].refundedPaise + m.amountPaise <= txns[m.refundOf].amountPaise
          BY <3>1, CommitFacts
        <4>2. m.refundOf \in Calls /\ txns[m.refundOf] # NoTxn /\ m.seen <= txns[m.refundOf].refundedPaise
          BY <3>1, <1>1 DEF RequestSound
        <4>3. txns[m.refundOf] \in Transactions
          BY <4>2 DEF IInv, TypeOK, PostingsTypeOK
        <4>4. m.seen \in Nat /\ m.amountPaise \in Nat
          BY <1>1 DEF Requests
        <4>5. QED
          BY <4>1, <4>2, <4>3, <4>4
      <3>3. QED
        BY <3>1, <3>2 DEF Transactions
    <2>3. txns' = recorded
      <3>1. txns \in [Calls -> Transactions \cup {NoTxn}]
        BY DEF IInv, TypeOK, PostingsTypeOK
      <3>2. txns' = [(IF m.type = "REFUND" THEN Claimed(m) ELSE txns) EXCEPT ![c] = TxnDoc(m)]
        BY DEF Commit
      <3>3. txns' = [t \in Calls |-> txns'[t]]
        BY <3>1, <3>2 DEF Claimed
      <3>4. Atomic!TxnDoc(a) = TxnDoc(m)
        BY DEF TxnDoc, Atomic!TxnDoc
      <3>5. ASSUME NEW t \in Calls PROVE txns'[t] = recorded[t]
        <4>1. CASE t = c
          BY <4>1, <3>4, CommitFacts
        <4>2. CASE t # c /\ t = m.refundOf
          BY <4>2, <1>1, CommitFacts DEF RequestSound
        <4>3. CASE t # c /\ t # m.refundOf
          <5>1. \A s \in Calls \ {c, m.refundOf} : txns'[s] = txns[s]
            BY CommitFacts
          <5>2. QED
            BY <4>3, <5>1
        <4>4. QED
          BY <4>1, <4>2, <4>3
      <3>6. QED
        BY <3>3, <3>5
    <2>4. QED
      BY <2>1, <2>2, <2>3 DEF Atomic!Records
  <1>10. /\ balance' = [u \in Users |-> balance[u] + NetForAccount(BuildEntries(m), u)]
         /\ ledger' = [u \in Users |-> ledger[u] + NetForAccount(BuildEntries(m), u)]
         /\ books' = [d \in {"DEBIT", "CREDIT"} |-> books[d] + SideTotal(BuildEntries(m), d)]
         /\ UNCHANGED active
    <2>1. balance' = [u \in Users |-> balance'[u]]
      BY DEF Commit
    <2>2. \A u \in Users : LET net == NetForAccount(BuildEntries(m), u) IN
            balance'[u] = balance[u] + net /\ ledger'[u] = ledger[u] + net
      BY CommitFacts
    <2>3. QED
      BY <2>1, <2>2 DEF Commit
  <1>11. Atomic!Post(c, a)
    BY <1>1, <1>2, <1>3, <1>4, <1>5, <1>6, <1>7, <1>8, <1>9, <1>10 DEF Atomic!Post
  <1>12. Atomic!Move(c, m.amountPaise)
    <2>1. a = Atomic!Movement(m.type, m.amountPaise, m.from, m.to, m.refundOf)
      BY DEF Atomic!Movement
    <2>2. CASE m.type = "TRANSFER"
      BY <2>1, <2>2, <1>1, <1>11 DEF Atomic!Move, RequestSound, WellFormed, Buildable
    <2>3. CASE m.type \in {"WITHDRAW", "BILL_PAY"}
      BY <2>1, <2>3, <1>1, <1>11 DEF Atomic!Move, RequestSound, WellFormed, Buildable
    <2>4. CASE m.type = "ADD_MONEY"
      BY <2>1, <2>4, <1>1, <1>11 DEF Atomic!Move, RequestSound, WellFormed, Buildable
    <2>5. CASE m.type = "REFUND"
      BY <2>1, <2>5, <1>1, <1>11 DEF Atomic!Move, RequestSound
    <2>6. QED
      BY <1>1, <2>2, <2>3, <2>4, <2>5 DEF Types
  <1>13. Atomic!Creates(c)
    <2>1. txns'[c] = Atomic!TxnDoc(a)
      BY <1>1, <1>9 DEF Atomic!Records
    <2>2. TxnDoc(m) \in Transactions
      BY <1>1 DEF TxnDoc, Transactions, Requests
    <2>3. QED
      BY <1>1, <2>1, <2>2, NoTxnAssumption DEF Atomic!Creates, Atomic!TxnDoc, TxnDoc
  <1>14. QED
    BY <1>1, <1>12, <1>13 DEF Atomic!Next

(* The opening documents are those of the abstract ledger.                 *)
LEMMA InitAtomic == Init => Atomic!Init
  BY DEF Init, PostingsInit, Atomic!Init

(* Every other step is a deactivation, or changes no document.             *)
LEMMA NextAtomic == IInv /\ [Next]_vars => [Atomic!Next]_(Atomic!vars)
  <1> SUFFICES ASSUME IInv, [Next]_vars PROVE [Atomic!Next]_(Atomic!vars)
    OBVIOUS
  <1>1. ASSUME NEW c \in Calls, Commit(c) PROVE Atomic!Next
    BY <1>1, CommitIsPost
  <1>2. ASSUME NEW u \in Users, DeactivateAccount(u) PROVE Atomic!Next
    BY <1>2 DEF DeactivateAccount, Atomic!Next, Atomic!Deactivate
  <1>3. CASE UNCHANGED money
    BY <1>3 DEF money, Atomic!vars
  <1>4. ASSUME NEW c \in Calls, Handle(c) \/ Finish(c) \/ FailCommitted(c) PROVE UNCHANGED money
    BY <1>4 DEF Handle, SendMoney, AddMoney, PayBill, Withdraw, RefundTransaction, Accept,
       Finish, FailCommitted
  <1>5. ASSUME NEW c \in Calls,
               Begin(c) \/ Claim(c) \/ DebitSender(c) \/ CreditReceiver(c) \/ Refuse(c)
                 \/ Conflict(c) \/ Retry(c) \/ TimeUp(c) \/ Fault(c) \/ Crash(c)
        PROVE  UNCHANGED money
    BY <1>5 DEF Begin, Claim, DebitSender, CreditReceiver, Refuse, Conflict, Retry, TimeUp, Fault,
       Crash, GoTo, Fail, Abort, EndSession
  <1>6. QED
    BY <1>1, <1>2, <1>3, <1>4, <1>5 DEF Next, Post, Answered, vars

(* A posting in a session happens at one instant or not at all: MongoLedger *)
(* implements AtomicLedger.                                                *)
THEOREM MongoImplementsAtomic == Spec => ImplementsAtomicLedger
  BY InitAtomic, NextAtomic, InductiveInvariant, PTL DEF Spec, ImplementsAtomicLedger, Atomic!Spec

-------------------------------------------------------------------------------
(* What the documents add up to.                                           *)

Posted == {t \in Calls : txns[t] # NoTxn}
Amounts == [t \in Calls |-> txns[t].amountPaise]

(* What a statement counts as received, or as paid.                        *)
Toward(u, direction) == {t \in History(u) : DirectionFor(txns[t], u) = direction}

(* A document names the wallets that its movement had; only a transfer is  *)
(* ever REVERSED; and a refund is of a transfer that is there.             *)
TxnSound(t) ==
  LET doc == txns[t] IN
  /\ doc.type \in {"TRANSFER", "REFUND"} => doc.sender \in Users /\ doc.receiver \in Users \ {doc.sender}
  /\ doc.type = "ADD_MONEY" => doc.sender = NoUser /\ doc.receiver \in Users
  /\ doc.type \in {"WITHDRAW", "BILL_PAY"} => doc.sender \in Users /\ doc.receiver = NoUser
  /\ doc.status = "REVERSED" => doc.type = "TRANSFER"
  /\ doc.refundOf # NoTxn => doc.refundOf \in Posted

(* There are finitely many documents, and their sums are what they should  *)
(* be.                                                                     *)
SumsOK ==
  /\ IsFiniteSet(Posted)
  /\ \A t \in Posted : TxnSound(t)
  /\ \A t \in Posted : txns[t].refundedPaise = SumFunctionOnSet(Amounts, RefundsOf(t))
  /\ \A u \in Users : balance[u] - Opening[u] = SumFunctionOnSet(Amounts, Toward(u, "CREDIT"))
                                                  - SumFunctionOnSet(Amounts, Toward(u, "DEBIT"))

(* Paise is a sum over Amounts.                                            *)
LEMMA PaiseIsSum == \A T \in SUBSET Calls : Paise(T) = SumFunctionOnSet(Amounts, T)
<1> TAKE T \in SUBSET Calls
<1> DEFINE added(t) == txns[t].amountPaise
           iter == CHOOSE g : g = [s \in SUBSET T |-> IF s = {} THEN 0
                                                      ELSE added(Pick(s)) + g[s \ {Pick(s)}]]
<1>1. Paise(T) = iter[T]
  BY DEF Paise, MapThenSumSet, MapThenFoldSet, Pick
<1>2. \A s \in SUBSET T : s # {} => Amounts[Pick(s)] = added(Pick(s))
  BY PickIn DEF Amounts
<1>3. \A g : [s \in SUBSET T |-> IF s = {} THEN 0 ELSE added(Pick(s)) + g[s \ {Pick(s)}]]
           = [s \in SUBSET T |-> IF s = {} THEN 0 ELSE Amounts[Pick(s)] + g[s \ {Pick(s)}]]
  BY <1>2
<1>4. iter = Iter(Amounts, T)
  BY <1>3 DEF Iter, Adds
<1> QED BY <1>1, <1>4, SumIsIter

(* Every document that is there has an amount.                             *)
LEMMA AmountsAre ==
  ASSUME TypeOK
  PROVE  \A t \in Posted : txns[t] \in Transactions /\ Amounts[t] = txns[t].amountPaise /\ Amounts[t] \in Nat
BY DEF TypeOK, PostingsTypeOK, Posted, Amounts, Transactions

LEMMA InitSums == Init => SumsOK
<1> SUFFICES ASSUME Init PROVE SumsOK
  OBVIOUS
<1>1. Posted = {} /\ \A u \in Users : balance[u] - Opening[u] = 0
  BY DEF Init, PostingsInit, Posted
<1>2. \A u, d : Toward(u, d) = {}
  BY <1>1 DEF Toward, History, Posted
<1>3. IsFiniteSet({})
  BY FS_EmptySet
<1> QED BY <1>1, <1>2, <1>3, SumEmpty DEF SumsOK

(* No other document, no other balance: no other sum.                      *)
LEMMA SameSums ==
  ASSUME SumsOK, UNCHANGED <<balance, txns>>
  PROVE  SumsOK'
BY DEF SumsOK, Posted, Amounts, TxnSound, RefundsOf, Toward, History, DirectionFor

(* What a commit makes of the documents: one more, and what a refund takes *)
(* from the transfer it is of.                                             *)
LEMMA CommitDocs ==
  ASSUME IInv, IInv', SumsOK, NEW c \in Calls, Commit(c)
  PROVE  LET m == req[c] IN
    /\ c \notin Posted /\ Posted' = Posted \cup {c} /\ IsFiniteSet(Posted)
    /\ txns'[c] = TxnDoc(m) /\ m.refundOf # c
    /\ \A t \in Posted :
         LET old == txns[t]
             new == txns'[t] IN
         /\ new.type = old.type /\ new.amountPaise = old.amountPaise /\ new.sender = old.sender
         /\ new.receiver = old.receiver /\ new.refundOf = old.refundOf
         /\ new.status = "REVERSED" => old.type = "TRANSFER"
         /\ new.refundedPaise = old.refundedPaise + IF t = m.refundOf THEN m.amountPaise ELSE 0
<1> DEFINE m == req[c]
<1>1. /\ RequestSound(m) /\ txns[c] = NoTxn /\ m.refundOf # c /\ txns'[c] = TxnDoc(m)
      /\ \A t \in Calls \ {c, m.refundOf} : txns'[t] = txns[t]
  BY CommitFacts
<1>2. m.type = "REFUND" =>
         txns'[m.refundOf] =
           [txns[m.refundOf] EXCEPT
              !.refundedPaise = @ + m.amountPaise,
              !.status = IF m.seen + m.amountPaise = txns[m.refundOf].amountPaise
                         THEN "REVERSED" ELSE "SUCCESS"]
  BY CommitFacts
<1>3. /\ m.type = "REFUND" => m.refundOf \in Calls /\ txns[m.refundOf] # NoTxn
                                /\ txns[m.refundOf].type = "TRANSFER"
      /\ m.type # "REFUND" => m.refundOf = NoTxn
      /\ m \in Requests
  BY <1>1 DEF RequestSound
<1>4. TypeOK /\ TypeOK'
  BY DEF IInv
<1>5. TxnDoc(m) \in Transactions
  BY <1>3 DEF TxnDoc, Transactions, Requests
<1>6. ASSUME NEW t \in Posted
      PROVE  LET old == txns[t]
                 new == txns'[t] IN
             /\ new # NoTxn
             /\ new.type = old.type /\ new.amountPaise = old.amountPaise /\ new.sender = old.sender
             /\ new.receiver = old.receiver /\ new.refundOf = old.refundOf
             /\ new.status = "REVERSED" => old.type = "TRANSFER"
             /\ new.refundedPaise = old.refundedPaise + IF t = m.refundOf THEN m.amountPaise ELSE 0
  <2>1. t \in Calls /\ t # c /\ txns[t] \in Transactions
    BY <1>1, <1>4, AmountsAre DEF Posted
  <2>2. CASE t = m.refundOf
    <3> DEFINE mark == IF m.seen + m.amountPaise = txns[t].amountPaise THEN "REVERSED" ELSE "SUCCESS"
               paise == txns[t].refundedPaise + m.amountPaise
    <3>1. txns'[t] = [txns[t] EXCEPT !.refundedPaise = paise, !.status = mark]
      BY <1>2, <1>3, <2>1, <2>2
    <3>2. txns[t].type = "TRANSFER"
      BY <1>3, <2>1, <2>2
    <3> HIDE DEF mark
    <3>3. /\ txns'[t].type = txns[t].type /\ txns'[t].amountPaise = txns[t].amountPaise
          /\ txns'[t].sender = txns[t].sender /\ txns'[t].receiver = txns[t].receiver
          /\ txns'[t].refundOf = txns[t].refundOf /\ txns'[t].refundedPaise = paise
      BY <2>1, <3>1 DEF Transactions
    <3>4. txns'[t] # NoTxn
      <4>1. paise \in Nat
        BY <1>3, <2>1, <2>2 DEF Transactions, Requests
      <4>2. mark \in {"SUCCESS", "REVERSED"}
        BY DEF mark
      <4>3. txns'[t] \in Transactions
        BY <2>1, <3>1, <4>1, <4>2 DEF Transactions
      <4> QED BY <4>3, NoTxnAssumption
    <3> QED BY <2>2, <3>2, <3>3, <3>4
  <2>3. CASE t # m.refundOf
    <3>1. txns'[t] = txns[t]
      BY <1>1, <2>1, <2>3
    <3>2. txns[t].refundedPaise = txns[t].refundedPaise + 0
      BY <2>1 DEF Transactions
    <3> QED BY <2>3, <3>1, <3>2 DEF SumsOK, TxnSound, Posted
  <2> QED BY <2>2, <2>3
<1>7. c \notin Posted /\ Posted' = Posted \cup {c}
  <2>1. c \notin Posted
    BY <1>1 DEF Posted
  <2>2. ASSUME NEW t \in Calls \ (Posted \cup {c}) PROVE txns'[t] = NoTxn
    BY <1>1, <1>3, <2>2 DEF Posted
  <2>3. txns'[c] # NoTxn
    BY <1>1, <1>5
  <2> QED BY <1>6, <2>1, <2>2, <2>3 DEF Posted
<1> QED BY <1>1, <1>6, <1>7 DEF SumsOK

(* Documents that were there add up to what they did, and with the new one *)
(* to its amount more.                                                     *)
LEMMA CommitSum ==
  ASSUME IInv, IInv', SumsOK, NEW c \in Calls, Commit(c), NEW T \in SUBSET Posted
  PROVE  /\ SumFunctionOnSet(Amounts, T) \in Int
         /\ SumFunctionOnSet(Amounts', T) = SumFunctionOnSet(Amounts, T)
         /\ SumFunctionOnSet(Amounts', T \cup {c}) = SumFunctionOnSet(Amounts, T) + req[c].amountPaise
<1> DEFINE f == Amounts
           h == Amounts'
           m == req[c]
<1>1. IsFiniteSet(T) /\ c \notin T
  BY CommitDocs, FS_Subset
<1>2. \A t \in T : f[t] \in Int /\ h[t] = f[t]
  <2>1. \A t \in Posted : txns'[t].type = txns[t].type /\ txns'[t].amountPaise = txns[t].amountPaise
    BY CommitDocs
  <2>2. \A t \in T : t \in Calls /\ f[t] \in Int
    BY AmountsAre DEF IInv, Posted
  <2> QED BY <2>1, <2>2 DEF Amounts
<1>3. h[c] = m.amountPaise /\ h[c] \in Int
  <2>1. txns'[c] = TxnDoc(m)
    BY CommitDocs
  <2>2. RequestSound(m)
    BY CommitFacts
  <2>3. m.amountPaise \in Int
    BY <2>2 DEF RequestSound, Requests
  <2> QED BY <2>1, <2>3 DEF Amounts, TxnDoc
<1> HIDE DEF f, h
<1>4. SumFunctionOnSet(f, T) \in Int /\ SumFunctionOnSet(h, T) = SumFunctionOnSet(f, T)
  BY <1>1, <1>2, SumInt, SumAgrees
<1>5. SumFunctionOnSet(h, T \cup {c}) = SumFunctionOnSet(h, T) + h[c]
  <2>1. \A y \in T \cup {c} : h[y] \in Int
    BY <1>2, <1>3
  <2> QED BY <1>1, <2>1, SumAdd
<1> QED BY <1>3, <1>4, <1>5 DEF f, h

LEMMA CommitSums ==
  ASSUME IInv, IInv', SumsOK, NEW c \in Calls, Commit(c)
  PROVE  SumsOK'
<1> DEFINE m == req[c]
<1>1. /\ c \notin Posted /\ Posted' = Posted \cup {c} /\ IsFiniteSet(Posted)
      /\ txns'[c] = TxnDoc(m) /\ m.refundOf # c
  BY CommitDocs
<1>2. \A t \in Posted :
        /\ txns'[t].type = txns[t].type /\ txns'[t].amountPaise = txns[t].amountPaise
        /\ txns'[t].sender = txns[t].sender /\ txns'[t].receiver = txns[t].receiver
        /\ txns'[t].refundOf = txns[t].refundOf
        /\ txns'[t].status = "REVERSED" => txns[t].type = "TRANSFER"
        /\ txns'[t].refundedPaise = txns[t].refundedPaise + IF t = m.refundOf THEN m.amountPaise ELSE 0
  BY CommitDocs
<1>3. /\ txns'[c].type = m.type /\ txns'[c].sender = m.from /\ txns'[c].receiver = m.to
      /\ txns'[c].refundOf = m.refundOf /\ txns'[c].refundedPaise = 0 /\ txns'[c].status = "SUCCESS"
  BY <1>1 DEF TxnDoc
<1>4. RequestSound(m) /\ m \in Requests /\ WellFormed(m) /\ Postable(m)
  BY CommitFacts DEF RequestSound
<1>5. IsFiniteSet(Posted')
  BY <1>1, FS_AddElement
<1>6. \A t \in Posted : TxnSound(t)
  BY DEF SumsOK
<1>7. \A t \in Posted' : TxnSound(t)'
  <2>1. TxnSound(c)'
    <3>1. m.refundOf # NoTxn => m.refundOf \in Posted
      BY <1>4 DEF RequestSound, Posted
    <3>2. /\ m.type \in {"TRANSFER", "REFUND"} => m.from \in Users /\ m.to \in Users \ {m.from}
          /\ m.type = "ADD_MONEY" => m.from = NoUser /\ m.to \in Users
          /\ m.type \in {"WITHDRAW", "BILL_PAY"} => m.from \in Users /\ m.to = NoUser
      BY <1>4 DEF WellFormed, Postable, Buildable
    <3> QED BY <1>1, <1>3, <3>1, <3>2 DEF TxnSound
  <2>2. ASSUME NEW t \in Posted PROVE TxnSound(t)'
    BY <1>1, <1>2, <1>6 DEF TxnSound
  <2> QED BY <1>1, <2>1, <2>2
<1>8. ASSUME NEW t \in Posted'
      PROVE  txns'[t].refundedPaise = SumFunctionOnSet(Amounts', RefundsOf(t)')
  <2>1. RefundsOf(t)' = {r \in Posted' : txns'[r].refundOf = t} /\ t \in Calls
    BY DEF RefundsOf, Posted
  <2>2. CASE t = c
    <3>1. \A r \in Posted : txns[r].refundOf # c
      BY <1>1, <1>6 DEF TxnSound, Posted
    <3>2. RefundsOf(t)' = {}
      BY <1>1, <1>2, <1>3, <2>1, <2>2, <3>1
    <3> QED BY <1>3, <2>2, <3>2, SumEmpty
  <2>3. CASE t # c
    <3> DEFINE R == {r \in Posted : txns[r].refundOf = t}
    <3>1. t \in Posted /\ R = RefundsOf(t) /\ R \in SUBSET Posted
      BY <1>1, <2>3 DEF RefundsOf, Posted
    <3>2. txns[t].refundedPaise = SumFunctionOnSet(Amounts, R)
      BY <3>1 DEF SumsOK
    <3>3. RefundsOf(t)' = IF m.refundOf = t THEN R \cup {c} ELSE R
      BY <1>1, <1>2, <1>3, <2>1
    <3> HIDE DEF R
    <3>4. /\ SumFunctionOnSet(Amounts, R) \in Int
          /\ SumFunctionOnSet(Amounts', R) = SumFunctionOnSet(Amounts, R)
          /\ SumFunctionOnSet(Amounts', R \cup {c}) = SumFunctionOnSet(Amounts, R) + m.amountPaise
      BY <3>1, CommitSum
    <3> QED BY <1>2, <3>1, <3>2, <3>3, <3>4
  <2> QED BY <2>2, <2>3
<1>9. ASSUME NEW u \in Users
      PROVE  balance'[u] - Opening[u] = SumFunctionOnSet(Amounts', Toward(u, "CREDIT")')
                                          - SumFunctionOnSet(Amounts', Toward(u, "DEBIT")')
  <2> DEFINE C == Toward(u, "CREDIT")
             D == Toward(u, "DEBIT")
  <2>1. C \in SUBSET Posted /\ D \in SUBSET Posted
    BY DEF Toward, History, Posted
  <2>2. balance[u] - Opening[u] = SumFunctionOnSet(Amounts, C) - SumFunctionOnSet(Amounts, D)
    BY DEF SumsOK
  <2>3. balance'[u] = balance[u] + (IF u = m.from THEN -m.amountPaise ELSE IF u = m.to THEN m.amountPaise ELSE 0)
    <3>1. \A v \in Users : LET net == NetForAccount(BuildEntries(m), v) IN
            balance'[v] = balance[v] + net /\ ledger'[v] = ledger[v] + net
      BY CommitFacts
    <3>2. NetForAccount(BuildEntries(m), u) =
            IF u = m.from THEN -m.amountPaise ELSE IF u = m.to THEN m.amountPaise ELSE 0
      BY <1>4, EntriesMatchMovement
    <3> QED BY <3>1, <3>2
  <2>4. ASSUME NEW d \in {"CREDIT", "DEBIT"}
        PROVE  Toward(u, d)' = IF (u = m.from /\ d = "DEBIT") \/ (u = m.to /\ d = "CREDIT")
                               THEN Toward(u, d) \cup {c} ELSE Toward(u, d)
    <3>1. \A t \in Posted : t \in Toward(u, d)' <=> t \in Toward(u, d)
      BY <1>1, <1>2 DEF Toward, History, DirectionFor, Posted
    <3>2. c \notin Toward(u, d) /\ Toward(u, d) \subseteq Posted /\ Toward(u, d)' \subseteq Posted'
      BY <1>1 DEF Toward, History, Posted
    <3>3. c \in Toward(u, d)' <=> u \in {m.from, m.to} /\ DirectionFor(TxnDoc(m), u) = d
      BY <1>1, <1>3 DEF Toward, History, Posted
    <3>4. /\ u = m.from => DirectionFor(TxnDoc(m), u) = "DEBIT" /\ u # m.to
          /\ u = m.to => DirectionFor(TxnDoc(m), u) = "CREDIT"
      BY <1>4 DEF DirectionFor, TxnDoc, WellFormed, Postable, Buildable, Types
    <3> QED BY <1>1, <3>1, <3>2, <3>3, <3>4
  <2>5. Toward(u, "CREDIT")' = IF u = m.to THEN C \cup {c} ELSE C
    BY <2>4
  <2>6. Toward(u, "DEBIT")' = IF u = m.from THEN D \cup {c} ELSE D
    BY <2>4
  <2>7. u = m.from => u # m.to
    BY <1>4 DEF Postable
  <2> HIDE DEF C, D
  <2>8. /\ SumFunctionOnSet(Amounts, C) \in Int
        /\ SumFunctionOnSet(Amounts', C) = SumFunctionOnSet(Amounts, C)
        /\ SumFunctionOnSet(Amounts', C \cup {c}) = SumFunctionOnSet(Amounts, C) + m.amountPaise
    BY <2>1, CommitSum
  <2>9. /\ SumFunctionOnSet(Amounts, D) \in Int
        /\ SumFunctionOnSet(Amounts', D) = SumFunctionOnSet(Amounts, D)
        /\ SumFunctionOnSet(Amounts', D \cup {c}) = SumFunctionOnSet(Amounts, D) + m.amountPaise
    BY <2>1, CommitSum
  <2>10. m.amountPaise \in Int /\ balance[u] \in Int /\ Opening[u] \in Int
    BY <1>4 DEF Requests, IInv, TypeOK, PostingsTypeOK
  <2> DEFINE x == SumFunctionOnSet(Amounts, C)
             y == SumFunctionOnSet(Amounts, D)
  <2>11. /\ x \in Int /\ y \in Int /\ balance[u] - Opening[u] = x - y
         /\ SumFunctionOnSet(Amounts', Toward(u, "CREDIT")') = IF u = m.to THEN x + m.amountPaise ELSE x
         /\ SumFunctionOnSet(Amounts', Toward(u, "DEBIT")') = IF u = m.from THEN y + m.amountPaise ELSE y
    BY <2>2, <2>5, <2>6, <2>8, <2>9
  <2> HIDE DEF x, y, m
  <2> QED BY <2>3, <2>7, <2>10, <2>11
<1> HIDE DEF m
<1> QED BY <1>5, <1>7, <1>8, <1>9 DEF SumsOK

LEMMA NextSums == IInv /\ IInv' /\ SumsOK /\ [Next]_vars => SumsOK'
<1> SUFFICES ASSUME IInv, IInv', SumsOK, [Next]_vars PROVE SumsOK'
  OBVIOUS
<1>1. ASSUME NEW c \in Calls, Commit(c) PROVE SumsOK'
  BY <1>1, CommitSums
<1>2. CASE UNCHANGED <<balance, txns>>
  BY <1>2, SameSums
<1>3. ASSUME NEW u \in Users, DeactivateAccount(u) PROVE UNCHANGED <<balance, txns>>
  BY <1>3 DEF DeactivateAccount
<1>4. ASSUME NEW c \in Calls, Handle(c) \/ Finish(c) \/ FailCommitted(c) PROVE UNCHANGED <<balance, txns>>
  BY <1>4 DEF Handle, SendMoney, AddMoney, PayBill, Withdraw, RefundTransaction, Accept,
     Finish, FailCommitted, money
<1>5. ASSUME NEW c \in Calls,
             Begin(c) \/ Claim(c) \/ DebitSender(c) \/ CreditReceiver(c) \/ Refuse(c)
               \/ Conflict(c) \/ Retry(c) \/ TimeUp(c) \/ Fault(c) \/ Crash(c)
      PROVE  UNCHANGED <<balance, txns>>
  BY <1>5 DEF Begin, Claim, DebitSender, CreditReceiver, Refuse, Conflict, Retry, TimeUp, Fault,
     Crash, GoTo, Fail, Abort, EndSession, money
<1> QED
  BY <1>1, <1>2, <1>3, <1>4, <1>5 DEF Next, Post, Answered, vars, money

(* The sums hold throughout.                                               *)
LEMMA SumsHold == Spec => [](IInv /\ SumsOK)
  BY InitSums, NextSums, InductiveInvariant, InitIInv, NextIInv, PTL DEF Spec

(* However refunds of one transfer race, abort and are rerun: what it says *)
(* was refunded is the sum of the refunds that are on record for it        *)
(* (txnController.js, refundTransaction's beforeCommit).                   *)
THEOREM RefundsAreRecorded == Spec => []RefundsRecorded
<1>1. IInv /\ SumsOK => RefundsRecorded
  <2> SUFFICES ASSUME IInv, SumsOK, NEW t \in Calls, txns[t] # NoTxn
               PROVE  txns[t].refundedPaise = SumFunction([r \in RefundsOf(t) |-> txns[r].amountPaise])
    BY DEF RefundsRecorded
  <2> DEFINE R == RefundsOf(t)
             f == [r \in R |-> txns[r].amountPaise]
  <2>1. R \in SUBSET Posted /\ IsFiniteSet(R)
    BY FS_Subset DEF RefundsOf, Posted, SumsOK
  <2>2. txns[t].refundedPaise = SumFunctionOnSet(Amounts, R)
    BY DEF SumsOK, Posted
  <2>3. \A r \in R : Amounts[r] = f[r]
    BY <2>1 DEF Amounts, Posted
  <2>4. DOMAIN f = R
    OBVIOUS
  <2>5. SumFunctionOnSet(Amounts, R) = SumFunctionOnSet(f, R)
    <3> HIDE DEF f, R
    <3> QED BY <2>1, <2>3, SumAgrees
  <2> QED BY <2>2, <2>4, <2>5 DEF SumFunction
<1> QED BY <1>1, SumsHold, PTL

(* Whatever is posted, refunded, aborted or deactivated at once: at every  *)
(* instant a statement's net is what the balance has changed by, and the   *)
(* monthly summary and the spending differ from it exactly by the reversed *)
(* transfers and the refunds that were given.                              *)
THEOREM ReportsExplainTheBalance == Spec => []ReportsFollowTheBalance
<1>1. IInv /\ SumsOK => ReportsFollowTheBalance
  <2> SUFFICES ASSUME IInv, SumsOK, NEW u \in Users
               PROVE  LET change == balance[u] - Opening[u]
                          s == Summary(u)
                          reversed == {t \in History(u) : txns[t].status = "REVERSED"}
                          given == {t \in Succeeded(u) : txns[t].sender = u /\ txns[t].type = "REFUND"}
                      IN /\ StatementNet(u) = change
                         /\ s.received + s.addedMoney - s.sent - s.billsPaid - s.withdrawn
                              = change + Paise({t \in reversed : txns[t].sender = u})
                                       - Paise({t \in reversed : txns[t].receiver = u})
                         /\ TotalSpent(u) = s.sent + s.billsPaid + s.withdrawn - Paise(given)
    BY DEF ReportsFollowTheBalance
  <2> DEFINE Of(types, outbound) == {t \in Succeeded(u) : txns[t].type \in types
                                       /\ (txns[t].sender = u) = outbound}
             sent == Of({"TRANSFER", "REFUND"}, TRUE)
             received == Of({"TRANSFER", "REFUND"}, FALSE)
             bills == Of({"BILL_PAY"}, TRUE)
             added == Of({"ADD_MONEY"}, FALSE)
             withdrawn == Of({"WITHDRAW"}, TRUE)
             reversed == {t \in History(u) : txns[t].status = "REVERSED"}
             revOut == {t \in reversed : txns[t].sender = u}
             revIn == {t \in reversed : txns[t].receiver = u}
             given == {t \in Succeeded(u) : txns[t].sender = u /\ txns[t].type = "REFUND"}
             spent == {t \in Succeeded(u) : txns[t].sender = u
                         /\ txns[t].type \in {"TRANSFER", "BILL_PAY", "WITHDRAW"}}
             C == Toward(u, "CREDIT")
             D == Toward(u, "DEBIT")
             sum(T) == SumFunctionOnSet(Amounts, T)
  <2>1. /\ sent \in SUBSET Posted /\ received \in SUBSET Posted /\ bills \in SUBSET Posted
        /\ added \in SUBSET Posted /\ withdrawn \in SUBSET Posted /\ revOut \in SUBSET Posted
        /\ revIn \in SUBSET Posted /\ given \in SUBSET Posted /\ spent \in SUBSET Posted
        /\ C \in SUBSET Posted /\ D \in SUBSET Posted
    BY DEF Succeeded, Toward, History, Posted
  <2>2. ASSUME NEW T \in SUBSET Posted PROVE Paise(T) = sum(T) /\ sum(T) \in Int /\ IsFiniteSet(T)
    <3>1. T \in SUBSET Calls /\ IsFiniteSet(T)
      BY FS_Subset DEF Posted, SumsOK
    <3>2. \A t \in T : Amounts[t] \in Int
      BY AmountsAre DEF IInv
    <3> QED BY <3>1, <3>2, PaiseIsSum, SumInt
  <2>3. ASSUME NEW A \in SUBSET Posted, NEW B \in SUBSET Posted, A \cap B = {}
        PROVE  sum(A \cup B) = sum(A) + sum(B)
    <3>1. \A t \in A \cup B : Amounts[t] \in Int
      BY AmountsAre DEF IInv
    <3>2. IsFiniteSet(A) /\ IsFiniteSet(B)
      BY <2>2
    <3> QED BY <2>3, <3>1, <3>2, SumUnion
  <2>4. \A t \in Posted : /\ txns[t] \in Transactions /\ TxnSound(t)
                          /\ t \in History(u) <=> u \in {txns[t].sender, txns[t].receiver}
                          /\ u # NoUser
    BY AmountsAre DEF IInv, SumsOK, History, Posted
  <2>5. /\ C = (received \cup added) \cup revIn
        /\ received \cap added = {} /\ (received \cup added) \cap revIn = {}
    BY <2>1, <2>4 DEF Toward, Succeeded, DirectionFor, TxnSound, Transactions, Types
  <2>6. /\ D = ((sent \cup bills) \cup withdrawn) \cup revOut
        /\ sent \cap bills = {} /\ (sent \cup bills) \cap withdrawn = {}
        /\ ((sent \cup bills) \cup withdrawn) \cap revOut = {}
    BY <2>1, <2>4 DEF Toward, Succeeded, DirectionFor, TxnSound, Transactions, Types
  <2>7. /\ (sent \cup bills) \cup withdrawn = spent \cup given
        /\ spent \cap given = {}
    BY <2>1, <2>4 DEF Succeeded, TxnSound, Transactions, Types
  <2>8. /\ StatementNet(u) = Paise(C) - Paise(D)
        /\ Summary(u).sent = Paise(sent) /\ Summary(u).received = Paise(received)
        /\ Summary(u).billsPaid = Paise(bills) /\ Summary(u).addedMoney = Paise(added)
        /\ Summary(u).withdrawn = Paise(withdrawn) /\ TotalSpent(u) = Paise(spent)
    BY DEF StatementNet, Summary, TotalSpent, Toward
  <2>9. balance[u] - Opening[u] = sum(C) - sum(D) /\ balance[u] \in Int /\ Opening[u] \in Int
    BY DEF SumsOK, IInv, TypeOK, PostingsTypeOK
  <2> HIDE DEF sent, received, bills, added, withdrawn, revOut, revIn, given, spent, C, D, sum
  <2>10. sum(C) = sum(received) + sum(added) + sum(revIn)
    <3>1. received \cup added \in SUBSET Posted
      BY <2>1
    <3>2. sum(C) = sum(received \cup added) + sum(revIn)
      BY <2>1, <2>3, <2>5, <3>1
    <3>3. sum(received \cup added) = sum(received) + sum(added)
      BY <2>1, <2>3, <2>5
    <3> QED BY <3>2, <3>3
  <2>11. sum((sent \cup bills) \cup withdrawn) = sum(sent) + sum(bills) + sum(withdrawn)
    <3>1. sent \cup bills \in SUBSET Posted
      BY <2>1
    <3>2. sum((sent \cup bills) \cup withdrawn) = sum(sent \cup bills) + sum(withdrawn)
      BY <2>1, <2>3, <2>6, <3>1
    <3>3. sum(sent \cup bills) = sum(sent) + sum(bills)
      BY <2>1, <2>3, <2>6
    <3> QED BY <3>2, <3>3
  <2>12. sum(D) = sum((sent \cup bills) \cup withdrawn) + sum(revOut)
    <3>1. (sent \cup bills) \cup withdrawn \in SUBSET Posted
      BY <2>1
    <3> QED BY <2>1, <2>3, <2>6, <3>1
  <2>13. sum((sent \cup bills) \cup withdrawn) = sum(spent) + sum(given)
    BY <2>1, <2>3, <2>7
  <2>14. /\ sum(sent) \in Int /\ sum(received) \in Int /\ sum(bills) \in Int /\ sum(added) \in Int
         /\ sum(withdrawn) \in Int /\ sum(revOut) \in Int /\ sum(revIn) \in Int
         /\ sum(given) \in Int /\ sum(spent) \in Int
    BY <2>1, <2>2
  <2>15. /\ StatementNet(u) = sum(C) - sum(D)
         /\ Summary(u).sent = sum(sent) /\ Summary(u).received = sum(received)
         /\ Summary(u).billsPaid = sum(bills) /\ Summary(u).addedMoney = sum(added)
         /\ Summary(u).withdrawn = sum(withdrawn) /\ TotalSpent(u) = sum(spent)
         /\ Paise(given) = sum(given) /\ Paise(revOut) = sum(revOut) /\ Paise(revIn) = sum(revIn)
    BY <2>1, <2>2, <2>8
  <2>16. /\ StatementNet(u) = balance[u] - Opening[u]
         /\ Summary(u).received + Summary(u).addedMoney - Summary(u).sent - Summary(u).billsPaid
              - Summary(u).withdrawn = balance[u] - Opening[u] + sum(revOut) - sum(revIn)
         /\ TotalSpent(u) = Summary(u).sent + Summary(u).billsPaid + Summary(u).withdrawn - sum(given)
    BY <2>9, <2>10, <2>11, <2>12, <2>13, <2>14, <2>15
  <2> QED BY <2>15, <2>16 DEF revOut, revIn, given
<1> QED BY <1>1, SumsHold, PTL
===============================================================================
