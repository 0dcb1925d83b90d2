----------------------------- MODULE MongoLedger ------------------------------
(***************************************************************************)
(* postTransaction of src/services/ledgerService.js on a replica set: all  *)
(* writes run in one MongoDB session, through withTransaction of           *)
(* src/utils/dbTransaction.js.                                             *)
(*                                                                         *)
(* What a session gives is MongoDB's, and external: it reads a snapshot    *)
(* taken at its first operation; its writes are private until the commit;  *)
(* a write of a document that another session has written, or that was     *)
(* committed since the snapshot, is a write conflict and aborts the        *)
(* session; session.withTransaction then runs the callback again, until    *)
(* its time limit.                                                         *)
(***************************************************************************)
EXTENDS Postings, Functions

VARIABLES snap,    \* the snapshot of each open session
          stale    \* the documents committed by others since that snapshot

vars == <<money, pc, req, emitted, snap, stale>>

InSession == {"claim", "debit", "credit", "record"}

Docs == Users \cup Calls

NoSnap == [balance |-> Opening, active |-> [u \in Users |-> TRUE],
           txns |-> [c \in Calls |-> NoTxn]]

Init ==
  /\ PostingsInit
  /\ snap = [c \in Calls |-> NoSnap]
  /\ stale = [c \in Calls |-> {}]

(* The documents the session of c has written so far, by where it is.      *)
Written(c) ==
  LET m == req[c] IN
    {d \in Docs :
       \/ d = m.refundOf /\ pc[c] \in {"debit", "credit", "record"}
       \/ d = m.from     /\ pc[c] \in {"credit", "record"}
       \/ d = m.to       /\ pc[c] = "record"}

(* No write conflict on document d for the session of c.                   *)
Writable(c, d) == d \notin stale[c] /\ \A s \in Calls \ {c} : d \notin Written(s)

(* Documents D have been committed: every other open session has missed    *)
(* that.  except is the session that committed, if one did.                *)
Missed(D, except) ==
  [s \in Calls |-> IF s \notin except /\ pc[s] \in InSession THEN stale[s] \cup D ELSE stale[s]]

(* The session of c ends, and its private writes are gone.                 *)
EndSession(c, to) ==
  /\ pc' = [pc EXCEPT ![c] = to]
  /\ snap' = [snap EXCEPT ![c] = NoSnap]
  /\ stale' = [stale EXCEPT ![c] = {}]
  /\ UNCHANGED <<money, emitted>>

(* The call ends without having moved money.                               *)
Fail(c)  == EndSession(c, "failed") /\ req' = [req EXCEPT ![c] = NoReq]
Abort(c) == EndSession(c, "aborted") /\ UNCHANGED req

GoTo(c, to) ==
  /\ pc' = [pc EXCEPT ![c] = to]
  /\ UNCHANGED <<money, req, emitted, snap, stale>>

-------------------------------------------------------------------------------
Begin(c) ==
  /\ pc[c] = "posting"
  /\ pc' = [pc EXCEPT ![c] = FirstWrite(req[c])]
  /\ snap' = [snap EXCEPT ![c] = [balance |-> balance, active |-> active, txns |-> txns]]
  /\ stale' = [stale EXCEPT ![c] = {}]
  /\ UNCHANGED <<money, req, emitted>>

(* beforeCommit of a refund claims the refundable amount.                  *)
Claim(c) ==
  /\ pc[c] = "claim"
  /\ ClaimMatches(snap[c], req[c]) /\ Writable(c, req[c].refundOf)
  /\ GoTo(c, AfterClaim(req[c]))

DebitSender(c) ==
  /\ pc[c] = "debit"
  /\ DebitMatches(snap[c], req[c]) /\ Writable(c, req[c].from)
  /\ GoTo(c, AfterDebit(req[c]))

(* Faulty: the receiver is notified inside the callback.                   *)
CreditReceiverNotifying(c) ==
  /\ pc[c] = "credit"
  /\ CreditMatches(snap[c], req[c]) /\ Writable(c, req[c].to)
  /\ pc' = [pc EXCEPT ![c] = "record"]
  /\ emitted' = [emitted EXCEPT ![c] = @ + 1]
  /\ UNCHANGED <<money, req, snap, stale>>

CreditReceiver(c) ==
  /\ pc[c] = "credit"
  /\ CreditMatches(snap[c], req[c]) /\ Writable(c, req[c].to)
  /\ GoTo(c, "record")

(* A filter that matches nothing in the snapshot: the handler throws.      *)
Refuse(c) ==
  /\ \/ pc[c] = "claim"  /\ ~ClaimMatches(snap[c], req[c])
     \/ pc[c] = "debit"  /\ ~DebitMatches(snap[c], req[c])
     \/ pc[c] = "credit" /\ ~CreditMatches(snap[c], req[c])
  /\ Fail(c)

Conflict(c) ==
  /\ \/ pc[c] = "claim"  /\ ClaimMatches(snap[c], req[c])  /\ ~Writable(c, req[c].refundOf)
     \/ pc[c] = "debit"  /\ DebitMatches(snap[c], req[c])  /\ ~Writable(c, req[c].from)
     \/ pc[c] = "credit" /\ CreditMatches(snap[c], req[c]) /\ ~Writable(c, req[c].to)
  /\ Abort(c)

(* Transaction.create and LedgerEntry.create insert documents no other     *)
(* session knows, then the session commits: all writes land at once.       *)
Commit(c) ==
  LET m == req[c]
      entries == BuildEntries(m)
      claimed == IF m.type = "REFUND" THEN Claimed(m) ELSE txns
  IN  /\ pc[c] = "record"
      /\ balance' = [u \in Users |-> IF u = m.from THEN balance[u] - m.amountPaise
                                     ELSE IF u = m.to THEN balance[u] + m.amountPaise
                                     ELSE balance[u]]
      /\ txns' = [claimed EXCEPT ![c] = TxnDoc(m)]
      /\ ledger' = [u \in Users |-> ledger[u] + NetForAccount(entries, u)]
      /\ books' = [d \in {"DEBIT", "CREDIT"} |-> books[d] + SideTotal(entries, d)]
      /\ pc' = [pc EXCEPT ![c] = "committed"]
      /\ snap' = [snap EXCEPT ![c] = NoSnap]
      /\ stale' = [Missed(Written(c), {c}) EXCEPT ![c] = {}]
      /\ UNCHANGED <<active, req, emitted>>

(* session.withTransaction runs the callback again, until 120 s are over.  *)
Retry(c)  == pc[c] = "aborted" /\ GoTo(c, "posting")
TimeUp(c) == pc[c] = "aborted" /\ Fail(c)

(* A transient error aborts the session; any other error is thrown.  The   *)
(* process may die too: the server then aborts the orphaned session.       *)
Fault(c) == pc[c] \in InSession /\ (Abort(c) \/ Fail(c))
Crash(c) == pc[c] \in {"posting", "aborted"} /\ Fail(c)

(* deactivateAccount saves isActive outside any session: the write waits   *)
(* for the session that holds the document.                                *)
DeactivateAccount(u) ==
  /\ active[u]
  /\ \A s \in Calls : u \notin Written(s)
  /\ active' = [active EXCEPT ![u] = FALSE]
  /\ stale' = Missed({u}, {})
  /\ UNCHANGED <<balance, ledger, books, txns, pc, req, emitted, snap>>

-------------------------------------------------------------------------------
Post(c) == Begin(c) \/ Claim(c) \/ DebitSender(c) \/ CreditReceiver(c) \/ Refuse(c)
             \/ Conflict(c) \/ Commit(c) \/ Retry(c)

Answered == AllAnswered /\ UNCHANGED vars

Next ==
  \/ \E c \in Calls : (Handle(c) \/ Finish(c) \/ FailCommitted(c)) /\ UNCHANGED <<snap, stale>>
  \/ \E c \in Calls : Post(c) \/ TimeUp(c) \/ Fault(c) \/ Crash(c)
  \/ \E u \in Users : DeactivateAccount(u)
  \/ Answered

Spec == Init /\ [][Next]_vars

-------------------------------------------------------------------------------
Snapshots == [balance : [Users -> Int], active : [Users -> BOOLEAN],
              txns : [Calls -> Transactions \cup {NoTxn}]]

(* Every variable has its type.                                            *)
TypeOK ==
  /\ PostingsTypeOK
  /\ pc \in [Calls -> InSession \cup Terminal \cup {"idle", "posting", "aborted", "committed"}]
  /\ snap \in [Calls -> Snapshots]
  /\ stale \in [Calls -> SUBSET Docs]

(* No wallet is ever overdrawn, whatever postings, refunds and             *)
(* deactivations run at once (ledgerService.js, "No overdraft").           *)
NoOverdraft == \A u \in Users : balance[u] >= 0

(* reconcileUser finds no drift, at every instant: the cached balance is   *)
(* what the ledger entries of the wallet add up to.                        *)
Reconciled == \A u \in Users : balance[u] = ledger[u]

(* Refunds that race for one transfer never take more than it moved, and   *)
(* one that is marked REVERSED, from a stale copy, is refunded in full.    *)
RefundsBounded ==
  \A t \in Calls : txns[t] # NoTxn =>
    /\ txns[t].refundedPaise <= txns[t].amountPaise
    /\ txns[t].status = "REVERSED" => txns[t].refundedPaise = txns[t].amountPaise

(* The refundedPaise of a transfer is the sum of the refunds recorded for  *)
(* it: the claim and the record of a refund stand or fall together.        *)
RefundsOf(t) == {r \in Calls : txns[r] # NoTxn /\ txns[r].refundOf = t}
RefundsRecorded ==
  \A t \in Calls : txns[t] # NoTxn =>
    txns[t].refundedPaise = SumFunction([r \in RefundsOf(t) |-> txns[r].amountPaise])

(* A caller told of success has its Transaction, and the receiver of the   *)
(* money was notified of it, exactly once, however often the callback was  *)
(* rerun; nobody is notified of money that did not move.  (A caller told   *)
(* of a failure may still have paid: ledgerService.js answers it so when a *)
(* step after the commit throws.)                                          *)
NotifiesOf(t) == t.receiver # NoUser /\ t.type # "ADD_MONEY"
NotifiedOnce ==
  \A c \in Calls :
    /\ emitted[c] > 0 => emitted[c] = 1 /\ txns[c] # NoTxn
    /\ pc[c] = "done" => /\ txns[c] # NoTxn
                         /\ emitted[c] = IF NotifiesOf(txns[c]) THEN 1 ELSE 0

(* Seen from outside, a posting in a session happens at one instant or not *)
(* at all, against the documents as they are at that instant.              *)
Atomic == INSTANCE AtomicLedger WITH balance <- balance, active <- active, txns <- txns
ImplementsAtomicLedger == Atomic!Spec

-------------------------------------------------------------------------------
(* The parts of the inductive invariant that the properties above rest on. *)

Pending == {"posting", "aborted", "committed"} \cup InSession

Db == [balance |-> balance, active |-> active, txns |-> txns]

(* A request still fits the documents: the transfer a refund refunds is    *)
(* there, and only more refunded than when the handler read it.            *)
RequestSound(m) ==
  /\ m \in Requests
  /\ WellFormed(m) /\ Postable(m)
  /\ IF m.type = "REFUND"
     THEN /\ m.refundOf \in Calls
          /\ LET original == txns[m.refundOf]
             IN  /\ original # NoTxn
                 /\ original.type = "TRANSFER"
                 /\ m.from = original.receiver /\ m.to = original.sender
                 /\ m.seen <= original.refundedPaise
                 /\ m.seen + m.amountPaise <= original.amountPaise
     ELSE m.refundOf = NoTxn

(* A call is at a write only if its movement has that side.                *)
StepApplies(c) ==
  /\ pc[c] = "claim" => req[c].type = "REFUND"
  /\ pc[c] = "debit" => req[c].from \in Users
  /\ pc[c] = "credit" => req[c].to \in Users

(* What a session has not missed it sees as it is.                         *)
SnapshotCurrent(c) ==
  /\ \A u \in Users \ stale[c] :
       snap[c].balance[u] = balance[u] /\ snap[c].active[u] = active[u]
  /\ \A t \in Calls \ stale[c] :
       snap[c].txns[t] # NoTxn => snap[c].txns[t] = txns[t]

(* The guards of the writes a session has made hold of the documents as    *)
(* they are, until it commits.                                             *)
GuardsHold(c) ==
  LET m == req[c] IN
  /\ pc[c] \in {"debit", "credit", "record"} /\ m.type = "REFUND" => ClaimMatches(Db, m)
  /\ pc[c] \in {"credit", "record"} /\ m.from \in Users => DebitMatches(Db, m)
  /\ pc[c] = "record" /\ m.to \in Users => CreditMatches(Db, m)

CallOK(c) ==
  /\ pc[c] \in Pending => RequestSound(req[c])
  /\ StepApplies(c)
  /\ pc[c] \in InSession => SnapshotCurrent(c)
  /\ Written(c) \cap stale[c] = {}
  /\ GuardsHold(c)
  /\ pc[c] \in {"committed", "done"} => txns[c] # NoTxn
  /\ txns[c] # NoTxn => pc[c] \in {"committed", "done", "failed"}
  /\ pc[c] = "committed" => txns[c].type = req[c].type /\ txns[c].receiver = req[c].to
  /\ emitted[c] = IF pc[c] = "done" /\ NotifiesOf(txns[c]) THEN 1 ELSE 0

(* No two open sessions have written one document.                         *)
WritesDisjoint == \A c, d \in Calls : c # d => Written(c) \cap Written(d) = {}

(* The inductive invariant.                                                *)
IInv ==
  /\ TypeOK /\ NoOverdraft /\ Reconciled /\ RefundsBounded
  /\ \A c \in Calls : CallOK(c)
  /\ WritesDisjoint
==============================================================================
