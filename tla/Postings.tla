------------------------------- MODULE Postings -------------------------------
(***************************************************************************)
(* The requests that move money and the documents they move it in, common  *)
(* to the two ways src/services/ledgerService.js posts them: MongoLedger   *)
(* (a session) and StandaloneLedger (no session).                          *)
(*                                                                         *)
(* A call is one request: a handler accepts it (authentication and its own *)
(* reads), then postTransaction runs step by step, interleaved at every    *)
(* await with the other calls.  A call names the Transaction it creates.   *)
(***************************************************************************)
EXTENDS LedgerEntries

CONSTANTS Calls,     \* the requests
          NoTxn,     \* no such document
          MaxPaise,  \* bound: the largest amount a request may name
          Opening    \* the opening balance each wallet was credited at registration

ASSUME PostingsAssumption ==
  /\ NoTxn \notin Calls \cup Users /\ NoUser \notin Calls
  /\ Calls \cap Users = {}
  /\ MaxPaise \in Nat
  /\ Opening \in [Users -> Nat]

VARIABLES balance,   \* User.balancePaise
          active,    \* User.isActive
          ledger,    \* per wallet: credits minus debits of its LedgerEntry documents
          books,     \* all DEBIT and all CREDIT entries since the openings, summed
          txns,      \* Transaction documents by the call that created them
          pc,        \* where each call is
          req,       \* the movement each call asks for, with what its handler read
          emitted    \* how often each call has emitted transaction:success

money == <<balance, active, ledger, books, txns>>

NoReq == [type |-> "none", amountPaise |-> 0, from |-> NoUser, to |-> NoUser,
          refundOf |-> NoTxn, seen |-> 0]

Requests == [type : Types, amountPaise : 1..MaxPaise, from : Users \cup {NoUser},
             to : Users \cup {NoUser}, refundOf : Calls \cup {NoTxn}, seen : 0..MaxPaise]

Transactions ==
  [type : Types, amountPaise : 1..MaxPaise, sender : Users \cup {NoUser},
   receiver : Users \cup {NoUser}, refundOf : Calls \cup {NoTxn},
   refundedPaise : Nat, status : {"SUCCESS", "REVERSED"}]

ASSUME NoTxnAssumption == NoTxn \notin Transactions

(* A call is done when postTransaction has returned to its handler, which  *)
(* answers with success; failed when it threw, and the caller is answered  *)
(* with an error, or when the process died in it, and nobody answers.      *)
Terminal == {"done", "failed"}

PostingsInit ==
  /\ balance = Opening
  /\ active = [u \in Users |-> TRUE]
  /\ ledger = Opening
  /\ books = [DEBIT |-> 0, CREDIT |-> 0]
  /\ txns = [c \in Calls |-> NoTxn]
  /\ pc = [c \in Calls |-> "idle"]
  /\ req = [c \in Calls |-> NoReq]
  /\ emitted = [c \in Calls |-> 0]

-------------------------------------------------------------------------------
(* The handlers, up to their call of postTransaction.  protect has refused *)
(* an inactive caller; nothing later in a handler reads isActive again.    *)

Accept(c, m) ==
  /\ pc[c] = "idle"
  /\ Postable(m)
  /\ pc' = [pc EXCEPT ![c] = "posting"]
  /\ req' = [req EXCEPT ![c] = m]
  /\ UNCHANGED <<money, emitted>>

Movement(type, paise, from, to) ==
  [type |-> type, amountPaise |-> paise, from |-> from, to |-> to,
   refundOf |-> NoTxn, seen |-> 0]

SendMoney(c) ==
  \E sender, receiver \in Users, paise \in 1..MaxPaise :
    /\ active[sender] /\ active[receiver]
    /\ receiver # sender
    /\ Accept(c, Movement("TRANSFER", paise, sender, receiver))

AddMoney(c) ==
  \E user \in Users, paise \in 1..MaxPaise :
    active[user] /\ Accept(c, Movement("ADD_MONEY", paise, NoUser, user))

PayBill(c) ==
  \E user \in Users, paise \in 1..MaxPaise :
    active[user] /\ Accept(c, Movement("BILL_PAY", paise, user, NoUser))

Withdraw(c) ==
  \E user \in Users, paise \in 1..MaxPaise :
    active[user] /\ Accept(c, Movement("WITHDRAW", paise, user, NoUser))

(* refundTransaction reads the original before, and outside, the posting;  *)
(* seen is the refundedPaise of that copy.                                 *)
RefundTransaction(c) ==
  \E o \in Calls :
    LET original == txns[o]
        remaining == original.amountPaise - original.refundedPaise
    IN  /\ original # NoTxn
        /\ original.type = "TRANSFER"
        /\ active[original.receiver]
        /\ \E requested \in 1..remaining :
             Accept(c, [type |-> "REFUND", amountPaise |-> requested,
                        from |-> original.receiver, to |-> original.sender,
                        refundOf |-> o, seen |-> original.refundedPaise])

Handle(c) == SendMoney(c) \/ AddMoney(c) \/ PayBill(c) \/ Withdraw(c) \/ RefundTransaction(c)

-------------------------------------------------------------------------------
(* The three filters of postTransaction's guarded writes, on a view v of   *)
(* the documents: v.balance, v.active, v.txns.                             *)

(* Faulty: the claim forgets what earlier refunds have taken.              *)
ClaimMatchesAnew(v, m) ==
  v.txns[m.refundOf] # NoTxn /\ m.amountPaise <= v.txns[m.refundOf].amountPaise

ClaimMatches(v, m) ==
  LET original == v.txns[m.refundOf]
  IN  original # NoTxn /\ original.refundedPaise + m.amountPaise <= original.amountPaise

(* Faulty: the debit's filter has no balance, or no isActive, condition.   *)
DebitMatchesUnfunded(v, m) == v.active[m.from]
DebitMatchesInactive(v, m) == v.balance[m.from] >= m.amountPaise

DebitMatches(v, m) == v.active[m.from] /\ v.balance[m.from] >= m.amountPaise

CreditMatches(v, m) == v.active[m.to]

(* Faulty: the claim sets what it computed from the copy.                  *)
ClaimedFromCopy(m) ==
  [txns EXCEPT ![m.refundOf].refundedPaise = m.seen + m.amountPaise]

(* The claim's $inc and $set: the status is computed from the stale copy.  *)
Claimed(m) ==
  [txns EXCEPT ![m.refundOf].refundedPaise = @ + m.amountPaise,
               ![m.refundOf].status =
                 IF m.seen + m.amountPaise = txns[m.refundOf].amountPaise
                 THEN "REVERSED" ELSE "SUCCESS"]

(* The order of the writes: a claim, a debit, a credit, the records.       *)
AfterDebit(m) == IF m.to # NoUser THEN "credit" ELSE "record"
AfterClaim(m) == IF m.from # NoUser THEN "debit" ELSE AfterDebit(m)
FirstWrite(m) == IF m.type = "REFUND" THEN "claim" ELSE AfterClaim(m)

(* postTransaction, after the commit: the receiver's notification event.   *)
Notifies(m) == m.to # NoUser /\ m.type # "ADD_MONEY"

Finish(c) ==
  /\ pc[c] = "committed"
  /\ pc' = [pc EXCEPT ![c] = "done"]
  /\ req' = [req EXCEPT ![c] = NoReq]
  /\ emitted' = [emitted EXCEPT ![c] = IF Notifies(req[c]) THEN @ + 1 ELSE @]
  /\ UNCHANGED money

(* invalidateForUsers or User.findById throws after the commit, or the     *)
(* process dies there: no event, and no word of success, for money that    *)
(* has moved.                                                              *)
FailCommitted(c) ==
  /\ pc[c] = "committed"
  /\ pc' = [pc EXCEPT ![c] = "failed"]
  /\ req' = [req EXCEPT ![c] = NoReq]
  /\ UNCHANGED <<money, emitted>>

(* No call is under way.                                                   *)
AllAnswered == \A c \in Calls : pc[c] \in Terminal \cup {"idle"}

PostingsTypeOK ==
  /\ balance \in [Users -> Int]
  /\ active \in [Users -> BOOLEAN]
  /\ ledger \in [Users -> Int]
  /\ books \in [{"DEBIT", "CREDIT"} -> Nat]
  /\ txns \in [Calls -> Transactions \cup {NoTxn}]
  /\ req \in [Calls -> Requests \cup {NoReq}]
  /\ emitted \in [Calls -> Nat]
==============================================================================
