----------------------------- MODULE AtomicLedger -----------------------------
(***************************************************************************)
(* What src/services/ledgerService.js promises its callers: a posting      *)
(* happens at one instant or not at all.  At that instant the debited      *)
(* wallet has the money, both wallets are active, the balances move by     *)
(* what the two ledger entries say, and a refund takes no more than what   *)
(* is left of the transfer it refunds.                                     *)
(***************************************************************************)
EXTENDS LedgerEntries

CONSTANTS Calls,     \* calls of postTransaction; a call names the Transaction it creates
          NoTxn,     \* no such document
          MaxPaise,  \* the largest amount a request may name
          Opening    \* the opening balance each wallet was credited at registration

VARIABLES balance,   \* User.balancePaise
          active,    \* User.isActive
          ledger,    \* per wallet: credits minus debits of its LedgerEntry documents
          books,     \* all DEBIT and all CREDIT entries since the openings, summed
          txns       \* Transaction documents by the call that created them

vars == <<balance, active, ledger, books, txns>>

Movement(type, paise, from, to, of) ==
  [type |-> type, amountPaise |-> paise, from |-> from, to |-> to, refundOf |-> of]

Init ==
  /\ balance = Opening
  /\ active = [u \in Users |-> TRUE]
  /\ ledger = Opening
  /\ books = [DEBIT |-> 0, CREDIT |-> 0]
  /\ txns = [c \in Calls |-> NoTxn]

Paid(m)     == m.from \in Users => active[m.from] /\ balance[m.from] >= m.amountPaise
Received(m) == m.to \in Users => active[m.to]

(* What the refunded transfer must look like when the refund happens.      *)
Refundable(m) ==
  IF m.type # "REFUND" THEN m.refundOf = NoTxn
  ELSE LET original == txns[m.refundOf]
       IN  /\ m.refundOf \in Calls
           /\ original # NoTxn
           /\ original.type = "TRANSFER"
           /\ m.from = original.receiver /\ m.to = original.sender
           /\ original.refundedPaise + m.amountPaise <= original.amountPaise

(* A refund that closes the transfer may mark it REVERSED; none other may. *)
Records(c, m) ==
  \E mark \in {"SUCCESS", "REVERSED"} :
    /\ mark = "REVERSED" =>
         /\ m.type = "REFUND"
         /\ txns[m.refundOf].refundedPaise + m.amountPaise = txns[m.refundOf].amountPaise
    /\ txns' = [t \in Calls |->
                  IF t = c THEN TxnDoc(m)
                  ELSE IF t = m.refundOf
                  THEN [txns[t] EXCEPT !.refundedPaise = @ + m.amountPaise, !.status = mark]
                  ELSE txns[t]]

Post(c, m) ==
  /\ txns[c] = NoTxn
  /\ WellFormed(m) /\ Postable(m)
  /\ Paid(m) /\ Received(m) /\ Refundable(m)
  /\ Records(c, m)
  /\ LET entries == BuildEntries(m)
     IN  /\ balance' = [u \in Users |-> balance[u] + NetForAccount(entries, u)]
         /\ ledger' = [u \in Users |-> ledger[u] + NetForAccount(entries, u)]
         /\ books' = [d \in {"DEBIT", "CREDIT"} |-> books[d] + SideTotal(entries, d)]
  /\ UNCHANGED active

Deactivate(u) ==
  /\ active' = [active EXCEPT ![u] = FALSE]
  /\ UNCHANGED <<balance, ledger, books, txns>>

Move(c, paise) ==
  \/ \E u, v \in Users : Post(c, Movement("TRANSFER", paise, u, v, NoTxn))
  \/ \E u \in Users, type \in {"WITHDRAW", "BILL_PAY"} :
       Post(c, Movement(type, paise, u, NoUser, NoTxn))
  \/ \E u \in Users : Post(c, Movement("ADD_MONEY", paise, NoUser, u, NoTxn))
  \/ \E o \in Calls : txns[o] # NoTxn
       /\ Post(c, Movement("REFUND", paise, txns[o].receiver, txns[o].sender, o))

(* A posting creates its document, once; every other step moves nothing.   *)
Creates(c) == txns[c] = NoTxn /\ txns'[c] # NoTxn

Next ==
  \/ \E c \in Calls : Creates(c) /\ \E paise \in 1..MaxPaise : Move(c, paise)
  \/ \E u \in Users : Deactivate(u)

Spec == Init /\ [][Next]_vars
==============================================================================
