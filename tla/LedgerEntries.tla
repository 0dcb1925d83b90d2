---------------------------- MODULE LedgerEntries ----------------------------
(***************************************************************************)
(* src/services/ledgerEntries.js: which account a money movement debits    *)
(* and which it credits.  Pure definitions, shared by the specification    *)
(* of what a posting promises and by its two implementations.              *)
(*                                                                         *)
(* A movement m is a record with m.type, m.amountPaise, m.from and m.to;   *)
(* m.from or m.to is NoUser where the code has a null user id.  The pair   *)
(* (account: null, externalAccount: X) of an entry is the account X.       *)
(***************************************************************************)
EXTENDS Integers, Sequences

CONSTANTS Users,    \* the wallets (User documents)
          NoUser    \* a party that is not a wallet

ASSUME AccountsAssumption ==
  /\ NoUser \notin Users
  /\ Users \cap {"BANK", "BILLER"} = {}

Types == {"TRANSFER", "REFUND", "ADD_MONEY", "WITHDRAW", "BILL_PAY"}

Accounts == Users \cup {"BANK", "BILLER"}

Debit(account, paise)  == [account |-> account, direction |-> "DEBIT",  amountPaise |-> paise]
Credit(account, paise) == [account |-> account, direction |-> "CREDIT", amountPaise |-> paise]

(* buildEntries throws on a movement that is not buildable.                *)
Buildable(m) ==
  /\ m.type \in Types
  /\ m.amountPaise \in Nat \ {0}
  /\ m.type \in {"TRANSFER", "REFUND", "WITHDRAW", "BILL_PAY"} => m.from \in Users
  /\ m.type \in {"TRANSFER", "REFUND", "ADD_MONEY"} => m.to \in Users

(* Faulty: a refund is drawn from the bank, as a top-up is.                *)
DebitedAccountAsTopUp(m) == IF m.type \in {"ADD_MONEY", "REFUND"} THEN "BANK" ELSE m.from

DebitedAccount(m) == IF m.type = "ADD_MONEY" THEN "BANK" ELSE m.from

CreditedAccount(m) ==
  IF m.type = "WITHDRAW" THEN "BANK" ELSE IF m.type = "BILL_PAY" THEN "BILLER" ELSE m.to

BuildEntries(m) ==
  <<Debit(DebitedAccount(m), m.amountPaise), Credit(CreditedAccount(m), m.amountPaise)>>

(* The paise an entry adds to one side of the books.                       *)
OnSide(entry, direction) == IF entry.direction = direction THEN entry.amountPaise ELSE 0

(* The sums that assertBalanced compares: a plan always has two entries.   *)
SideTotal(entries, direction) == OnSide(entries[1], direction) + OnSide(entries[2], direction)

AssertBalanced(entries) == SideTotal(entries, "DEBIT") = SideTotal(entries, "CREDIT")

(* What an entry is worth to one account, credits positive.                *)
Signed(entry, account) ==
  IF entry.account = account THEN OnSide(entry, "CREDIT") - OnSide(entry, "DEBIT") ELSE 0

NetForAccount(entries, account) == Signed(entries[1], account) + Signed(entries[2], account)

(* postTransaction also refuses a movement whose two sides are one wallet. *)
Postable(m) ==
  /\ Buildable(m)
  /\ AssertBalanced(BuildEntries(m))
  /\ ~(m.from \in Users /\ m.from = m.to)

(* The movements the callers of postTransaction make: they name a wallet   *)
(* on a side exactly when buildEntries has an entry for it.                *)
WellFormed(m) ==
  /\ Buildable(m)
  /\ m.type = "ADD_MONEY" => m.from = NoUser
  /\ m.type \in {"WITHDRAW", "BILL_PAY"} => m.to = NoUser

(* The Transaction document of a movement (a row of models/Transaction.js). *)
TxnDoc(m) ==
  [type |-> m.type, amountPaise |-> m.amountPaise, sender |-> m.from, receiver |-> m.to,
   refundOf |-> m.refundOf, refundedPaise |-> 0, status |-> "SUCCESS"]
==============================================================================
