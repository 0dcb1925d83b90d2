------------------------------ MODULE SplitBills ------------------------------
(***************************************************************************)
(* src/controllers/splitBillController.js: a bill is shared out in whole   *)
(* paise, and each participant settles with the creator.  Bills do not     *)
(* touch one another, so there is one.                                     *)
(*                                                                         *)
(* settleMyShare decides on the copy it loaded before the money moved; its *)
(* save() writes the caller's own element of participants, and the bill's  *)
(* status only if that copy reads settled.  postTransaction is one step,   *)
(* as AtomicLedger has it, which the ledger may refuse.                    *)
(***************************************************************************)
EXTENDS Integers, SequencesExt

CONSTANTS Users,      \* accounts
          Creator,    \* the account that creates the bill
          Settlers,   \* calls of settleMyShare
          NoSettler,  \* a share without a transaction
          MaxPaise    \* bound: the largest bill

ASSUME SplitAssumption ==
  /\ IsFiniteSet(Users) /\ Creator \in Users
  /\ NoSettler \notin Settlers
  /\ MaxPaise \in Nat

VARIABLES bill,         \* the SplitBill document, NoBill before it is created
          settlements,  \* per user, the calls that moved money for the bill
          stage,        \* where each call is
          copy          \* whose share each call settles, and the statuses it loaded

billVars == <<bill, settlements, stage, copy>>

NoBill == [status |-> "none"]
NoCopy == [user |-> NoSettler]

(* Faulty: the remainder is lost.                                          *)
SplitPaiseRoundedDown(totalPaise, count) == [i \in 1..count |-> totalPaise \div count]

(* utils/money.js: the remainder goes, one paisa each, to the first shares. *)
SplitPaise(totalPaise, count) ==
  [i \in 1..count |-> totalPaise \div count + IF i <= totalPaise % count THEN 1 ELSE 0]

BillInit ==
  /\ bill = NoBill
  /\ settlements = [u \in Users |-> {}]
  /\ stage = [c \in Settlers |-> "idle"]
  /\ copy = [c \in Settlers |-> NoCopy]

(* The creator, if included, comes first and has paid.                     *)
CreateSplitBill ==
  /\ bill = NoBill
  /\ \E totalPaise \in 1..MaxPaise, includeSelf \in BOOLEAN,
        others \in SUBSET (Users \ {Creator}) \ {{}} : \E otherIds \in SetToSeqs(others) :
       LET ids == IF includeSelf THEN <<Creator>> \o otherIds ELSE otherIds
           shares == SplitPaise(totalPaise, Len(ids))
           place == [u \in ToSet(ids) |-> CHOOSE i \in DOMAIN ids : ids[i] = u]
       IN  /\ Len(ids) >= 2
           /\ bill' = [status |-> "OPEN", totalPaise |-> totalPaise,
                       share |-> [u \in ToSet(ids) |-> shares[place[u]]],
                       paid |-> [u \in ToSet(ids) |-> u = Creator],
                       transaction |-> [u \in ToSet(ids) |-> NoSettler]]
  /\ UNCHANGED <<settlements, stage, copy>>

Participants == IF bill = NoBill THEN {} ELSE DOMAIN bill.share

(* settleMyShare, up to postTransaction: the copy is loaded and checked.   *)
LoadBill(c, user) ==
  /\ stage[c] = "idle"
  /\ user \in Participants \ {Creator}
  /\ ~bill.paid[user]
  /\ stage' = [stage EXCEPT ![c] = "loaded"]
  /\ copy' = [copy EXCEPT ![c] = [user |-> user, paid |-> bill.paid]]
  /\ UNCHANGED <<bill, settlements>>

(* A share of nothing is not buildable; the ledger may refuse any other.   *)
PayShare(c) ==
  /\ stage[c] = "loaded"
  /\ \/ /\ bill.share[copy[c].user] > 0
        /\ settlements' = [settlements EXCEPT ![copy[c].user] = @ \cup {c}]
        /\ stage' = [stage EXCEPT ![c] = "paid"]
     \/ stage' = [stage EXCEPT ![c] = "refused"] /\ UNCHANGED settlements
  /\ UNCHANGED <<bill, copy>>

(* Faulty: the bill is looked over before the caller's share is marked.    *)
MarkedLate(c) == copy[c].paid

(* The copy of call c, with the caller's own share marked PAID.            *)
Marked(c) == [copy[c].paid EXCEPT ![copy[c].user] = TRUE]

(* Faulty: the whole list of participants is written back from the copy;   *)
(* the bill is settled by its last participant, whoever has not paid.      *)
SaveCopy(c) ==
  /\ stage[c] = "paid"
  /\ bill' = [bill EXCEPT !.paid = Marked(c), !.transaction[copy[c].user] = c,
                          !.status = IF \A u \in Participants : Marked(c)[u] THEN "SETTLED" ELSE @]
  /\ stage' = [stage EXCEPT ![c] = "done"]
  /\ UNCHANGED <<settlements, copy>>
SaveSettled(c) ==
  /\ stage[c] = "paid"
  /\ bill' = [bill EXCEPT !.paid[copy[c].user] = TRUE, !.transaction[copy[c].user] = c,
                          !.status = "SETTLED"]
  /\ stage' = [stage EXCEPT ![c] = "done"]
  /\ UNCHANGED <<settlements, copy>>

Save(c) ==
  /\ stage[c] = "paid"
  /\ bill' = [bill EXCEPT !.paid[copy[c].user] = TRUE, !.transaction[copy[c].user] = c,
                          !.status = IF \A u \in Participants : Marked(c)[u] THEN "SETTLED" ELSE @]
  /\ stage' = [stage EXCEPT ![c] = "done"]
  /\ UNCHANGED <<settlements, copy>>

CrashSettling(c) ==
  /\ stage[c] \in {"loaded", "paid"}
  /\ stage' = [stage EXCEPT ![c] = "crashed"]
  /\ UNCHANGED <<bill, settlements, copy>>

(* Every call has ended, or nobody has a share left to settle.             *)
Settled ==
  /\ \A c \in Settlers : stage[c] \notin {"loaded", "paid"}
  /\ \/ \A c \in Settlers : stage[c] # "idle"
     \/ bill # NoBill /\ \A u \in Participants \ {Creator} : bill.paid[u]
  /\ UNCHANGED billVars

BillNext ==
  \/ CreateSplitBill
  \/ \E c \in Settlers, user \in Users : LoadBill(c, user)
  \/ \E c \in Settlers : PayShare(c) \/ Save(c) \/ CrashSettling(c)
  \/ Settled

BillSpec == BillInit /\ [][BillNext]_billVars

-------------------------------------------------------------------------------
(* The shares add up to the bill, no paisa lost or invented, and no one    *)
(* owes over a paisa more than another (splitPaise, as createSplitBill     *)
(* deals its shares out).                                                  *)
SharesSumToTotal ==
  bill # NoBill =>
    /\ SumFunction(bill.share) = bill.totalPaise
    /\ \A u, v \in Participants : bill.share[u] <= bill.share[v] + 1

(* A bill that reads SETTLED has been paid by everyone who owes a share,   *)
(* and every share marked PAID names a payment made for it, whatever the   *)
(* copies the settlers decided on.                                         *)
SettledMeansPaid ==
  bill # NoBill =>
    /\ bill.status = "SETTLED" => \A u \in Participants : bill.paid[u]
    /\ \A u \in Participants \ {Creator} : bill.paid[u] => bill.transaction[u] \in settlements[u]

(* No settlement undoes another's: a share once marked PAID stays so.      *)
PaidStaysPaid ==
  [][\A u \in Participants : bill.paid[u] => bill'.paid[u]]_billVars

(* A share whose payment has been saved is not payable again, whatever     *)
(* the settlements that overlapped wrote over the bill: paying it twice    *)
(* takes a call that loaded it before, or one that died before its save.   *)
SettledShareIsNotPayable ==
  bill # NoBill =>
    \A u \in Participants : (\E c \in settlements[u] : stage[c] = "done") => bill.paid[u]

(* A bill whose shares are all PAID is left OPEN only by two settlements   *)
(* that overlapped: each loaded the bill before the other was saved.       *)
LeftOpenOnlyByRace ==
  bill # NoBill /\ bill.status = "OPEN" /\ (\A u \in Participants : bill.paid[u]) =>
    \E c, d \in Settlers :
      /\ stage[c] = "done" /\ stage[d] = "done" /\ copy[c].user # copy[d].user
      /\ ~copy[c].paid[copy[d].user] /\ ~copy[d].paid[copy[c].user]
===============================================================================
