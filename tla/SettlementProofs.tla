--------------------------- MODULE SettlementProofs ---------------------------
(***************************************************************************)
(* SplitBills, for any finite set of accounts, any calls and any bill, and *)
(* PaymentRequests, for any requests and calls: what handlers that work on *)
(* copies can do to a bill, or to a request that has been answered.        *)
(***************************************************************************)
EXTENDS SplitBills, PaymentRequests, Sums

USE SplitAssumption

Bills(P) ==
  [status : {"OPEN", "SETTLED"}, totalPaise : 1..MaxPaise, share : [P -> Int],
   paid : [P -> BOOLEAN], transaction : [P -> Settlers \cup {NoSettler}]]

Debtors == Participants \ {Creator}

BillOK ==
  bill # NoBill =>
    /\ Participants \subseteq Users /\ Debtors # {}
    /\ bill \in Bills(Participants)
    /\ Creator \in Participants => bill.paid[Creator]

(* A copy is of the bill as it was: whom it shows as paid has paid.        *)
CallOK(c) ==
  stage[c] # "idle" =>
    /\ bill # NoBill
    /\ copy[c] \in [user : Debtors, paid : [Participants -> BOOLEAN]]
    /\ \A u \in Participants : copy[c].paid[u] => bill.paid[u]
    /\ Creator \in Participants => copy[c].paid[Creator]
    /\ stage[c] \in {"paid", "done"} => c \in settlements[copy[c].user]
    /\ stage[c] = "done" => bill.paid[copy[c].user]

(* A share is marked PAID by a call that has ended.                        *)
PaidBySomeone ==
  \A u \in Debtors : bill.paid[u] => \E c \in Settlers : stage[c] = "done" /\ copy[c].user = u

(* The inductive invariant.                                                *)
IInv ==
  /\ settlements \in [Users -> SUBSET Settlers]
  /\ stage \in [Settlers -> {"idle", "loaded", "paid", "done", "refused", "crashed"}]
  /\ \A c \in Settlers : stage[c] = "idle" => copy[c] = NoCopy
  /\ DOMAIN copy = Settlers
  /\ BillOK
  /\ \A c \in Settlers : CallOK(c)
  /\ PaidBySomeone
  /\ SettledMeansPaid
  /\ LeftOpenOnlyByRace

-------------------------------------------------------------------------------
(* It holds initially: there is no bill.                                   *)
LEMMA InitIInv == BillInit => IInv
  <1> SUFFICES ASSUME BillInit PROVE IInv
    OBVIOUS
  <1>1. BillOK /\ PaidBySomeone /\ SettledMeansPaid /\ LeftOpenOnlyByRace
    BY DEF BillInit, BillOK, PaidBySomeone, Debtors, Participants, SettledMeansPaid, LeftOpenOnlyByRace
  <1>2. \A c \in Settlers : CallOK(c)
    BY DEF BillInit, CallOK
  <1>3. QED
    BY <1>1, <1>2 DEF BillInit, IInv

(* The order in which createSplitBill lists the participants.              *)
LEMMA Listed ==
  ASSUME NEW others \in SUBSET (Users \ {Creator}), NEW otherIds \in SetToSeqs(others)
  PROVE  otherIds \in Seq(others)
  <1>1. IsFiniteSet(others)
    BY FS_Subset
  <1>2. Cardinality(others) \in Nat
    BY <1>1, FS_CardinalityType
  <1>3. otherIds \in [1..Cardinality(others) -> others]
    BY DEF SetToSeqs
  <1>4. QED
    BY <1>2, <1>3

(* splitPaise deals out as many shares as it is asked for, in whole paise. *)
LEMMA SharesAreInts ==
  ASSUME NEW totalPaise \in Nat, NEW count \in Nat \ {0}
  PROVE  SplitPaise(totalPaise, count) \in [1..count -> Int]
BY DEF SplitPaise

(* The bill that createSplitBill makes of a list of participants.          *)
NewBill(ids, totalPaise) ==
  LET shares == SplitPaise(totalPaise, Len(ids))
      place == [u \in ToSet(ids) |-> CHOOSE i \in DOMAIN ids : ids[i] = u]
  IN  [status |-> "OPEN", totalPaise |-> totalPaise,
       share |-> [u \in ToSet(ids) |-> shares[place[u]]],
       paid |-> [u \in ToSet(ids) |-> u = Creator],
       transaction |-> [u \in ToSet(ids) |-> NoSettler]]

(* The bill that is created has a debtor, and only the creator has paid.   *)
LEMMA CreateIInv == IInv /\ CreateSplitBill => IInv'
  <1> SUFFICES ASSUME IInv, CreateSplitBill PROVE IInv'
    OBVIOUS
  <1>1. PICK totalPaise \in 1..MaxPaise, includeSelf \in BOOLEAN,
             others \in SUBSET (Users \ {Creator}) \ {{}} :
          \E otherIds \in SetToSeqs(others) :
            LET ids == IF includeSelf THEN <<Creator>> \o otherIds ELSE otherIds
            IN  Len(ids) >= 2 /\ bill' = NewBill(ids, totalPaise)
    BY DEF CreateSplitBill, NewBill
  <1>2. PICK otherIds \in SetToSeqs(others) :
          LET ids == IF includeSelf THEN <<Creator>> \o otherIds ELSE otherIds
          IN  Len(ids) >= 2 /\ bill' = NewBill(ids, totalPaise)
    BY <1>1
  <1> DEFINE ids == IF includeSelf THEN <<Creator>> \o otherIds ELSE otherIds
             shares == SplitPaise(totalPaise, Len(ids))
             P == ToSet(ids)
             place == [u \in P |-> CHOOSE i \in DOMAIN ids : ids[i] = u]
             share == [u \in P |-> shares[place[u]]]
  <1>3. otherIds \in Seq(others) /\ ids \in Seq(Users) /\ Len(ids) >= 2
    BY <1>2, Listed
  <1>4. P \subseteq Users
    BY <1>3 DEF ToSet
  <1>5. P \ {Creator} # {}
    <2>1. ids[Len(ids)] \in others
      BY <1>3
    <2>2. ids[Len(ids)] \in P
      BY <1>3 DEF ToSet
    <2>3. QED
      BY <2>1, <2>2
  <1>6. ASSUME NEW u \in P PROVE place[u] \in 1..Len(ids)
    <2>1. DOMAIN ids = 1..Len(ids)
      BY <1>3
    <2>2. \E i \in DOMAIN ids : ids[i] = u
      BY DEF ToSet
    <2>3. place[u] = CHOOSE i \in DOMAIN ids : ids[i] = u
      OBVIOUS
    <2> HIDE DEF ids, place
    <2>4. QED
      BY <2>1, <2>2, <2>3
  <1>7. shares \in [1..Len(ids) -> Int]
    <2>1. Len(ids) \in Nat \ {0} /\ totalPaise \in Nat
      BY <1>3
    <2> HIDE DEF ids
    <2>2. QED
      BY <2>1, SharesAreInts
  <1>8. share \in [P -> Int]
    BY <1>6, <1>7
  <1> HIDE DEF ids, shares, place
  <1>9. bill' = [status |-> "OPEN", totalPaise |-> totalPaise, share |-> share,
                 paid |-> [u \in P |-> u = Creator], transaction |-> [u \in P |-> NoSettler]]
    BY <1>2 DEF ids, shares, place, NewBill
  <1> HIDE DEF share, P
  <1>10. bill' # NoBill /\ bill = NoBill
    BY <1>9 DEF NoBill, CreateSplitBill
  <1>11. Participants' = P /\ bill' \in Bills(P)
    BY <1>8, <1>9, <1>10 DEF Participants, Bills
  <1>12. BillOK'
    BY <1>4, <1>5, <1>9, <1>11 DEF BillOK, Debtors
  <1>13. \A c \in Settlers : CallOK(c)'
    BY <1>10 DEF IInv, CallOK, CreateSplitBill
  <1>14. \A u \in P \ {Creator} : ~bill'.paid[u]
    BY <1>9
  <1>15. PaidBySomeone' /\ SettledMeansPaid' /\ LeftOpenOnlyByRace'
    BY <1>5, <1>9, <1>11, <1>14 DEF PaidBySomeone, Debtors, SettledMeansPaid, LeftOpenOnlyByRace
  <1>16. QED
    BY <1>12, <1>13, <1>15 DEF IInv, CreateSplitBill

-------------------------------------------------------------------------------
(* A step that leaves the bill alone, ends no call and forgets no payment  *)
(* keeps what is said of the bill.                                         *)
LEMMA SameBill ==
  ASSUME IInv, bill' = bill, settlements' \in [Users -> SUBSET Settlers],
         \A u \in Users : settlements[u] \subseteq settlements'[u],
         \A c \in Settlers : stage[c] = "done" => stage'[c] = "done" /\ copy'[c] = copy[c]
  PROVE  BillOK' /\ PaidBySomeone' /\ SettledMeansPaid' /\ LeftOpenOnlyByRace'
  <1>1. Participants' = Participants /\ Debtors' = Debtors
    BY DEF Participants, Debtors
  <1>2. BillOK'
    BY <1>1 DEF IInv, BillOK, Bills
  <1>3. PaidBySomeone'
    BY <1>1 DEF IInv, PaidBySomeone
  <1>4. SettledMeansPaid'
    BY <1>1 DEF IInv, SettledMeansPaid, BillOK
  <1>5. LeftOpenOnlyByRace'
    BY <1>1 DEF IInv, LeftOpenOnlyByRace
  <1>6. QED
    BY <1>2, <1>3, <1>4, <1>5

(* What a call that is between its load and its end knows.                 *)
LEMMA AtWork ==
  ASSUME IInv, NEW c \in Settlers, stage[c] \in {"loaded", "paid"}
  PROVE  /\ bill # NoBill /\ bill \in Bills(Participants) /\ Participants \subseteq Users
         /\ copy[c] \in [user : Debtors, paid : [Participants -> BOOLEAN]]
         /\ copy[c].user \in Participants /\ copy[c].user # Creator
BY DEF IInv, BillOK, CallOK, Debtors

(* The save of one settlement, against the bill as it is by then.          *)
LEMMA SaveIInv == ASSUME IInv, NEW c \in Settlers, Save(c) PROVE IInv'
  <1> DEFINE user == copy[c].user
             all == \A u \in Participants : Marked(c)[u]
             newStatus == IF all THEN "SETTLED" ELSE bill.status
             paid == [bill.paid EXCEPT ![user] = TRUE]
             newTransaction == [bill.transaction EXCEPT ![user] = c]
  <1>1. /\ bill # NoBill /\ bill \in Bills(Participants) /\ Participants \subseteq Users
        /\ copy[c] \in [user : Debtors, paid : [Participants -> BOOLEAN]]
        /\ user \in Participants /\ user # Creator
    BY AtWork DEF Save
  <1>2. bill' = [bill EXCEPT !.paid = paid, !.transaction = newTransaction, !.status = newStatus]
    BY <1>1 DEF Save, Bills
  <1>3. /\ bill'.paid = paid /\ bill'.transaction = newTransaction /\ bill'.status = newStatus
        /\ bill'.share = bill.share /\ bill' \in Bills(Participants)
    <2>1. paid \in [Participants -> BOOLEAN] /\ newTransaction \in [Participants -> Settlers \cup {NoSettler}]
            /\ newStatus \in {"OPEN", "SETTLED"}
      BY <1>1 DEF Bills
    <2> HIDE DEF paid, newTransaction, newStatus
    <2>2. QED
      BY <1>1, <1>2, <2>1 DEF Bills
  <1>4. bill' # NoBill
    <2>1. bill'.status \in {"OPEN", "SETTLED"}
      BY <1>3 DEF Bills
    <2>2. QED
      BY <2>1 DEF NoBill
  <1>5. Participants' = Participants /\ Debtors' = Debtors
    BY <1>1, <1>3, <1>4 DEF Participants, Debtors
  <1>6. \A u \in Participants : bill'.paid[u] = (u = user \/ bill.paid[u])
    BY <1>1, <1>3 DEF Bills
  <1>7. \A u \in Participants : Marked(c)[u] = (u = user \/ copy[c].paid[u])
    BY <1>1 DEF Marked
  <1>8. /\ UNCHANGED <<settlements, copy>> /\ stage' = [stage EXCEPT ![c] = "done"] /\ stage[c] = "paid"
        /\ c \in settlements[user] /\ stage \in [Settlers -> {"idle", "loaded", "paid", "done", "refused", "crashed"}]
    BY DEF Save, IInv, CallOK
  <1> HIDE DEF user, all, newStatus, paid, newTransaction
  <1>9. BillOK'
    BY <1>3, <1>5, <1>6, <1>1 DEF IInv, BillOK, Bills
  <1>10. \A d \in Settlers : CallOK(d)'
    BY <1>4, <1>5, <1>6, <1>8 DEF IInv, CallOK, user, Debtors
  <1>11. PaidBySomeone'
    BY <1>5, <1>6, <1>8 DEF IInv, PaidBySomeone, Debtors, user
  <1>12. \A u \in Participants : Marked(c)[u] => bill'.paid[u]
    BY <1>6, <1>7, <1>8 DEF IInv, CallOK
  <1>13. SettledMeansPaid'
    <2>1. bill'.status = "SETTLED" => \A u \in Participants : bill'.paid[u]
      BY <1>1, <1>3, <1>6, <1>12 DEF IInv, SettledMeansPaid, newStatus, all
    <2>2. \A u \in Debtors : bill'.paid[u] => bill'.transaction[u] \in settlements'[u]
      <3> SUFFICES ASSUME NEW u \in Debtors, bill'.paid[u] PROVE bill'.transaction[u] \in settlements[u]
        BY <1>8
      <3>1. CASE u = user
        BY <1>1, <1>3, <1>8, <3>1 DEF newTransaction, Bills
      <3>2. CASE u # user
        BY <1>1, <1>3, <1>6, <3>2 DEF IInv, SettledMeansPaid, newTransaction, Bills, Debtors
      <3>3. QED
        BY <3>1, <3>2
    <2>3. QED
      BY <1>5, <2>1, <2>2 DEF SettledMeansPaid, Debtors
  <1>14. LeftOpenOnlyByRace'
    <2> SUFFICES ASSUME bill'.status = "OPEN", \A u \in Participants : bill'.paid[u]
                 PROVE  \E d, e \in Settlers :
                          /\ stage'[d] = "done" /\ stage'[e] = "done" /\ copy[d].user # copy[e].user
                          /\ ~copy[d].paid[copy[e].user] /\ ~copy[e].paid[copy[d].user]
      BY <1>5, <1>8 DEF LeftOpenOnlyByRace
    <2>1. bill.status = "OPEN" /\ ~all
      BY <1>3 DEF newStatus
    <2>2. CASE \A u \in Participants : bill.paid[u]
      BY <1>1, <1>8, <2>1, <2>2 DEF IInv, LeftOpenOnlyByRace
    <2>3. CASE ~bill.paid[user]
      <3>1. PICK u \in Participants : u # user /\ ~copy[c].paid[u]
        BY <1>7, <2>1 DEF all
      <3>2. u # Creator
        BY <1>8, <3>1 DEF IInv, CallOK
      <3>3. bill.paid[u]
        BY <1>6, <3>1
      <3>4. PICK d \in Settlers : stage[d] = "done" /\ copy[d].user = u
        BY <3>2, <3>3 DEF IInv, PaidBySomeone, Debtors
      <3>5. ~copy[d].paid[user]
        BY <1>1, <2>3, <3>4 DEF IInv, CallOK
      <3>6. stage'[c] = "done" /\ stage'[d] = "done" /\ copy[c].user = user
        BY <1>8, <3>4 DEF user
      <3>7. QED
        BY <3>1, <3>4, <3>5, <3>6
    <2>4. QED
      BY <1>1, <1>6, <2>2, <2>3
  <1>15. QED
    BY <1>8, <1>9, <1>10, <1>11, <1>13, <1>14 DEF IInv

-------------------------------------------------------------------------------
(* Every step of the calls preserves it.                                   *)
LEMMA NextIInv == IInv /\ [BillNext]_billVars => IInv'
  <1> SUFFICES ASSUME IInv, [BillNext]_billVars PROVE IInv'
    OBVIOUS
  <1>1. ASSUME NEW c \in Settlers, NEW user \in Users, LoadBill(c, user) PROVE IInv'
    <2>1. /\ user \in Debtors /\ bill # NoBill /\ bill \in Bills(Participants)
          /\ Creator \in Participants => bill.paid[Creator]
      BY <1>1 DEF LoadBill, Debtors, IInv, BillOK, Participants
    <2>2. Participants' = Participants /\ Debtors' = Debtors
      BY <1>1 DEF LoadBill, Participants, Debtors
    <2>3. copy'[c] = [user |-> user, paid |-> bill.paid] /\ stage'[c] = "loaded"
      BY <1>1 DEF LoadBill, IInv
    <2>4. CallOK(c)'
      BY <1>1, <2>1, <2>2, <2>3 DEF LoadBill, CallOK, Bills
    <2>5. \A d \in Settlers \ {c} : CallOK(d)'
      BY <1>1, <2>2 DEF LoadBill, IInv, CallOK
    <2>6. BillOK' /\ PaidBySomeone' /\ SettledMeansPaid' /\ LeftOpenOnlyByRace'
      BY <1>1, SameBill DEF LoadBill, IInv
    <2>7. QED
      BY <1>1, <2>4, <2>5, <2>6 DEF LoadBill, IInv
  <1>2. ASSUME NEW c \in Settlers, PayShare(c) PROVE IInv'
    <2>1. copy[c].user \in Users /\ Participants' = Participants /\ Debtors' = Debtors
      BY <1>2, AtWork DEF PayShare, Participants, Debtors
    <2>2. settlements' \in [Users -> SUBSET Settlers] /\ \A u \in Users : settlements[u] \subseteq settlements'[u]
      BY <1>2, <2>1 DEF PayShare, IInv
    <2>3. CallOK(c)'
      BY <1>2, <2>1 DEF PayShare, IInv, CallOK
    <2>4. \A d \in Settlers \ {c} : CallOK(d)'
      <3> SUFFICES ASSUME NEW d \in Settlers \ {c}, stage[d] # "idle" PROVE CallOK(d)'
        BY <1>2 DEF PayShare, IInv, CallOK
      <3>1. copy[d].user \in Users
        BY DEF IInv, CallOK, BillOK, Debtors
      <3>2. QED
        BY <1>2, <2>1, <2>2, <3>1 DEF PayShare, IInv, CallOK
    <2>5. BillOK' /\ PaidBySomeone' /\ SettledMeansPaid' /\ LeftOpenOnlyByRace'
      BY <1>2, <2>2, SameBill DEF PayShare, IInv
    <2>6. QED
      BY <1>2, <2>2, <2>3, <2>4, <2>5 DEF PayShare, IInv
  <1>3. ASSUME NEW c \in Settlers, CrashSettling(c) PROVE IInv'
    <2>1. Participants' = Participants /\ Debtors' = Debtors
      BY <1>3 DEF CrashSettling, Participants, Debtors
    <2>2. \A d \in Settlers : CallOK(d)'
      BY <1>3, <2>1 DEF CrashSettling, IInv, CallOK
    <2>3. BillOK' /\ PaidBySomeone' /\ SettledMeansPaid' /\ LeftOpenOnlyByRace'
      BY <1>3, SameBill DEF CrashSettling, IInv
    <2>4. QED
      BY <1>3, <2>2, <2>3 DEF CrashSettling, IInv
  <1>4. CASE UNCHANGED billVars
    <2>1. Participants' = Participants /\ Debtors' = Debtors
      BY <1>4 DEF billVars, Participants, Debtors
    <2>2. BillOK' /\ PaidBySomeone' /\ SettledMeansPaid' /\ LeftOpenOnlyByRace'
      BY <1>4, SameBill DEF billVars, IInv
    <2>3. \A d \in Settlers : CallOK(d)'
      BY <1>4, <2>1 DEF billVars, IInv, CallOK
    <2>4. QED
      BY <1>4, <2>2, <2>3 DEF billVars, IInv
  <1>5. QED
    BY <1>1, <1>2, <1>3, <1>4, CreateIInv, SaveIInv DEF BillNext, Settled

(* The inductive invariant holds of every behaviour.                       *)
LEMMA InductiveInvariant == BillSpec => []IInv
BY InitIInv, NextIInv, PTL DEF BillSpec

-------------------------------------------------------------------------------
(* A bill that reads SETTLED is paid by everyone who owes a share, by a    *)
(* payment made for that share, whatever copies the settlers decided on.   *)
THEOREM SettledIsPaid == BillSpec => []SettledMeansPaid
  <1>1. IInv => SettledMeansPaid
    BY DEF IInv
  <1>2. QED
    BY <1>1, InductiveInvariant, PTL

(* A paid-up bill that stays OPEN is the work of two settlements, neither  *)
(* of which had seen the other: one after the other always close it.       *)
THEOREM OnlyRacesLeaveOpen == BillSpec => []LeftOpenOnlyByRace
  <1>1. IInv => LeftOpenOnlyByRace
    BY DEF IInv
  <1>2. QED
    BY <1>1, InductiveInvariant, PTL

(* A payment for a share was made by a call that settles that share.       *)
PaysOwnShare == \A u \in Users : \A c \in settlements[u] : copy[c].user = u /\ stage[c] # "idle"

LEMMA PaymentsAreOwn == BillSpec => []PaysOwnShare
  <1>1. BillInit => PaysOwnShare
    BY DEF BillInit, PaysOwnShare
  <1>2. IInv /\ PaysOwnShare /\ [BillNext]_billVars => PaysOwnShare'
    <2> SUFFICES ASSUME IInv, PaysOwnShare, [BillNext]_billVars,
                        NEW u \in Users, NEW d \in settlements'[u]
                 PROVE  copy'[d].user = u /\ stage'[d] # "idle"
      BY DEF PaysOwnShare
    <2>1. IInv'
      BY NextIInv
    <2>2. d \in Settlers
      BY <2>1 DEF IInv
    <2> USE DEF IInv, PaysOwnShare
    <2>3. ASSUME NEW c \in Settlers, NEW user \in Users, LoadBill(c, user)
          PROVE  copy'[d].user = u /\ stage'[d] # "idle"
      BY <2>3, <2>2 DEF LoadBill
    <2>4. ASSUME NEW c \in Settlers, PayShare(c) PROVE copy'[d].user = u /\ stage'[d] # "idle"
      <3>1. d \in settlements[u] \/ (d = c /\ u = copy[c].user)
        BY <2>4 DEF PayShare
      <3>2. QED
        BY <2>4, <2>2, <3>1 DEF PayShare
    <2>5. ASSUME NEW c \in Settlers, Save(c) \/ CrashSettling(c) PROVE copy'[d].user = u /\ stage'[d] # "idle"
      BY <2>5, <2>2 DEF Save, CrashSettling
    <2>6. CASE CreateSplitBill \/ UNCHANGED billVars
      BY <2>6 DEF CreateSplitBill, billVars
    <2>7. QED
      BY <2>3, <2>4, <2>5, <2>6 DEF BillNext, Settled
  <1>3. QED
    BY <1>1, <1>2, InductiveInvariant, PTL DEF BillSpec

(* Whatever overlapping settlements write over the bill, a share whose     *)
(* payment has been saved is not payable again.                            *)
THEOREM SettledNeverPayable == BillSpec => []SettledShareIsNotPayable
  <1>1. IInv /\ PaysOwnShare => SettledShareIsNotPayable
    BY DEF IInv, PaysOwnShare, SettledShareIsNotPayable, CallOK, BillOK
  <1>2. QED
    BY <1>1, InductiveInvariant, PaymentsAreOwn, PTL

(* No settlement takes the PAID mark of another back.                      *)
THEOREM MarksStay == BillSpec => PaidStaysPaid
  <1> DEFINE Stay == \A u \in Participants : bill.paid[u] => bill'.paid[u]
  <1>1. IInv /\ [BillNext]_billVars => [Stay]_billVars
    <2> SUFFICES ASSUME IInv, BillNext, NEW u \in Participants, bill.paid[u] PROVE bill'.paid[u]
      OBVIOUS
    <2>1. ASSUME CreateSplitBill PROVE FALSE
      BY <2>1 DEF CreateSplitBill, Participants
    <2>2. ASSUME NEW c \in Settlers, Save(c) PROVE bill'.paid[u]
      BY <2>2, AtWork DEF Save, Bills
    <2>3. ASSUME NEW c \in Settlers, NEW user \in Users, LoadBill(c, user) PROVE bill'.paid[u]
      BY <2>3 DEF LoadBill
    <2>4. ASSUME NEW c \in Settlers, PayShare(c) \/ CrashSettling(c) PROVE bill'.paid[u]
      BY <2>4 DEF PayShare, CrashSettling
    <2>5. ASSUME Settled PROVE bill'.paid[u]
      BY <2>5 DEF Settled, billVars
    <2>6. QED
      BY <2>1, <2>2, <2>3, <2>4, <2>5 DEF BillNext
  <1>2. QED
    BY <1>1, InductiveInvariant, PTL DEF BillSpec, PaidStaysPaid

-------------------------------------------------------------------------------
(* What splitPaise deals out adds up, and differs by a paisa at most.      *)
LEMMA SplitAddsUp ==
  ASSUME NEW total \in Nat, NEW n \in Nat \ {0}
  PROVE  /\ SumFunctionOnSet(SplitPaise(total, n), 1..n) = total
         /\ \A i, j \in 1..n : SplitPaise(total, n)[i] <= SplitPaise(total, n)[j] + 1
  <1> DEFINE q == total \div n
             r == total % n
             base == [i \in 1..n |-> q]
             extra == [i \in 1..n |-> IF i <= r THEN 1 ELSE 0]
             dealt == SplitPaise(total, n)
             N == 1..n
             R == 1..r
  <1>1. q \in Int /\ r \in 0..n - 1 /\ total = n * q + r
    OBVIOUS
  <1> HIDE DEF q, r
  <1>2. \A i \in N : base[i] = q /\ extra[i] \in {0, 1} /\ dealt[i] = base[i] + extra[i]
    BY DEF SplitPaise, q, r
  <1>3. /\ \A i \in R : extra[i] = 1
        /\ \A i \in N \ R : extra[i] = 0
        /\ R \in SUBSET N
    BY <1>1
  <1>4. /\ IsFiniteSet(N) /\ Cardinality(N) = n
        /\ IsFiniteSet(R) /\ Cardinality(R) = r
    BY <1>1, FS_Interval
  <1>5. \A i \in N : base[i] = q /\ extra[i] \in Int /\ base[i] \in Int /\ dealt[i] = base[i] + extra[i]
    BY <1>1, <1>2
  <1> HIDE DEF base, extra, dealt, N, R
  <1>6. SumFunctionOnSet(base, N) = q * n
    BY <1>1, <1>4, <1>5, SumConst
  <1>7. SumFunctionOnSet(extra, R) = 1 * r
    BY <1>3, <1>4, SumConst
  <1>8. SumFunctionOnSet(extra, R) = SumFunctionOnSet(extra, N)
    BY <1>3, <1>4, <1>5, SumPart
  <1>9. SumFunctionOnSet(dealt, N) = SumFunctionOnSet(base, N) + SumFunctionOnSet(extra, N)
    BY <1>4, <1>5, SumPlus
  <1>10. \A i, j \in N : dealt[i] <= dealt[j] + 1
    BY <1>1, <1>5, <1>2 DEF N
  <1>11. q * n = n * q
    BY <1>1
  <1>12. QED
    BY <1>1, <1>6, <1>7, <1>8, <1>9, <1>10, <1>11 DEF dealt, N

(* No participant is listed twice.                                         *)
LEMMA ListedOnce ==
  ASSUME NEW others \in SUBSET (Users \ {Creator}), NEW otherIds \in SetToSeqs(others),
         NEW includeSelf \in BOOLEAN
  PROVE  LET ids == IF includeSelf THEN <<Creator>> \o otherIds ELSE otherIds
         IN  ids \in Seq(Users) /\ \A i, j \in 1..Len(ids) : ids[i] = ids[j] => i = j
  <1> DEFINE ids == IF includeSelf THEN <<Creator>> \o otherIds ELSE otherIds
  <1>1. otherIds \in Seq(others)
    BY Listed
  <1>2. \A i, j \in 1..Len(otherIds) : otherIds[i] = otherIds[j] => i = j
    <2>1. IsFiniteSet(others)
      BY FS_Subset
    <2>2. Cardinality(others) \in Nat
      BY <2>1, FS_CardinalityType
    <2>3. otherIds \in [1..Cardinality(others) -> others]
      BY DEF SetToSeqs
    <2>4. \A i, j \in 1..Cardinality(others) : i # j => otherIds[i] # otherIds[j]
      BY DEF SetToSeqs
    <2>5. Len(otherIds) = Cardinality(others)
      BY <1>1, <2>2, <2>3
    <2>6. QED
      BY <2>4, <2>5
  <1>3. CASE ~includeSelf
    BY <1>1, <1>2, <1>3
  <1>4. CASE includeSelf
    <2>1. ids = <<Creator>> \o otherIds /\ ids \in Seq(Users) /\ Len(ids) = Len(otherIds) + 1
      BY <1>1, <1>4
    <2>2. \A i \in 1..Len(ids) : ids[i] = IF i = 1 THEN Creator ELSE otherIds[i - 1]
      BY <1>1, <2>1
    <2>3. \A i \in 2..Len(ids) : i - 1 \in 1..Len(otherIds) /\ ids[i] = otherIds[i - 1] /\ ids[i] # Creator
      BY <1>1, <2>1, <2>2
    <2> HIDE DEF ids
    <2>4. ASSUME NEW i \in 1..Len(ids), NEW j \in 1..Len(ids), ids[i] = ids[j] PROVE i = j
      <3>1. CASE i = 1 \/ j = 1
        BY <1>1, <2>1, <2>2, <2>3, <2>4, <3>1
      <3>2. CASE i # 1 /\ j # 1
        BY <1>1, <1>2, <2>1, <2>3, <2>4, <3>2
      <3>3. QED
        BY <3>1, <3>2
    <2>5. QED
      BY <2>1, <2>4 DEF ids
  <1>5. QED
    BY <1>3, <1>4

(* Each participant gets the share of his place in the list.               *)
LEMMA NewBillAddsUp ==
  ASSUME NEW total \in Nat, NEW ids \in Seq(Users), Len(ids) >= 1,
         \A i, j \in 1..Len(ids) : ids[i] = ids[j] => i = j
  PROVE  /\ SumFunctionOnSet(NewBill(ids, total).share, ToSet(ids)) = total
         /\ \A u, v \in ToSet(ids) : NewBill(ids, total).share[u] <= NewBill(ids, total).share[v] + 1
  <1> DEFINE n == Len(ids)
             dealt == SplitPaise(total, n)
             place == [u \in ToSet(ids) |-> CHOOSE i \in DOMAIN ids : ids[i] = u]
             share == [u \in ToSet(ids) |-> dealt[place[u]]]
  <1>1. NewBill(ids, total).share = share
    BY DEF NewBill
  <1>2. n \in Nat \ {0} /\ DOMAIN ids = 1..n /\ ToSet(ids) = {ids[i] : i \in 1..n}
    BY DEF ToSet
  <1>3. ASSUME NEW i \in 1..n PROVE place[ids[i]] = i
    <2>1. ids[i] \in ToSet(ids) /\ i \in DOMAIN ids
      BY <1>2
    <2>2. place[ids[i]] \in DOMAIN ids /\ ids[place[ids[i]]] = ids[i]
      BY <2>1
    <2> HIDE DEF place
    <2>3. QED
      BY <1>2, <2>2
  <1>4. \A i \in 1..n : share[ids[i]] = dealt[i]
    <2>1. \A i \in 1..n : ids[i] \in ToSet(ids)
      BY <1>2
    <2> HIDE DEF place
    <2>2. QED
      BY <1>3, <2>1
  <1>5. \A i \in 1..n : dealt[i] \in Int
    BY <1>2, SharesAreInts
  <1>6. SumFunctionOnSet(dealt, 1..n) = total /\ \A i, j \in 1..n : dealt[i] <= dealt[j] + 1
    BY <1>2, SplitAddsUp
  <1>7. IsFiniteSet(1..n)
    BY <1>2, FS_Interval
  <1> HIDE DEF n, dealt, place, share
  <1>8. SumFunctionOnSet(share, {ids[i] : i \in 1..n}) = SumFunctionOnSet(dealt, 1..n)
    BY <1>4, <1>5, <1>7, SumIndexed, SMTT(30) DEF n
  <1>9. \A u, v \in ToSet(ids) : share[u] <= share[v] + 1
    BY <1>2, <1>4, <1>6
  <1>10. QED
    BY <1>1, <1>2, <1>6, <1>8, <1>9

(* The shares of a bill stay as they were dealt out.                       *)
LEMMA SharesStay ==
  ASSUME IInv, [BillNext]_billVars, bill # NoBill
  PROVE  bill'.share = bill.share /\ bill'.totalPaise = bill.totalPaise /\ bill' # NoBill
  <1>1. bill \in Bills(Participants)
    BY DEF IInv, BillOK
  <1>2. ASSUME NEW c \in Settlers, Save(c) PROVE bill'.share = bill.share /\ bill'.totalPaise = bill.totalPaise
    BY <1>1, <1>2 DEF Save, Bills
  <1>3. bill' = bill \/ \E c \in Settlers : Save(c)
    BY DEF BillNext, CreateSplitBill, LoadBill, PayShare, CrashSettling, Settled, billVars
  <1>4. bill' # NoBill
    <2>1. ASSUME NEW c \in Settlers, Save(c) PROVE bill' # NoBill
      BY <1>1, <2>1, NextIInv DEF Save, Bills, NoBill
    <2>2. QED
      BY <1>3, <2>1
  <1>5. QED
    BY <1>2, <1>3, <1>4

(* For any number of participants and any bill: the shares add up to it to *)
(* the paisa, and no one owes over a paisa more than another (splitPaise,  *)
(* as createSplitBill deals its shares out).                               *)
THEOREM SharesAddUp == BillSpec => []SharesSumToTotal
  <1> DEFINE Dealt ==
        bill # NoBill =>
          /\ SumFunctionOnSet(bill.share, Participants) = bill.totalPaise
          /\ \A u, v \in Participants : bill.share[u] <= bill.share[v] + 1
  <1>1. BillInit => Dealt
    BY DEF BillInit
  <1>2. IInv /\ Dealt /\ [BillNext]_billVars => Dealt'
    <2> SUFFICES ASSUME IInv, Dealt, [BillNext]_billVars PROVE Dealt'
      OBVIOUS
    <2>1. CASE bill # NoBill
      <3>1. Participants' = Participants
        BY <2>1, SharesStay DEF Participants
      <3>2. QED
        BY <2>1, <3>1, SharesStay
    <2>2. CASE bill = NoBill /\ ~CreateSplitBill
      <3>1. \A c \in Settlers : stage[c] \notin {"loaded", "paid"}
        BY <2>2 DEF IInv, CallOK
      <3>2. bill' = bill
        BY <2>2, <3>1 DEF BillNext, LoadBill, PayShare, Save, CrashSettling, Settled, billVars
      <3>3. QED
        BY <2>2, <3>2
    <2>3. CASE CreateSplitBill
      <3>1. PICK totalPaise \in 1..MaxPaise, includeSelf \in BOOLEAN,
                 others \in SUBSET (Users \ {Creator}) \ {{}} :
              \E otherIds \in SetToSeqs(others) :
                LET ids == IF includeSelf THEN <<Creator>> \o otherIds ELSE otherIds
                IN  Len(ids) >= 2 /\ bill' = NewBill(ids, totalPaise)
        BY <2>3 DEF CreateSplitBill, NewBill
      <3>2. PICK otherIds \in SetToSeqs(others) :
              LET ids == IF includeSelf THEN <<Creator>> \o otherIds ELSE otherIds
              IN  Len(ids) >= 2 /\ bill' = NewBill(ids, totalPaise)
        BY <3>1
      <3> DEFINE ids == IF includeSelf THEN <<Creator>> \o otherIds ELSE otherIds
      <3>3. /\ Len(ids) >= 2 /\ bill' = NewBill(ids, totalPaise)
            /\ ids \in Seq(Users) /\ \A i, j \in 1..Len(ids) : ids[i] = ids[j] => i = j
        BY <3>2, ListedOnce
      <3>4. totalPaise \in Nat
        OBVIOUS
      <3> HIDE DEF ids
      <3>5. bill'.totalPaise = totalPaise /\ DOMAIN bill'.share = ToSet(ids) /\ bill' # NoBill
        BY <3>3 DEF NewBill, NoBill
      <3>6. Participants' = ToSet(ids)
        BY <3>5 DEF Participants
      <3>7. QED
        BY <3>3, <3>4, <3>5, <3>6, NewBillAddsUp
    <2>4. QED
      BY <2>1, <2>2, <2>3
  <1>3. Dealt => SharesSumToTotal
    BY DEF SharesSumToTotal, Participants, SumFunction, FoldFunction, SumFunctionOnSet
  <1>4. QED
    BY <1>1, <1>2, <1>3, InductiveInvariant, PTL DEF BillSpec

-------------------------------------------------------------------------------
(* Payment requests.                                                       *)

(* A call that moved money did so for the request it works on, which it    *)
(* had read PENDING; from then on it has paid, for good.                   *)
WorkOK(c) ==
  /\ pc[c] # "idle" => call[c] # NoWork
  /\ pc[c] = "paid" => call[c].seen = "PENDING" /\ c \in payments[call[c].request]
  /\ \A r \in Requests : c \in payments[r] =>
       pc[c] \in {"paid", "done", "crashed"} /\ call[c].request = r

(* The inductive invariant.                                                *)
AskedInv ==
  /\ TypeOK
  /\ \A c \in Calls : WorkOK(c)
  /\ PaidIsNotPayable
  /\ AcceptedHasPayment

(* It holds initially: no request has been made, no call has started.     *)
LEMMA InitAskedInv == Init => AskedInv
  <1> SUFFICES ASSUME Init PROVE AskedInv
    OBVIOUS
  <1> USE DEF Init
  <1>1. TypeOK
    BY DEF TypeOK, Statuses
  <1>2. \A c \in Calls : WorkOK(c)
    BY DEF WorkOK
  <1>3. PaidIsNotPayable /\ AcceptedHasPayment
    BY DEF PaidIsNotPayable, AcceptedHasPayment
  <1>4. QED
    BY <1>1, <1>2, <1>3 DEF AskedInv

(* What a call that has started works on.                                  *)
LEMMA Work ==
  ASSUME AskedInv, NEW c \in Calls, pc[c] # "idle"
  PROVE  call[c] \in [kind : Kinds, request : Requests, seen : Statuses]
BY DEF AskedInv, TypeOK, WorkOK

(* A status that nobody has paid for yet, or that a sweep or a refusal     *)
(* sets, leaves the payments as they are.                                  *)
LEMMA StatusStep ==
  ASSUME AskedInv, UNCHANGED <<transaction, payments>>, TypeOK', \A c \in Calls : WorkOK(c)',
         \A r \in Requests : status'[r] = status[r] \/ status'[r] \in Final \ {"ACCEPTED"}
                               \/ (status[r] = "none" /\ status'[r] = "PENDING"),
         \A c \in Calls : pc'[c] = "done" /\ pc[c] # "done" => \A r \in Requests : c \notin payments[r]
  PROVE  AskedInv'
  <1>1. PaidIsNotPayable'
    BY DEF AskedInv, TypeOK, PaidIsNotPayable, Final
  <1>2. AcceptedHasPayment'
    BY DEF AskedInv, AcceptedHasPayment, Final
  <1>3. QED
    BY <1>1, <1>2 DEF AskedInv

(* Every step of the calls, the sweep and the clock preserves it.          *)
LEMMA NextAskedInv == AskedInv /\ [Next]_vars => AskedInv'
  <1> SUFFICES ASSUME AskedInv, [Next]_vars PROVE AskedInv'
    OBVIOUS
  <1> USE DEF AskedInv
  <1>1. ASSUME NEW r \in Requests, CreatePaymentRequest(r) PROVE AskedInv'
    <2>1. TypeOK'
      BY <1>1 DEF CreatePaymentRequest, TypeOK, Statuses
    <2>2. \A c \in Calls : WorkOK(c)'
      BY <1>1 DEF CreatePaymentRequest, WorkOK
    <2>3. QED
      BY <1>1, <2>1, <2>2, StatusStep DEF CreatePaymentRequest, TypeOK
  <1>2. ASSUME NEW r \in Requests, TimePasses(r) PROVE AskedInv'
    <2>1. TypeOK' /\ \A c \in Calls : WorkOK(c)'
      BY <1>2 DEF TimePasses, TypeOK, WorkOK
    <2>2. QED
      BY <1>2, <2>1, StatusStep DEF TimePasses
  <1>3. ASSUME NEW c \in Calls, NEW kind \in Kinds, NEW r \in Requests, Load(c, kind, r) PROVE AskedInv'
    <2>1. TypeOK'
      BY <1>3 DEF Load, TypeOK
    <2>2. \A r1 \in Requests : c \notin payments[r1]
      BY <1>3 DEF Load, WorkOK
    <2>3. WorkOK(c)'
      BY <1>3, <2>2 DEF Load, TypeOK, WorkOK, NoWork, Kinds
    <2>4. \A d \in Calls \ {c} : WorkOK(d)'
      BY <1>3 DEF Load, TypeOK, WorkOK
    <2>5. QED
      BY <1>3, <2>1, <2>3, <2>4, StatusStep DEF Load, TypeOK
  <1>4. ASSUME NEW c \in Calls, ExpireIfNeeded(c) PROVE AskedInv'
    <2>1. call[c] \in [kind : Kinds, request : Requests, seen : Statuses]
      BY <1>4, Work DEF ExpireIfNeeded
    <2>2. TypeOK'
      BY <1>4, <2>1 DEF ExpireIfNeeded, TypeOK, Statuses, Final
    <2>3. \A r1 \in Requests : c \notin payments[r1]
      BY <1>4 DEF ExpireIfNeeded, WorkOK
    <2>4. WorkOK(c)'
      BY <1>4, <2>1, <2>3 DEF ExpireIfNeeded, TypeOK, WorkOK, NoWork, Kinds
    <2>5. \A d \in Calls \ {c} : WorkOK(d)'
      BY <1>4 DEF ExpireIfNeeded, TypeOK, WorkOK
    <2>6. QED
      BY <1>4, <2>1, <2>2, <2>3, <2>4, <2>5, StatusStep DEF ExpireIfNeeded, TypeOK, Final
  <1>5. ASSUME NEW c \in Calls, AlreadySettled(c) PROVE AskedInv'
    <2>1. TypeOK'
      BY <1>5 DEF AlreadySettled, TypeOK
    <2>2. \A d \in Calls : WorkOK(d)'
      BY <1>5 DEF AlreadySettled, TypeOK, WorkOK
    <2>3. QED
      BY <1>5, <2>1, <2>2, StatusStep DEF AlreadySettled, TypeOK
  <1>6. ASSUME NEW c \in Calls, Pay(c) PROVE AskedInv'
    <2>1. call[c] \in [kind : Kinds, request : Requests, seen : Statuses]
      BY <1>6, Work DEF Pay
    <2>2. TypeOK'
      BY <1>6, <2>1 DEF Pay, TypeOK
    <2>3. \A r1 \in Requests : c \notin payments[r1]
      BY <1>6 DEF Pay, WorkOK
    <2>4. WorkOK(c)'
      BY <1>6, <2>1, <2>3 DEF Pay, TypeOK, WorkOK
    <2>5. \A d \in Calls \ {c} : WorkOK(d)'
      BY <1>6, <2>1 DEF Pay, TypeOK, WorkOK
    <2>6. PaidIsNotPayable' /\ AcceptedHasPayment'
      BY <1>6, <2>1 DEF Pay, TypeOK, PaidIsNotPayable, AcceptedHasPayment
    <2>7. QED
      BY <2>2, <2>4, <2>5, <2>6
  <1>7. ASSUME NEW c \in Calls, SaveAccepted(c) PROVE AskedInv'
    <2>1. call[c] \in [kind : Kinds, request : Requests, seen : Statuses]
      BY <1>7, Work DEF SaveAccepted
    <2>2. TypeOK'
      BY <1>7, <2>1 DEF SaveAccepted, TypeOK, Statuses, Final
    <2>3. \A d \in Calls : WorkOK(d)'
      BY <1>7 DEF SaveAccepted, TypeOK, WorkOK
    <2>4. c \in payments[call[c].request] /\ \A r1 \in Requests : c \in payments[r1] => r1 = call[c].request
      BY <1>7 DEF SaveAccepted, WorkOK
    <2>5. PaidIsNotPayable'
      BY <1>7, <2>1, <2>4 DEF SaveAccepted, TypeOK, PaidIsNotPayable, Final
    <2>6. AcceptedHasPayment'
      BY <1>7, <2>1, <2>4 DEF SaveAccepted, TypeOK, AcceptedHasPayment
    <2>7. QED
      BY <2>2, <2>3, <2>5, <2>6
  <1>8. ASSUME NEW c \in Calls, SaveRefusal(c) PROVE AskedInv'
    <2>1. call[c] \in [kind : Kinds, request : Requests, seen : Statuses]
      BY <1>8, Work DEF SaveRefusal
    <2>2. TypeOK'
      BY <1>8, <2>1 DEF SaveRefusal, TypeOK, Statuses, Final
    <2>3. \A r1 \in Requests : c \notin payments[r1]
      BY <1>8 DEF SaveRefusal, WorkOK
    <2>4. \A d \in Calls : WorkOK(d)'
      BY <1>8, <2>3 DEF SaveRefusal, TypeOK, WorkOK
    <2>5. QED
      BY <1>8, <2>1, <2>2, <2>3, <2>4, StatusStep DEF SaveRefusal, TypeOK, Final
  <1>9. ASSUME NEW c \in Calls, Crash(c) PROVE AskedInv'
    <2>1. TypeOK'
      BY <1>9 DEF Crash, TypeOK
    <2>2. \A d \in Calls : WorkOK(d)'
      BY <1>9 DEF Crash, TypeOK, WorkOK
    <2>3. QED
      BY <1>9, <2>1, <2>2, StatusStep DEF Crash, TypeOK
  <1>10. ASSUME ExpireStalePaymentRequests PROVE AskedInv'
    <2>1. TypeOK'
      BY <1>10 DEF ExpireStalePaymentRequests, TypeOK, Statuses, Final
    <2>2. \A d \in Calls : WorkOK(d)'
      BY <1>10 DEF ExpireStalePaymentRequests, WorkOK
    <2>3. QED
      BY <1>10, <2>1, <2>2, StatusStep DEF ExpireStalePaymentRequests, TypeOK, Final
  <1>11. CASE UNCHANGED vars
    BY <1>11 DEF vars, TypeOK, WorkOK, PaidIsNotPayable, AcceptedHasPayment
  <1>12. QED
    BY <1>1, <1>2, <1>3, <1>4, <1>5, <1>6, <1>7, <1>8, <1>9, <1>10, <1>11 DEF Next, Answered

(* The inductive invariant holds of every behaviour.                       *)
LEMMA AskedInvariant == Spec => []AskedInv
  <1>1. QED
    BY InitAskedInv, NextAskedInv, PTL DEF Spec

(* Every variable keeps its type (the documents of models/PaymentRequest.js *)
(* and the calls of paymentRequestController.js).                          *)
THEOREM RequestsTypeCorrect == Spec => []TypeOK
  <1>1. AskedInv => TypeOK
    BY DEF AskedInv
  <1>2. QED
    BY <1>1, AskedInvariant, PTL

(* Once a call that paid a request has ended, no handler finds the request *)
(* PENDING any more, whatever late writers have made of its status.        *)
THEOREM PaidNeverPayable == Spec => []PaidIsNotPayable
  <1>1. AskedInv => PaidIsNotPayable
    BY DEF AskedInv
  <1>2. QED
    BY <1>1, AskedInvariant, PTL

(* A request that reads ACCEPTED names a transfer that was made for it.    *)
THEOREM AcceptedWasPaid == Spec => []AcceptedHasPayment
  <1>1. AskedInv => AcceptedHasPayment
    BY DEF AskedInv
  <1>2. QED
    BY <1>1, AskedInvariant, PTL

(* What an answered request can suffer, and from whom: only a call that    *)
(* had read it PENDING, and the sweep never, changes its status.           *)
THEOREM OnlyLateWriters == Spec => OnlyLateWritersOverwrite
  <1> DEFINE Overwrites ==
        \A r \in Requests : status[r] \in Final /\ status'[r] # status[r] =>
          \E c \in Calls : /\ pc[c] \in {"loaded", "checked", "paid"} /\ pc'[c] # pc[c]
                           /\ call[c].request = r /\ call[c].seen = "PENDING"
  <1>1. AskedInv /\ [Next]_vars => [Overwrites]_(vars)
    <2> SUFFICES ASSUME AskedInv, Next, NEW r \in Requests, status[r] \in Final, status'[r] # status[r]
                 PROVE  \E c \in Calls : /\ pc[c] \in {"loaded", "checked", "paid"} /\ pc'[c] # pc[c]
                                         /\ call[c].request = r /\ call[c].seen = "PENDING"
      OBVIOUS
    <2> USE DEF AskedInv, TypeOK
    <2>1. ASSUME NEW s \in Requests, CreatePaymentRequest(s) \/ TimePasses(s) PROVE FALSE
      BY <2>1 DEF CreatePaymentRequest, TimePasses, Final
    <2>2. ASSUME NEW c \in Calls, NEW kind \in Kinds, NEW s \in Requests, Load(c, kind, s) PROVE FALSE
      BY <2>2 DEF Load
    <2>3. ASSUME NEW c \in Calls, AlreadySettled(c) \/ Pay(c) \/ Crash(c) PROVE FALSE
      BY <2>3 DEF AlreadySettled, Pay, Crash
    <2>4. ASSUME NEW c \in Calls, ExpireIfNeeded(c)
          PROVE  pc[c] = "loaded" /\ pc'[c] # pc[c] /\ call[c].request = r /\ call[c].seen = "PENDING"
      BY <2>4 DEF ExpireIfNeeded
    <2>5. ASSUME NEW c \in Calls, SaveAccepted(c)
          PROVE  pc[c] = "paid" /\ pc'[c] # pc[c] /\ call[c].request = r /\ call[c].seen = "PENDING"
      BY <2>5 DEF SaveAccepted, WorkOK
    <2>6. ASSUME NEW c \in Calls, SaveRefusal(c)
          PROVE  pc[c] = "checked" /\ pc'[c] # pc[c] /\ call[c].request = r /\ call[c].seen = "PENDING"
      BY <2>6 DEF SaveRefusal
    <2>7. ASSUME ExpireStalePaymentRequests PROVE FALSE
      BY <2>7 DEF ExpireStalePaymentRequests, Final
    <2>8. ASSUME Answered PROVE FALSE
      BY <2>8 DEF Answered, vars
    <2>9. QED
      BY <2>1, <2>2, <2>3, <2>4, <2>5, <2>6, <2>7, <2>8 DEF Next
  <1>2. QED
    BY <1>1, AskedInvariant, PTL DEF Spec, OnlyLateWritersOverwrite
===============================================================================
