------------------------ MODULE StandaloneLedgerProofs ------------------------
(***************************************************************************)
(* StandaloneLedger, for any finite set of requests and any wallets and    *)
(* amounts: how far balances, ledger, books and claims may drift apart     *)
(* while calls without a session interleave and unwind.                    *)
(***************************************************************************)
EXTENDS StandaloneLedger, Sums

-------------------------------------------------------------------------------
(* The compensating writes a call may have registered, newest first.       *)
Undos ==
  {<<>>, <<"debit">>, <<"credit">>, <<"record">>, <<"credit", "debit">>, <<"record", "debit">>,
   <<"record", "credit">>, <<"record", "credit", "debit">>}

Marks == {"debit", "credit", "record"}

LEMMA RangeOfTuple ==
  /\ Range(<<>>) = {}
  /\ \A a : Range(<<a>>) = {a}
  /\ \A a, b : Range(<<a, b>>) = {a, b}
  /\ \A a, b, c : Range(<<a, b, c>>) = {a, b, c}
  <1>1. Range(<<>>) = {}
    BY DEF Range
  <1>2. ASSUME NEW a PROVE Range(<<a>>) = {a}
    BY DEF Range
  <1>3. ASSUME NEW a, NEW b PROVE Range(<<a, b>>) = {a, b}
    <2>1. DOMAIN <<a, b>> = {1, 2} /\ <<a, b>>[1] = a /\ <<a, b>>[2] = b
      OBVIOUS
    <2>2. QED
      BY <2>1, Zenon DEF Range
  <1>4. ASSUME NEW a, NEW b, NEW c PROVE Range(<<a, b, c>>) = {a, b, c}
    <2>1. DOMAIN <<a, b, c>> = {1, 2, 3} /\ <<a, b, c>>[1] = a /\ <<a, b, c>>[2] = b /\ <<a, b, c>>[3] = c
      OBVIOUS
    <2>2. QED
      BY <2>1, Zenon DEF Range
  <1>5. QED
    BY <1>1, <1>2, <1>3, <1>4

LEMMA UndoFacts ==
  ASSUME NEW x \in Undos
  PROVE  /\ x \in Seq(Marks) /\ Range(x) \subseteq Marks
         /\ x = <<>> <=> Range(x) = {}
         /\ x # <<>> => /\ Head(x) \in Range(x) /\ Tail(x) \in Undos
                        /\ Range(Tail(x)) = Range(x) \ {Head(x)}
         /\ Range(x) = {} => <<"debit">> \o x \in Undos
         /\ Range(x) \subseteq {"debit"} => <<"credit">> \o x \in Undos
         /\ Range(x) \subseteq {"debit", "credit"} => <<"record">> \o x \in Undos
  <1>1. \A a \in Marks, b \in Marks, c \in Marks :
          <<a>> \in Seq(Marks) /\ <<a, b>> \in Seq(Marks) /\ <<a, b, c>> \in Seq(Marks) /\ <<>> \in Seq(Marks)
    OBVIOUS
  <1>2. \A a : Head(<<a>>) = a /\ Tail(<<a>>) = <<>> /\ <<a>> \o <<>> = <<a>> /\ <<a>> # <<>>
    OBVIOUS
  <1>3. \A a, b : Head(<<a, b>>) = a /\ Tail(<<a, b>>) = <<b>> /\ <<a, b>> # <<>> /\ <<a>> \o <<b>> = <<a, b>>
    <2>1. ASSUME NEW a, NEW b PROVE <<a>> \o <<b>> = <<a, b>>
      <3> DEFINE y == <<a>> \o <<b>>
                 z == <<a, b>>
      <3>1. <<a>> \in Seq({a, b}) /\ <<b>> \in Seq({a, b}) /\ Len(<<a>>) = 1 /\ Len(<<b>>) = 1
        OBVIOUS
      <3>2. DOMAIN y = 1..2 /\ y \in Seq({a, b}) /\ y[1] = a /\ y[2] = b
        BY <3>1
      <3>3. DOMAIN z = 1..2 /\ z \in Seq({a, b}) /\ z[1] = a /\ z[2] = b
        OBVIOUS
      <3> HIDE DEF y, z
      <3>4. \A i \in 1..2 : y[i] = z[i]
        BY <3>2, <3>3
      <3>5. y \in [1..2 -> {a, b}] /\ z \in [1..2 -> {a, b}]
        BY <3>2, <3>3
      <3>6. y = z
        BY <3>4, <3>5
      <3>7. QED
        BY <3>6 DEF y, z
    <2>2. \A a, b : Head(<<a, b>>) = a /\ Tail(<<a, b>>) = <<b>> /\ <<a, b>> # <<>>
      OBVIOUS
    <2>3. QED
      BY <2>1, <2>2, Zenon
  <1>4. \A a, b, c : /\ Head(<<a, b, c>>) = a /\ Tail(<<a, b, c>>) = <<b, c>>
                     /\ <<a, b, c>> # <<>> /\ <<a>> \o <<b, c>> = <<a, b, c>>
    <2>1. ASSUME NEW a, NEW b, NEW c PROVE <<a>> \o <<b, c>> = <<a, b, c>>
      <3> DEFINE y == <<a>> \o <<b, c>>
                 z == <<a, b, c>>
      <3>1. <<a>> \in Seq({a, b, c}) /\ <<b, c>> \in Seq({a, b, c}) /\ Len(<<a>>) = 1 /\ Len(<<b, c>>) = 2
        OBVIOUS
      <3>2. DOMAIN y = 1..3 /\ y \in Seq({a, b, c}) /\ y[1] = a /\ y[2] = b /\ y[3] = c
        BY <3>1
      <3>3. DOMAIN z = 1..3 /\ z \in Seq({a, b, c}) /\ z[1] = a /\ z[2] = b /\ z[3] = c
        OBVIOUS
      <3> HIDE DEF y, z
      <3>4. \A i \in 1..3 : y[i] = z[i]
        BY <3>2, <3>3
      <3>5. y \in [1..3 -> {a, b, c}] /\ z \in [1..3 -> {a, b, c}]
        BY <3>2, <3>3
      <3>6. y = z
        BY <3>4, <3>5
      <3>7. QED
        BY <3>6 DEF y, z
    <2>2. \A a, b, c : Head(<<a, b, c>>) = a /\ Tail(<<a, b, c>>) = <<b, c>> /\ <<a, b, c>> # <<>>
      OBVIOUS
    <2>3. QED
      BY <2>1, <2>2, ZenonT(30)
  <1>5. "debit" \in Marks /\ "credit" \in Marks /\ "record" \in Marks
    BY DEF Marks
  <1>6. "debit" # "credit" /\ "debit" # "record" /\ "credit" # "record"
    OBVIOUS
  <1>7. CASE x = <<>>
    BY <1>1, <1>2, <1>5, <1>7, RangeOfTuple DEF Undos
  <1>8. CASE x = <<"debit">>
    BY <1>1, <1>2, <1>3, <1>5, <1>6, <1>8, RangeOfTuple DEF Undos
  <1>9. CASE x = <<"credit">>
    BY <1>1, <1>2, <1>3, <1>5, <1>6, <1>9, RangeOfTuple DEF Undos
  <1>10. CASE x = <<"record">>
    BY <1>1, <1>2, <1>3, <1>5, <1>6, <1>10, RangeOfTuple DEF Undos
  <1>11. CASE x = <<"credit", "debit">>
    BY <1>1, <1>2, <1>3, <1>4, <1>5, <1>6, <1>11, RangeOfTuple DEF Undos
  <1>12. CASE x = <<"record", "debit">>
    BY <1>1, <1>2, <1>3, <1>4, <1>5, <1>6, <1>12, RangeOfTuple DEF Undos
  <1>13. CASE x = <<"record", "credit">>
    BY <1>1, <1>2, <1>3, <1>4, <1>5, <1>6, <1>13, RangeOfTuple DEF Undos
  <1>14. CASE x = <<"record", "credit", "debit">>
    BY <1>1, <1>2, <1>3, <1>4, <1>5, <1>6, <1>14, RangeOfTuple DEF Undos
  <1>15. QED
    BY <1>7, <1>8, <1>9, <1>10, <1>11, <1>12, <1>13, <1>14 DEF Undos

LEMMA RegisterFacts ==
  ASSUME NEW x \in Seq(Marks), NEW k \in Marks
  PROVE  Range(<<k>> \o x) = Range(x) \cup {k}
  <1> DEFINE y == <<k>> \o x
  <1>1. /\ DOMAIN x = 1..Len(x) /\ DOMAIN y = 1..(Len(x) + 1) /\ y[1] = k
        /\ \A i \in 1..Len(x) : y[i + 1] = x[i]
    OBVIOUS
  <1>2. \A i \in DOMAIN y : i = 1 \/ (i - 1 \in 1..Len(x) /\ y[i] = x[i - 1])
    BY <1>1
  <1>3. Len(x) \in Nat
    OBVIOUS
  <1>4. \A i \in DOMAIN x : i + 1 \in DOMAIN y
    BY <1>1, <1>3
  <1>5. 1 \in DOMAIN y
    BY <1>1, <1>3
  <1> HIDE DEF y
  <1>6. Range(y) \subseteq Range(x) \cup {k}
    BY <1>1, <1>2 DEF Range
  <1>7. Range(x) \subseteq Range(y) /\ k \in Range(y)
    BY <1>1, <1>4, <1>5, Zenon DEF Range
  <1>8. QED
    BY <1>6, <1>7 DEF y

-------------------------------------------------------------------------------
(* The inductive invariant.  A request is sound while its call is under    *)
(* way; what a call would compensate is what it has written, until it      *)
(* begins to unwind; entries are in flight only after the Transaction.     *)
Entries == [account : Accounts, direction : {"DEBIT", "CREDIT"}, amountPaise : Nat]

Before == {"idle", "posting", "claim", "debit", "credit", "record"}
Active == UnderWay \cup {"posting", "committed"}

TypeOK ==
  /\ PostingsTypeOK
  /\ pc \in [Calls -> Before \cup {"entries", "unwind", "committed"} \cup Terminal]
  /\ undo \in [Calls -> Undos]
  /\ inflight \in [Calls -> SUBSET Entries]

RequestSound(m) ==
  /\ m \in Requests
  /\ WellFormed(m) /\ Postable(m)
  /\ IF m.type = "REFUND" THEN m.refundOf \in Calls ELSE m.refundOf = NoTxn

Taken(m) ==
  {k \in {"debit", "credit"} : IF k = "debit" THEN m.from \in Users ELSE m.to \in Users}

CallOK(c) ==
  /\ pc[c] \in Active => RequestSound(req[c])
  /\ pc[c] = "claim" => req[c].type = "REFUND"
  /\ pc[c] = "debit" => req[c].from \in Users
  /\ pc[c] = "credit" => req[c].to \in Users
  /\ pc[c] \notin {"credit", "record", "entries", "unwind"} => undo[c] = <<>>
  /\ pc[c] = "credit" => Range(undo[c]) = Taken(req[c]) \ {"credit"}
  /\ pc[c] = "record" => Range(undo[c]) = Taken(req[c])
  /\ pc[c] = "entries" => Range(undo[c]) = Taken(req[c]) \cup {"record"}
  /\ pc[c] = "unwind" => Range(undo[c]) \subseteq Taken(req[c]) \cup {"record"}
  /\ pc[c] = "entries" => inflight[c] # {} /\ inflight[c] \subseteq Range(BuildEntries(req[c]))
  /\ pc[c] \notin {"entries", "unwind", "failed"} => inflight[c] = {}
  /\ inflight[c] # {} /\ pc[c] \in {"unwind", "failed"} => "entry" \in Faults
  /\ IsFiniteSet(inflight[c])
  /\ pc[c] \in Before => txns[c] = NoTxn
  /\ pc[c] \in {"entries", "committed", "done"} => txns[c] # NoTxn

(* No call has begun to unwind, so far, or nothing can go wrong when one   *)
(* does: the only fault is a write that fails.                             *)
AllClean == \A c \in Calls : pc[c] \notin {"unwind", "failed"}
Sound == Faults \subseteq {"write"} \/ AllClean

(* What the entries in flight still lack to balance the books.             *)
Tilt(c) == SumFunction([e \in inflight[c] |-> OnSide(e, "DEBIT") - OnSide(e, "CREDIT")])
BooksExplained ==
  books["CREDIT"] - books["DEBIT"] = SumFunction([c \in Calls |-> Tilt(c)])

(* What call r has refunded of transfer t, or has claimed of it.           *)
Share(r, t) ==
  IF txns[r] # NoTxn
  THEN IF txns[r].refundOf = t THEN txns[r].amountPaise ELSE 0
  ELSE IF pc[r] \in {"debit", "credit", "record"} /\ req[r].refundOf = t THEN req[r].amountPaise ELSE 0

ClaimsExplained ==
  /\ \A t \in Calls : txns[t] # NoTxn =>
       txns[t].refundedPaise = SumFunction([r \in Calls |-> Share(r, t)])
  /\ \A r \in Calls : txns[r] # NoTxn /\ txns[r].refundOf \in Calls => txns[txns[r].refundOf] # NoTxn
  /\ \A r \in Calls : pc[r] \in Active /\ req[r].refundOf \in Calls => txns[req[r].refundOf] # NoTxn

Base == TypeOK /\ \A c \in Calls : CallOK(c)

IInv ==
  /\ Base
  /\ Sound => DriftExplained /\ BooksExplained
  /\ AllClean => ClaimsExplained

-------------------------------------------------------------------------------
(* Every call is as it should be.                                          *)
LEMMA InitBase == Init => Base
  <1> SUFFICES ASSUME Init PROVE Base
    OBVIOUS
  <1> USE PostingsAssumption DEF Init, PostingsInit
  <1>1. TypeOK
    BY DEF TypeOK, PostingsTypeOK, Undos, Before, Terminal
  <1>2. \A c \in Calls : CallOK(c)
    BY FS_EmptySet DEF CallOK, Active, UnderWay, Writing, Before
  <1>3. QED
    BY <1>1, <1>2 DEF Base

(* Only the call that takes a step can get out of order.                   *)
LEMMA OthersOK ==
  ASSUME Base, NEW c \in Calls,
         \A s \in Calls \ {c} : /\ pc'[s] = pc[s] /\ req'[s] = req[s]
                                /\ undo'[s] = undo[s] /\ inflight'[s] = inflight[s]
                                /\ txns'[s] = NoTxn <=> txns[s] = NoTxn
  PROVE  \A s \in Calls \ {c} : CallOK(s)'
  BY SMTT(30) DEF Base, CallOK, RequestSound

(* A call whose request is sound: whom it takes from and gives to.         *)
LEMMA SoundFacts ==
  ASSUME NEW m, RequestSound(m)
  PROVE  /\ m \in Requests /\ m # NoReq /\ m.type \in Types /\ m.amountPaise \in 1..MaxPaise
         /\ m.from # NoUser <=> m.from \in Users
         /\ m.to # NoUser <=> m.to \in Users
         /\ m.refundOf \in Calls <=> m.type = "REFUND"
         /\ m.type = "REFUND" => m.from \in Users /\ m.to \in Users
         /\ ~(m.from \in Users /\ m.from = m.to)
         /\ FirstWrite(m) = IF m.type = "REFUND" THEN "claim"
                            ELSE IF m.from \in Users THEN "debit" ELSE "credit"
         /\ m.from \in Users \/ m.to \in Users
  BY PostingsAssumption, AccountsAssumption
     DEF RequestSound, Requests, WellFormed, Buildable, Postable, Types, FirstWrite, AfterClaim, AfterDebit, NoReq

LEMMA AcceptBase ==
  ASSUME Base, NEW c \in Calls, NEW m, Accept(c, m), RequestSound(m), UNCHANGED <<undo, inflight>>
  PROVE  Base'
  <1>1. TypeOK'
    BY DEF Base, TypeOK, PostingsTypeOK, Accept, money, RequestSound, Before
  <1>2. pc'[c] = "posting" /\ req'[c] = m /\ pc[c] = "idle" /\ UNCHANGED txns
    BY DEF Base, TypeOK, PostingsTypeOK, Accept, money
  <1>3. RequestSound(m)'
    BY DEF RequestSound
  <1>4. CallOK(c)'
    BY <1>2, <1>3 DEF Base, CallOK, Before
  <1>5. \A s \in Calls \ {c} : CallOK(s)'
    BY <1>2, OthersOK DEF Accept, Base, TypeOK, PostingsTypeOK
  <1>6. QED
    BY <1>1, <1>4, <1>5 DEF Base

(* Whatever its kind, a request that a handler accepts is sound.           *)
LEMMA HandleSound ==
  ASSUME Base, NEW c \in Calls, Handle(c)
  PROVE  \E m : Accept(c, m) /\ RequestSound(m) /\ (m.refundOf \in Calls => txns[m.refundOf] # NoTxn)
  <1> DEFINE Target(m) == m.refundOf \in Calls => txns[m.refundOf] # NoTxn
  <1>1. CASE SendMoney(c)
    <2>1. PICK sender \in Users, receiver \in Users, paise \in 1..MaxPaise :
            Accept(c, Movement("TRANSFER", paise, sender, receiver))
      BY <1>1 DEF SendMoney
    <2> DEFINE m == Movement("TRANSFER", paise, sender, receiver)
    <2>2. RequestSound(m) /\ Target(m)
      BY <2>1, PostingsAssumption
         DEF Accept, RequestSound, Requests, Movement, WellFormed, Buildable, Types
    <2>3. QED
      BY <2>1, <2>2, Zenon
  <1>2. CASE AddMoney(c)
    <2>1. PICK user \in Users, paise \in 1..MaxPaise :
            Accept(c, Movement("ADD_MONEY", paise, NoUser, user))
      BY <1>2 DEF AddMoney
    <2> DEFINE m == Movement("ADD_MONEY", paise, NoUser, user)
    <2>2. RequestSound(m) /\ Target(m)
      BY <2>1, PostingsAssumption
         DEF Accept, RequestSound, Requests, Movement, WellFormed, Buildable, Types
    <2>3. QED
      BY <2>1, <2>2, Zenon
  <1>3. CASE PayBill(c)
    <2>1. PICK user \in Users, paise \in 1..MaxPaise :
            Accept(c, Movement("BILL_PAY", paise, user, NoUser))
      BY <1>3 DEF PayBill
    <2> DEFINE m == Movement("BILL_PAY", paise, user, NoUser)
    <2>2. RequestSound(m) /\ Target(m)
      BY <2>1, PostingsAssumption
         DEF Accept, RequestSound, Requests, Movement, WellFormed, Buildable, Types
    <2>3. QED
      BY <2>1, <2>2, Zenon
  <1>4. CASE Withdraw(c)
    <2>1. PICK user \in Users, paise \in 1..MaxPaise :
            Accept(c, Movement("WITHDRAW", paise, user, NoUser))
      BY <1>4 DEF Withdraw
    <2> DEFINE m == Movement("WITHDRAW", paise, user, NoUser)
    <2>2. RequestSound(m) /\ Target(m)
      BY <2>1, PostingsAssumption
         DEF Accept, RequestSound, Requests, Movement, WellFormed, Buildable, Types
    <2>3. QED
      BY <2>1, <2>2, Zenon
  <1>5. CASE RefundTransaction(c)
    <2>1. PICK o \in Calls : /\ txns[o] # NoTxn
                             /\ \E requested \in 1..(txns[o].amountPaise - txns[o].refundedPaise) :
                                  Accept(c, [type |-> "REFUND", amountPaise |-> requested,
                                             from |-> txns[o].receiver, to |-> txns[o].sender,
                                             refundOf |-> o, seen |-> txns[o].refundedPaise])
      BY <1>5 DEF RefundTransaction
    <2> DEFINE refund(paise) == [type |-> "REFUND", amountPaise |-> paise,
                                 from |-> txns[o].receiver, to |-> txns[o].sender,
                                 refundOf |-> o, seen |-> txns[o].refundedPaise]
    <2>2. PICK requested \in 1..(txns[o].amountPaise - txns[o].refundedPaise) :
            Accept(c, refund(requested))
      BY <2>1
    <2>3. txns[o] \in Transactions
      BY <2>1 DEF Base, TypeOK, PostingsTypeOK
    <2>4. Postable(refund(requested))
      BY <2>2 DEF Accept
    <2>5. RequestSound(refund(requested))
      BY <2>3, <2>4, PostingsAssumption
         DEF Transactions, Postable, RequestSound, Requests, WellFormed, Buildable, Types
    <2> HIDE DEF refund
    <2>6. Target(refund(requested))
      BY <2>1 DEF refund
    <2>7. QED
      BY <2>2, <2>5, <2>6, Zenon
  <1>6. QED
    BY <1>1, <1>2, <1>3, <1>4, <1>5 DEF Handle

(* A call that takes a step and is in order afterwards, with the documents *)
(* of the others left where they were.                                     *)
LEMMA StepBase ==
  ASSUME Base, NEW c \in Calls, TypeOK', CallOK(c)',
         \A s \in Calls \ {c} : /\ pc'[s] = pc[s] /\ req'[s] = req[s]
                                /\ undo'[s] = undo[s] /\ inflight'[s] = inflight[s]
                                /\ txns'[s] = NoTxn <=> txns[s] = NoTxn
  PROVE  Base'
  BY OthersOK DEF Base

(* What is known of call c.                                                *)
LEMMA BaseFacts ==
  ASSUME Base, NEW c \in Calls
  PROVE  /\ TypeOK /\ CallOK(c) /\ undo[c] \in Undos /\ inflight[c] \in SUBSET Entries
         /\ IsFiniteSet(inflight[c]) /\ req[c] \in Requests \cup {NoReq}
         /\ txns[c] \in Transactions \cup {NoTxn}
  BY DEF Base, CallOK, TypeOK, PostingsTypeOK

LEMMA StartBase == ASSUME Base, NEW c \in Calls, Start(c) PROVE Base'
  <1>1. TypeOK /\ CallOK(c) /\ pc[c] = "posting" /\ RequestSound(req[c])
    BY BaseFacts DEF Start, CallOK, Active
  <1>2. /\ pc' = [pc EXCEPT ![c] = FirstWrite(req[c])]
        /\ UNCHANGED <<balance, active, ledger, books, txns, req, emitted, undo, inflight>>
    BY DEF Start, GoTo, money
  <1>3. FirstWrite(req[c]) \in {"claim", "debit", "credit"}
    BY <1>1, SoundFacts
  <1>4. TypeOK'
    BY <1>1, <1>2, <1>3 DEF TypeOK, PostingsTypeOK, Before
  <1>5. pc'[c] = FirstWrite(req[c])
    BY <1>1, <1>2 DEF TypeOK
  <1>6. undo[c] = <<>> /\ inflight[c] = {} /\ txns[c] = NoTxn
    BY <1>1 DEF CallOK, Before
  <1>7. pc'[c] = "credit" => req[c].to \in Users /\ Range(undo[c]) = Taken(req[c]) \ {"credit"}
    BY <1>1, <1>5, <1>6, SoundFacts, RangeOfTuple DEF Taken
  <1>8. CallOK(c)'
    BY <1>1, <1>2, <1>3, <1>5, <1>6, <1>7, SoundFacts, FS_EmptySet DEF CallOK, RequestSound, Active, UnderWay
  <1>9. QED
    BY <1>1, <1>2, <1>4, <1>8, StepBase DEF TypeOK

(* What a claim does to the document it claims.                            *)
LEMMA ClaimFacts ==
  ASSUME Base, NEW c \in Calls, Claim(c)
  PROVE  LET m == req[c]
             o == m.refundOf
         IN  /\ RequestSound(m) /\ m.type = "REFUND" /\ o \in Calls \ {c} /\ txns[o] \in Transactions
             /\ txns' \in [Calls -> Transactions \cup {NoTxn}]
             /\ txns'[o] \in Transactions
             /\ txns'[o].refundedPaise = txns[o].refundedPaise + m.amountPaise
             /\ txns'[o].refundOf = txns[o].refundOf /\ txns'[o].amountPaise = txns[o].amountPaise
             /\ \A t \in Calls \ {o} : txns'[t] = txns[t]
  <1> DEFINE m == req[c]
             o == m.refundOf
  <1>1. TypeOK /\ CallOK(c) /\ pc[c] = "claim" /\ RequestSound(m) /\ m.type = "REFUND" /\ txns[c] = NoTxn
    BY BaseFacts DEF Claim, CallOK, Active, UnderWay, Writing, Before
  <1>2. o \in Calls /\ txns[o] # NoTxn /\ m.amountPaise \in 1..MaxPaise
    BY <1>1, SoundFacts DEF Claim, ClaimMatches, Db
  <1>3. txns[o] \in Transactions /\ txns \in [Calls -> Transactions \cup {NoTxn}]
    BY <1>1, <1>2 DEF TypeOK, PostingsTypeOK
  <1> DEFINE paise == txns[o].refundedPaise + m.amountPaise
             status == IF m.seen + m.amountPaise = txns[o].amountPaise THEN "REVERSED" ELSE "SUCCESS"
             doc == [txns[o] EXCEPT !.refundedPaise = paise, !.status = status]
  <1>4. txns' = [txns EXCEPT ![o] = doc]
    BY <1>2, <1>3 DEF Claim, Claimed, Transactions
  <1>5. paise \in Nat /\ status \in {"REVERSED", "SUCCESS"}
    BY <1>2, <1>3 DEF Transactions
  <1> HIDE DEF paise, status
  <1>6. /\ doc \in Transactions /\ doc.refundedPaise = paise
        /\ doc.refundOf = txns[o].refundOf /\ doc.amountPaise = txns[o].amountPaise
    BY <1>3, <1>5 DEF Transactions
  <1> HIDE DEF doc
  <1>7. /\ txns' \in [Calls -> Transactions \cup {NoTxn}]
        /\ txns'[o] = doc
        /\ \A t \in Calls \ {o} : txns'[t] = txns[t]
    BY <1>2, <1>3, <1>4, <1>6
  <1>8. o # c
    BY <1>1, <1>2
  <1> HIDE DEF m, o
  <1>9. /\ RequestSound(m) /\ m.type = "REFUND" /\ o \in Calls \ {c} /\ txns[o] \in Transactions
        /\ txns' \in [Calls -> Transactions \cup {NoTxn}]
        /\ txns'[o] \in Transactions
        /\ txns'[o].refundedPaise = txns[o].refundedPaise + m.amountPaise
        /\ txns'[o].refundOf = txns[o].refundOf /\ txns'[o].amountPaise = txns[o].amountPaise
        /\ \A t \in Calls \ {o} : txns'[t] = txns[t]
    BY <1>1, <1>2, <1>3, <1>6, <1>7, <1>8 DEF paise
  <1>10. QED
    BY <1>9 DEF m, o

LEMMA ClaimBase == ASSUME Base, NEW c \in Calls, Claim(c) PROVE Base'
  <1> DEFINE m == req[c]
             o == m.refundOf
  <1>1. TypeOK /\ CallOK(c) /\ pc[c] = "claim"
    BY BaseFacts DEF Claim
  <1>2. /\ RequestSound(m) /\ m.type = "REFUND" /\ o \in Calls \ {c} /\ txns[o] \in Transactions
        /\ txns' \in [Calls -> Transactions \cup {NoTxn}] /\ txns'[o] \in Transactions
        /\ \A t \in Calls \ {o} : txns'[t] = txns[t]
    BY ClaimFacts
  <1>3. m.from \in Users /\ AfterClaim(m) = "debit"
    BY <1>2, SoundFacts DEF AfterClaim
  <1>4. /\ pc' = [pc EXCEPT ![c] = "debit"]
        /\ UNCHANGED <<balance, active, ledger, books, req, emitted, undo, inflight>>
    BY <1>3 DEF Claim, GoTo
  <1>5. TypeOK'
    BY <1>1, <1>2, <1>4 DEF TypeOK, PostingsTypeOK, Before
  <1>6. pc'[c] = "debit"
    BY <1>1, <1>4 DEF TypeOK
  <1>7. txns[c] = NoTxn /\ undo[c] = <<>> /\ inflight[c] = {}
    BY <1>1 DEF CallOK, Before
  <1>8. CallOK(c)'
    BY <1>2, <1>3, <1>4, <1>6, <1>7, FS_EmptySet DEF CallOK, RequestSound, Active
  <1>9. \A s \in Calls : txns'[s] = NoTxn <=> txns[s] = NoTxn
    BY <1>2, NoTxnAssumption
  <1>10. QED
    BY <1>1, <1>4, <1>5, <1>8, <1>9, StepBase DEF TypeOK

LEMMA DebitBase == ASSUME Base, NEW c \in Calls, DebitSender(c) PROVE Base'
  <1> DEFINE m == req[c]
  <1>1. TypeOK /\ CallOK(c) /\ pc[c] = "debit" /\ RequestSound(m) /\ m.from \in Users
    BY BaseFacts DEF DebitSender, CallOK, Active, UnderWay, Writing
  <1>2. /\ pc' = [pc EXCEPT ![c] = AfterDebit(m)] /\ undo' = [undo EXCEPT ![c] = <<"debit">> \o @]
        /\ balance' = [balance EXCEPT ![m.from] = @ + (-m.amountPaise)]
        /\ UNCHANGED <<active, ledger, books, txns, req, emitted, inflight>>
    BY DEF DebitSender, GoTo, Inc, Register
  <1>3. AfterDebit(m) = IF m.to \in Users THEN "credit" ELSE "record"
    BY <1>1, SoundFacts DEF AfterDebit
  <1>4. undo[c] = <<>> /\ inflight[c] = {} /\ txns[c] = NoTxn
    BY <1>1 DEF CallOK, Before
  <1>5. <<"debit">> \o undo[c] \in Undos /\ Range(<<"debit">> \o undo[c]) = {"debit"}
    BY <1>4, UndoFacts, RegisterFacts, RangeOfTuple DEF Undos, Marks
  <1>6. m.amountPaise \in Int
    BY <1>1, SoundFacts
  <1>7. TypeOK'
    BY <1>1, <1>2, <1>3, <1>5, <1>6 DEF TypeOK, PostingsTypeOK, Before
  <1>8. pc'[c] = AfterDebit(m) /\ undo'[c] = <<"debit">> \o undo[c]
    BY <1>1, <1>2 DEF TypeOK
  <1>9. Taken(m) = IF m.to \in Users THEN {"debit", "credit"} ELSE {"debit"}
    BY <1>1 DEF Taken
  <1>10. CallOK(c)'
    BY <1>1, <1>2, <1>3, <1>4, <1>5, <1>8, <1>9, FS_EmptySet DEF CallOK, RequestSound, Active, Taken
  <1>11. QED
    BY <1>1, <1>2, <1>7, <1>10, StepBase DEF TypeOK

LEMMA CreditBase == ASSUME Base, NEW c \in Calls, CreditReceiver(c) PROVE Base'
  <1> DEFINE m == req[c]
  <1>1. TypeOK /\ CallOK(c) /\ pc[c] = "credit" /\ RequestSound(m) /\ m.to \in Users
    BY BaseFacts DEF CreditReceiver, CallOK, Active, UnderWay, Writing
  <1>2. /\ pc' = [pc EXCEPT ![c] = "record"] /\ undo' = [undo EXCEPT ![c] = <<"credit">> \o @]
        /\ balance' = [balance EXCEPT ![m.to] = @ + m.amountPaise]
        /\ UNCHANGED <<active, ledger, books, txns, req, emitted, inflight>>
    BY DEF CreditReceiver, GoTo, Inc, Register
  <1>3. undo[c] \in Undos /\ Range(undo[c]) = Taken(m) \ {"credit"} /\ inflight[c] = {} /\ txns[c] = NoTxn
    BY <1>1, BaseFacts DEF CallOK, Before
  <1>4. Range(undo[c]) \subseteq {"debit"}
    BY <1>3 DEF Taken
  <1>5. <<"credit">> \o undo[c] \in Undos /\ Range(<<"credit">> \o undo[c]) = Range(undo[c]) \cup {"credit"}
    BY <1>3, <1>4, UndoFacts, RegisterFacts DEF Marks
  <1>6. m.amountPaise \in Int
    BY <1>1, SoundFacts
  <1>7. TypeOK'
    BY <1>1, <1>2, <1>5, <1>6 DEF TypeOK, PostingsTypeOK, Before
  <1>8. pc'[c] = "record" /\ undo'[c] = <<"credit">> \o undo[c]
    BY <1>1, <1>2 DEF TypeOK
  <1>9. Range(undo'[c]) = Taken(m)
    BY <1>1, <1>3, <1>5, <1>8 DEF Taken
  <1>10. CallOK(c)'
    BY <1>1, <1>2, <1>3, <1>8, <1>9, FS_EmptySet DEF CallOK, RequestSound, Active, Taken
  <1>11. QED
    BY <1>1, <1>2, <1>7, <1>10, StepBase DEF TypeOK

LEMMA ThrowBase == ASSUME Base, NEW c \in Calls, Throw(c) PROVE Base'
  <1>1. TypeOK /\ CallOK(c) /\ pc[c] \in Writing /\ RequestSound(req[c])
    BY BaseFacts DEF Throw, CallOK, Active, UnderWay, Writing
  <1>2. /\ pc' = [pc EXCEPT ![c] = "unwind"]
        /\ UNCHANGED <<balance, active, ledger, books, txns, req, emitted, undo, inflight>>
    BY DEF Throw, GoTo, money
  <1>3. TypeOK'
    BY <1>1, <1>2 DEF TypeOK, PostingsTypeOK
  <1>4. pc'[c] = "unwind" /\ inflight[c] = {}
    BY <1>1, <1>2 DEF TypeOK, CallOK, Writing
  <1>5. Range(undo[c]) \subseteq Taken(req[c]) \cup {"record"}
    BY <1>1, RangeOfTuple DEF CallOK, Writing
  <1>6. CallOK(c)'
    BY <1>1, <1>2, <1>4, <1>5, FS_EmptySet DEF CallOK, RequestSound, Active, UnderWay, Before, Taken
  <1>7. QED
    BY <1>1, <1>2, <1>3, <1>6, StepBase DEF TypeOK

(* The two entries of a movement.                                          *)
LEMMA BuildFacts ==
  ASSUME NEW m, RequestSound(m)
  PROVE  /\ BuildEntries(m)[1] \in Entries /\ BuildEntries(m)[1].direction = "DEBIT"
         /\ BuildEntries(m)[2] \in Entries /\ BuildEntries(m)[2].direction = "CREDIT"
         /\ BuildEntries(m)[1].amountPaise = m.amountPaise /\ BuildEntries(m)[2].amountPaise = m.amountPaise
         /\ Range(BuildEntries(m)) = {BuildEntries(m)[1], BuildEntries(m)[2]}
  <1>1. /\ BuildEntries(m)[1] = Debit(DebitedAccount(m), m.amountPaise)
        /\ BuildEntries(m)[2] = Credit(CreditedAccount(m), m.amountPaise)
        /\ BuildEntries(m) = <<BuildEntries(m)[1], BuildEntries(m)[2]>>
    BY DEF BuildEntries
  <1>2. DebitedAccount(m) \in Accounts /\ CreditedAccount(m) \in Accounts /\ m.amountPaise \in Nat
    BY SoundFacts DEF RequestSound, WellFormed, Buildable, DebitedAccount, CreditedAccount, Accounts, Types
  <1>3. Range(BuildEntries(m)) = {BuildEntries(m)[1], BuildEntries(m)[2]}
    BY <1>1, RangeOfTuple
  <1>4. QED
    BY <1>1, <1>2, <1>3 DEF Debit, Credit, Entries

LEMMA EntryInts ==
  ASSUME NEW e \in Entries, NEW u
  PROVE  /\ Signed(e, u) \in Int /\ OnSide(e, "DEBIT") \in Nat /\ OnSide(e, "CREDIT") \in Nat
  BY DEF Entries, Signed, OnSide

LEMMA CreateBase == ASSUME Base, NEW c \in Calls, CreateTransaction(c) PROVE Base'
  <1> DEFINE m == req[c]
  <1>1. TypeOK /\ CallOK(c) /\ pc[c] = "record" /\ RequestSound(m)
    BY BaseFacts DEF CreateTransaction, CallOK, Active, UnderWay, Writing
  <1>2. /\ pc' = [pc EXCEPT ![c] = "entries"] /\ undo' = [undo EXCEPT ![c] = <<"record">> \o @]
        /\ txns' = [txns EXCEPT ![c] = TxnDoc(m)]
        /\ inflight' = [inflight EXCEPT ![c] = Range(BuildEntries(m))]
        /\ UNCHANGED <<active, balance, ledger, books, req, emitted>>
    BY DEF CreateTransaction, GoTo, Register
  <1>3. TxnDoc(m) \in Transactions
    BY <1>1 DEF RequestSound, Requests, Transactions, TxnDoc
  <1>4. undo[c] \in Undos /\ Range(undo[c]) = Taken(m)
    BY <1>1, BaseFacts DEF CallOK
  <1>5. <<"record">> \o undo[c] \in Undos /\ Range(<<"record">> \o undo[c]) = Range(undo[c]) \cup {"record"}
    <2>1. Range(undo[c]) \subseteq {"debit", "credit"}
      BY <1>4 DEF Taken
    <2>2. QED
      BY <1>4, <2>1, UndoFacts, RegisterFacts DEF Marks
  <1>6. Range(BuildEntries(m)) \subseteq Entries /\ Range(BuildEntries(m)) # {}
    BY <1>1, BuildFacts
  <1>7. IsFiniteSet(Range(BuildEntries(m)))
    <2>1. Range(BuildEntries(m)) = {BuildEntries(m)[1]} \cup {BuildEntries(m)[2]}
      BY <1>1, BuildFacts
    <2>2. IsFiniteSet({BuildEntries(m)[1]})
      BY FS_Singleton
    <2>3. QED
      BY <2>1, <2>2, FS_AddElement
  <1> HIDE DEF m
  <1>8. TypeOK'
    BY <1>1, <1>2, <1>3, <1>5, <1>6 DEF TypeOK, PostingsTypeOK
  <1>9. /\ pc'[c] = "entries" /\ undo'[c] = <<"record">> \o undo[c] /\ inflight'[c] = Range(BuildEntries(m))
        /\ txns'[c] = TxnDoc(m)
    BY <1>1, <1>2 DEF TypeOK, PostingsTypeOK
  <1>10. txns'[c] # NoTxn
    BY <1>3, <1>9, NoTxnAssumption
  <1>11. RequestSound(m)'
    BY <1>1, <1>2 DEF RequestSound, m
  <1>12. req'[c] = m
    BY <1>2 DEF m
  <1>13. CallOK(c)'
    BY <1>4, <1>5, <1>6, <1>7, <1>9, <1>10, <1>11, <1>12, <1>1 DEF CallOK, Before, Taken, RequestSound
  <1>14. QED
    BY <1>1, <1>2, <1>8, <1>13, StepBase DEF TypeOK, PostingsTypeOK

(* An entry is inserted, and counts.                                       *)
LEMMA InsertFacts ==
  ASSUME Base, NEW c \in Calls, InsertEntry(c)
  PROVE  \E e \in inflight[c] :
           /\ e \in Entries
           /\ ledger' = [u \in Users |-> ledger[u] + Signed(e, u)]
           /\ books' \in [{"DEBIT", "CREDIT"} -> Nat]
           /\ books'["DEBIT"] = books["DEBIT"] + OnSide(e, "DEBIT")
           /\ books'["CREDIT"] = books["CREDIT"] + OnSide(e, "CREDIT")
           /\ inflight' = [inflight EXCEPT ![c] = @ \ {e}]
           /\ \/ /\ pc[c] = "entries" /\ inflight[c] = {e}
                 /\ pc' = [pc EXCEPT ![c] = "committed"] /\ undo' = [undo EXCEPT ![c] = <<>>]
                 /\ UNCHANGED <<req, emitted>>
              \/ /\ ~(pc[c] = "entries" /\ inflight[c] = {e})
                 /\ UNCHANGED <<pc, req, emitted, undo>>
           /\ UNCHANGED <<balance, active, txns>>
  <1>1. PICK e \in inflight[c] :
          /\ ledger' = [u \in Users |-> ledger[u] + Signed(e, u)]
          /\ books' = [books EXCEPT ![e.direction] = @ + e.amountPaise]
          /\ inflight' = [inflight EXCEPT ![c] = @ \ {e}]
          /\ IF pc[c] = "entries" /\ inflight[c] = {e}
             THEN GoTo(c, "committed") /\ undo' = [undo EXCEPT ![c] = <<>>]
             ELSE UNCHANGED <<pc, req, emitted, undo>>
          /\ UNCHANGED <<balance, active, txns>>
    BY DEF InsertEntry, Inserted
  <1>2. e \in Entries /\ books \in [{"DEBIT", "CREDIT"} -> Nat]
    BY BaseFacts DEF TypeOK, PostingsTypeOK
  <1>3. /\ books' \in [{"DEBIT", "CREDIT"} -> Nat]
        /\ books'["DEBIT"] = books["DEBIT"] + OnSide(e, "DEBIT")
        /\ books'["CREDIT"] = books["CREDIT"] + OnSide(e, "CREDIT")
    BY <1>1, <1>2 DEF Entries, OnSide
  <1>4. \/ /\ pc[c] = "entries" /\ inflight[c] = {e}
           /\ pc' = [pc EXCEPT ![c] = "committed"] /\ undo' = [undo EXCEPT ![c] = <<>>]
           /\ UNCHANGED <<req, emitted>>
        \/ /\ ~(pc[c] = "entries" /\ inflight[c] = {e})
           /\ UNCHANGED <<pc, req, emitted, undo>>
    BY <1>1 DEF GoTo
  <1>5. QED
    BY <1>1, <1>2, <1>3, <1>4

LEMMA InsertBase == ASSUME Base, NEW c \in Calls, InsertEntry(c) PROVE Base'
  <1>1. PICK e \in inflight[c] :
           /\ e \in Entries
           /\ ledger' = [u \in Users |-> ledger[u] + Signed(e, u)]
           /\ books' \in [{"DEBIT", "CREDIT"} -> Nat]
           /\ inflight' = [inflight EXCEPT ![c] = @ \ {e}]
           /\ \/ /\ pc[c] = "entries" /\ inflight[c] = {e}
                 /\ pc' = [pc EXCEPT ![c] = "committed"] /\ undo' = [undo EXCEPT ![c] = <<>>]
                 /\ UNCHANGED <<req, emitted>>
              \/ /\ ~(pc[c] = "entries" /\ inflight[c] = {e})
                 /\ UNCHANGED <<pc, req, emitted, undo>>
           /\ UNCHANGED <<balance, active, txns>>
    BY InsertFacts
  <1>2. /\ TypeOK /\ CallOK(c) /\ IsFiniteSet(inflight[c]) /\ inflight[c] \in SUBSET Entries
        /\ pc[c] \in {"entries", "unwind", "failed"}
    BY <1>1, BaseFacts DEF CallOK
  <1>3. ledger' \in [Users -> Int]
    BY <1>1, <1>2, EntryInts DEF TypeOK, PostingsTypeOK
  <1>4. <<>> \in Undos
    BY DEF Undos
  <1>5. TypeOK'
    BY <1>1, <1>2, <1>3, <1>4 DEF TypeOK, PostingsTypeOK
  <1>6. inflight'[c] = inflight[c] \ {e} /\ IsFiniteSet(inflight[c] \ {e})
    BY <1>1, <1>2, FS_RemoveElement DEF TypeOK
  <1>7. CASE pc[c] = "entries" /\ inflight[c] = {e}
    <2>1. pc'[c] = "committed" /\ undo'[c] = <<>> /\ inflight'[c] = {} /\ UNCHANGED <<req, txns>>
      BY <1>1, <1>2, <1>6, <1>7 DEF TypeOK
    <2>2. CallOK(c)'
      BY <1>2, <1>6, <1>7, <2>1 DEF CallOK, RequestSound, Active, UnderWay, Before
    <2>3. QED
      BY <1>1, <1>2, <1>5, <2>2, StepBase DEF TypeOK
  <1>8. CASE ~(pc[c] = "entries" /\ inflight[c] = {e})
    <2>1. UNCHANGED <<req, txns, pc, undo>>
      BY <1>1, <1>8
    <2>2. pc[c] = "entries" => inflight[c] \ {e} # {}
      BY <1>1, <1>8
    <2>3. CallOK(c)'
      BY <1>2, <1>6, <2>1, <2>2 DEF CallOK, RequestSound, Before
    <2>4. QED
      BY <1>1, <1>2, <1>5, <2>1, <2>3, StepBase DEF TypeOK
  <1>9. QED
    BY <1>7, <1>8

LEMMA EntryFailsBase == ASSUME Base, NEW c \in Calls, EntryFails(c) PROVE Base'
  <1>1. PICK e \in inflight[c] : inflight' = [inflight EXCEPT ![c] = @ \ {e}]
    BY DEF EntryFails
  <1>2. /\ TypeOK /\ CallOK(c) /\ IsFiniteSet(inflight[c]) /\ inflight[c] \in SUBSET Entries
        /\ pc[c] \in {"entries", "unwind", "failed"}
    BY <1>1, BaseFacts DEF CallOK
  <1>3. /\ pc' = [pc EXCEPT ![c] = IF pc[c] = "entries" THEN "unwind" ELSE pc[c]] /\ "entry" \in Faults
        /\ UNCHANGED <<balance, active, ledger, books, txns, req, emitted, undo>>
    BY DEF EntryFails, GoTo, money
  <1>4. TypeOK'
    BY <1>1, <1>2, <1>3 DEF TypeOK, PostingsTypeOK
  <1>5. inflight'[c] = inflight[c] \ {e} /\ IsFiniteSet(inflight[c] \ {e})
    BY <1>1, <1>2, FS_RemoveElement DEF TypeOK
  <1>6. pc'[c] = IF pc[c] = "entries" THEN "unwind" ELSE pc[c]
    BY <1>2, <1>3 DEF TypeOK
  <1>7. CallOK(c)'
    BY <1>2, <1>3, <1>5, <1>6 DEF CallOK, RequestSound, Active, UnderWay, Before, Taken
  <1>8. QED
    BY <1>1, <1>2, <1>3, <1>4, <1>7, StepBase DEF TypeOK

LEMMA UnwindBase == ASSUME Base, NEW c \in Calls, Unwind(c) PROVE Base'
  <1> DEFINE m == req[c]
  <1>1. TypeOK /\ CallOK(c) /\ pc[c] = "unwind" /\ undo[c] # <<>> /\ undo[c] \in Undos /\ RequestSound(m)
    BY BaseFacts DEF Unwind, CallOK, Active, UnderWay
  <1>2. undo' = [undo EXCEPT ![c] = Tail(@)] /\ UNCHANGED <<pc, req, emitted, inflight>>
    BY DEF Unwind
  <1>3. Head(undo[c]) \in Range(undo[c]) /\ Tail(undo[c]) \in Undos /\ Range(Tail(undo[c])) \subseteq Range(undo[c])
    BY <1>1, UndoFacts
  <1>4. m.amountPaise \in Int /\ (Head(undo[c]) = "debit" => m.from \in Users) /\ (Head(undo[c]) = "credit" => m.to \in Users)
    BY <1>1, <1>3, SoundFacts DEF CallOK, Taken
  <1>5. /\ balance' \in [Users -> Int] /\ UNCHANGED <<active, ledger, books>>
        /\ txns' \in [Calls -> Transactions \cup {NoTxn}] /\ \A s \in Calls \ {c} : txns'[s] = txns[s]
    <2>1. Head(undo[c]) \in {"debit", "credit", "record"}
      BY <1>1, <1>3, UndoFacts DEF Marks
    <2>2. \/ Head(undo[c]) = "debit" /\ Inc(m.from, m.amountPaise) /\ UNCHANGED <<active, ledger, books, txns>>
          \/ Head(undo[c]) = "credit" /\ Inc(m.to, -m.amountPaise) /\ UNCHANGED <<active, ledger, books, txns>>
          \/ Head(undo[c]) = "record" /\ txns' = [txns EXCEPT ![c] = NoTxn] /\ UNCHANGED <<balance, active, ledger, books>>
          \/ UNCHANGED money
      BY <2>1 DEF Unwind, Compensate
    <2> DEFINE a == m.amountPaise
    <2>3. /\ balance \in [Users -> Int] /\ txns \in [Calls -> Transactions \cup {NoTxn}]
          /\ a \in Int /\ -a \in Int
      BY <1>1, <1>4 DEF TypeOK, PostingsTypeOK
    <2>4. /\ Inc(m.from, a) <=> balance' = [balance EXCEPT ![m.from] = @ + a]
          /\ Inc(m.to, -a) <=> balance' = [balance EXCEPT ![m.to] = @ + (-a)]
      BY DEF Inc
    <2> HIDE DEF a, m
    <2>5. \A u \in Users, k \in Int : [balance EXCEPT ![u] = @ + k] \in [Users -> Int]
      BY <2>3
    <2>6. [txns EXCEPT ![c] = NoTxn] \in [Calls -> Transactions \cup {NoTxn}]
            /\ \A s \in Calls \ {c} : [txns EXCEPT ![c] = NoTxn][s] = txns[s]
      BY <2>3
    <2>7. balance' \in [Users -> Int]
      BY <1>4, <2>2, <2>3, <2>4, <2>5 DEF a, money
    <2>8. txns' = txns \/ txns' = [txns EXCEPT ![c] = NoTxn]
      BY <2>2 DEF money
    <2>9. UNCHANGED <<active, ledger, books>>
      BY <2>2 DEF money
    <2>10. QED
      BY <2>3, <2>6, <2>7, <2>8, <2>9
  <1>6. TypeOK'
    BY <1>1, <1>2, <1>3, <1>5 DEF TypeOK, PostingsTypeOK
  <1>7. undo'[c] = Tail(undo[c])
    BY <1>1, <1>2 DEF TypeOK
  <1>8. CallOK(c)'
    BY <1>1, <1>2, <1>3, <1>7 DEF CallOK, RequestSound, Before, Taken
  <1>9. QED
    BY <1>1, <1>2, <1>5, <1>6, <1>8, StepBase DEF TypeOK

LEMMA FailBase ==
  ASSUME Base, NEW c \in Calls, Rethrow(c) \/ Crash(c)
  PROVE  Base'
  <1>1. TypeOK /\ CallOK(c)
    BY BaseFacts
  <1>2. /\ pc' = [pc EXCEPT ![c] = "failed"] /\ req' = [req EXCEPT ![c] = NoReq]
        /\ UNCHANGED <<balance, active, ledger, books, txns, emitted>>
    BY DEF Rethrow, Crash, Fail, money
  <1>3. /\ undo' \in [Calls -> Undos] /\ undo'[c] = <<>>
        /\ inflight' \in [Calls -> SUBSET Entries]
        /\ inflight'[c] = {} \/ (inflight'[c] = inflight[c] /\ pc[c] = "unwind")
        /\ \A s \in Calls \ {c} : undo'[s] = undo[s] /\ inflight'[s] = inflight[s]
    BY <1>1 DEF Rethrow, Crash, TypeOK, Undos
  <1>4. TypeOK'
    BY <1>1, <1>2, <1>3 DEF TypeOK, PostingsTypeOK, Terminal
  <1>5. pc'[c] = "failed"
    BY <1>1, <1>2 DEF TypeOK
  <1>6. CallOK(c)'
    BY <1>1, <1>3, <1>5, FS_EmptySet DEF CallOK, Active, UnderWay, Writing, Before
  <1>7. QED
    BY <1>1, <1>2, <1>3, <1>4, <1>6, StepBase DEF TypeOK, PostingsTypeOK

LEMMA FinishBase ==
  ASSUME Base, NEW c \in Calls, Finish(c) \/ FailCommitted(c), UNCHANGED <<undo, inflight>>
  PROVE  Base'
  <1>1. TypeOK /\ CallOK(c) /\ pc[c] = "committed"
    BY BaseFacts DEF Finish, FailCommitted
  <1> DEFINE to == IF Finish(c) THEN "done" ELSE "failed"
  <1>2. /\ pc' = [pc EXCEPT ![c] = to] /\ req' = [req EXCEPT ![c] = NoReq]
        /\ UNCHANGED <<balance, active, ledger, books, txns>> /\ emitted' \in [Calls -> Nat]
    BY <1>1 DEF Finish, FailCommitted, money, TypeOK, PostingsTypeOK
  <1> HIDE DEF to
  <1>3. TypeOK'
    BY <1>1, <1>2 DEF TypeOK, PostingsTypeOK, Terminal, to
  <1>4. pc'[c] \in {"done", "failed"}
    BY <1>1, <1>2 DEF TypeOK, to
  <1>5. CallOK(c)'
    BY <1>1, <1>2, <1>4 DEF CallOK, Active, UnderWay, Writing, Before
  <1>6. QED
    BY <1>1, <1>2, <1>3, <1>5, StepBase DEF TypeOK, PostingsTypeOK

(* Steps that concern no call.                                             *)
LEMMA QuietBase ==
  ASSUME Base, UNCHANGED <<balance, ledger, books, txns, pc, req, emitted, undo, inflight>>,
         active' \in [Users -> BOOLEAN]
  PROVE  Base'
  <1>1. TypeOK'
    BY DEF Base, TypeOK, PostingsTypeOK
  <1>2. \A c \in Calls : CallOK(c)'
    BY DEF Base, CallOK, RequestSound
  <1>3. QED
    BY <1>1, <1>2 DEF Base

-------------------------------------------------------------------------------
(* What call c contributes to the drift of wallet u, and to the books.     *)
Off(c, u) == Moved(c, u) - Entered(c, u)
Value(u) == [e \in Entries |-> Signed(e, u)]
Side == [e \in Entries |-> OnSide(e, "DEBIT") - OnSide(e, "CREDIT")]

LEMMA EntrySums ==
  ASSUME NEW S \in SUBSET Entries, IsFiniteSet(S), NEW u
  PROVE  /\ SumFunction([e \in S |-> Signed(e, u)]) = SumFunctionOnSet(Value(u), S)
         /\ SumFunctionOnSet(Value(u), S) \in Int
         /\ SumFunction([e \in S |-> OnSide(e, "DEBIT") - OnSide(e, "CREDIT")]) = SumFunctionOnSet(Side, S)
         /\ SumFunctionOnSet(Side, S) \in Int
         /\ \A e \in S :
              /\ SumFunctionOnSet(Value(u), S \ {e}) = SumFunctionOnSet(Value(u), S) - Signed(e, u)
              /\ SumFunctionOnSet(Side, S \ {e}) =
                   SumFunctionOnSet(Side, S) - (OnSide(e, "DEBIT") - OnSide(e, "CREDIT"))
  <1> DEFINE v == [e \in S |-> Signed(e, u)]
             w == [e \in S |-> OnSide(e, "DEBIT") - OnSide(e, "CREDIT")]
             V == Value(u)
  <1>1. /\ DOMAIN v = S /\ \A e \in S : v[e] = V[e] /\ V[e] = Signed(e, u) /\ V[e] \in Int
        /\ DOMAIN w = S
    BY EntryInts DEF Value
  <1>2. \A e \in S : w[e] = Side[e] /\ Side[e] = OnSide(e, "DEBIT") - OnSide(e, "CREDIT") /\ Side[e] \in Int
    BY EntryInts DEF Side
  <1>3. SumFunction(v) = SumFunctionOnSet(v, S) /\ SumFunction(w) = SumFunctionOnSet(w, S)
    BY <1>1 DEF SumFunction
  <1> HIDE DEF v, w, V
  <1>4. SumFunctionOnSet(v, S) = SumFunctionOnSet(V, S)
    BY <1>1, SumAgrees
  <1>5. SumFunctionOnSet(w, S) = SumFunctionOnSet(Side, S)
    BY <1>2, SumAgrees
  <1>6. SumFunctionOnSet(V, S) \in Int
    BY <1>1, SumInt
  <1>7. SumFunctionOnSet(Side, S) \in Int
    BY <1>2, SumInt
  <1>8. ASSUME NEW e \in S
        PROVE  /\ SumFunctionOnSet(V, S \ {e}) = SumFunctionOnSet(V, S) - Signed(e, u)
               /\ SumFunctionOnSet(Side, S \ {e}) =
                    SumFunctionOnSet(Side, S) - (OnSide(e, "DEBIT") - OnSide(e, "CREDIT"))
    <2>1. SumFunctionOnSet(V, S) = V[e] + SumFunctionOnSet(V, S \ {e})
      BY <1>1, SumRemove
    <2>2. SumFunctionOnSet(Side, S) = Side[e] + SumFunctionOnSet(Side, S \ {e})
      BY <1>2, SumRemove
    <2>3. IsFiniteSet(S \ {e})
      BY FS_RemoveElement
    <2>4. SumFunctionOnSet(V, S \ {e}) \in Int
      BY <1>1, <2>3, SumInt
    <2>5. SumFunctionOnSet(Side, S \ {e}) \in Int
      BY <1>2, <2>3, SumInt
    <2>6. V[e] = Signed(e, u) /\ V[e] \in Int
      BY <1>1
    <2>7. Side[e] = OnSide(e, "DEBIT") - OnSide(e, "CREDIT") /\ Side[e] \in Int
      BY <1>2
    <2>8. SumFunctionOnSet(V, S \ {e}) = SumFunctionOnSet(V, S) - Signed(e, u)
      BY <2>1, <2>4, <2>6
    <2>9. SumFunctionOnSet(Side, S \ {e}) = SumFunctionOnSet(Side, S) - (OnSide(e, "DEBIT") - OnSide(e, "CREDIT"))
      BY <2>2, <2>5, <2>7
    <2>10. QED
      BY <2>8, <2>9
  <1>9. QED
    BY <1>3, <1>4, <1>5, <1>6, <1>7, <1>8 DEF v, w, V

LEMMA NoEntries ==
  \A u : SumFunctionOnSet(Value(u), {}) = 0 /\ SumFunctionOnSet(Side, {}) = 0
  BY SumEmpty

LEMMA MoneyFacts ==
  ASSUME Base, NEW c \in Calls, NEW u \in Users
  PROVE  /\ Moved(c, u) \in Int /\ Entered(c, u) \in Int /\ Off(c, u) \in Int /\ Tilt(c) \in Int
         /\ Entered(c, u) = IF pc[c] = "entries"
                            THEN NetForAccount(BuildEntries(req[c]), u) - SumFunctionOnSet(Value(u), inflight[c])
                            ELSE 0
         /\ Tilt(c) = SumFunctionOnSet(Side, inflight[c])
         /\ balance[u] \in Int /\ ledger[u] \in Int
  <1>1. /\ TypeOK /\ CallOK(c) /\ inflight[c] \in SUBSET Entries /\ IsFiniteSet(inflight[c])
        /\ req[c] \in Requests \cup {NoReq}
    BY BaseFacts
  <1>2. /\ SumFunction([e \in inflight[c] |-> Signed(e, u)]) = SumFunctionOnSet(Value(u), inflight[c])
        /\ SumFunctionOnSet(Value(u), inflight[c]) \in Int
    BY <1>1, EntrySums
  <1>3. Tilt(c) = SumFunctionOnSet(Side, inflight[c]) /\ Tilt(c) \in Int
    BY <1>1, EntrySums DEF Tilt
  <1>4. req[c].amountPaise \in Int
    BY <1>1, PostingsAssumption DEF Requests, NoReq
  <1>5. Moved(c, u) \in Int
    BY <1>4 DEF Moved
  <1>6. ASSUME pc[c] = "entries" PROVE NetForAccount(BuildEntries(req[c]), u) \in Int
    <2>1. RequestSound(req[c])
      BY <1>1, <1>6 DEF CallOK, Active, UnderWay
    <2>2. BuildEntries(req[c])[1] \in Entries /\ BuildEntries(req[c])[2] \in Entries
      BY <2>1, BuildFacts
    <2>3. Signed(BuildEntries(req[c])[1], u) \in Int /\ Signed(BuildEntries(req[c])[2], u) \in Int
      BY <2>2, EntryInts
    <2>4. QED
      BY <2>3 DEF NetForAccount
  <1>7. Entered(c, u) = IF pc[c] = "entries"
                        THEN NetForAccount(BuildEntries(req[c]), u) - SumFunctionOnSet(Value(u), inflight[c])
                        ELSE 0
    BY <1>2, Zenon DEF Entered
  <1>8. Entered(c, u) \in Int
    BY <1>2, <1>6, <1>7
  <1>9. Off(c, u) \in Int
    BY <1>5, <1>8 DEF Off
  <1>10. balance[u] \in Int /\ ledger[u] \in Int
    BY <1>1 DEF TypeOK, PostingsTypeOK
  <1>11. QED
    BY <1>3, <1>5, <1>7, <1>8, <1>9, <1>10

(* The same, before and after a step.                                      *)
MoneyOK ==
  \A c \in Calls, u \in Users :
    /\ Off(c, u) \in Int /\ balance[u] \in Int /\ ledger[u] \in Int
    /\ Entered(c, u) = IF pc[c] = "entries"
                       THEN NetForAccount(BuildEntries(req[c]), u) - SumFunctionOnSet(Value(u), inflight[c])
                       ELSE 0

LEMMA MoneyHolds == Base => MoneyOK
  BY MoneyFacts DEF MoneyOK

LEMMA MoneyHoldsNext == Base' => MoneyOK'
  BY MoneyHolds, PTL

(* A step of one call changes the sums by what it changes of its own.      *)
LEMMA DriftStep ==
  ASSUME Base, Base', DriftExplained, NEW c \in Calls,
         \A s \in Calls \ {c} : /\ pc'[s] = pc[s] /\ req'[s] = req[s]
                                /\ undo'[s] = undo[s] /\ inflight'[s] = inflight[s],
         \A u \in Users : balance'[u] - ledger'[u] = balance[u] - ledger[u] + (Off(c, u)' - Off(c, u))
  PROVE  DriftExplained'
  <1> SUFFICES ASSUME NEW u \in Users
               PROVE  balance'[u] - ledger'[u] = SumFunction([s \in Calls |-> Moved(s, u)' - Entered(s, u)'])
    BY DEF DriftExplained
  <1> DEFINE f == [s \in Calls |-> Moved(s, u) - Entered(s, u)]
             g == [s \in Calls |-> Moved(s, u)' - Entered(s, u)']
  <1>1. balance[u] - ledger[u] = SumFunction(f)
    BY DEF DriftExplained
  <1>2. ASSUME NEW s \in Calls
        PROVE  /\ f[s] = Off(s, u) /\ f[s] \in Int
               /\ balance[u] \in Int /\ ledger[u] \in Int
    BY MoneyFacts DEF Off
  <1>3. ASSUME NEW s \in Calls
        PROVE  /\ g[s] = Off(s, u)' /\ g[s] \in Int
               /\ balance'[u] \in Int /\ ledger'[u] \in Int
    <2>1. Off(s, u)' \in Int /\ balance'[u] \in Int /\ ledger'[u] \in Int
      BY MoneyHoldsNext DEF MoneyOK
    <2>2. g[s] = Off(s, u)'
      BY DEF Off
    <2>3. QED
      BY <2>1, <2>2
  <1>4. ASSUME NEW s \in Calls \ {c} PROVE g[s] = f[s]
    <2>1. pc'[s] = pc[s] /\ req'[s] = req[s] /\ undo'[s] = undo[s] /\ inflight'[s] = inflight[s]
      OBVIOUS
    <2>2. Moved(s, u)' = Moved(s, u)
      BY <2>1, Zenon DEF Moved
    <2>3. Entered(s, u)' = Entered(s, u)
      BY <2>1, Zenon DEF Entered
    <2>4. QED
      BY <2>2, <2>3
  <1>5. DOMAIN f = Calls /\ DOMAIN g = Calls
    OBVIOUS
  <1>6. f[c] = Off(c, u) /\ g[c] = Off(c, u)'
    BY <1>2, <1>3
  <1> HIDE DEF f, g
  <1>7. SumFunctionOnSet(g, Calls) = SumFunctionOnSet(f, Calls) + g[c] - f[c]
    BY <1>2, <1>3, <1>4, CallsAssumption, SumChange
  <1>8. SumFunction(f) = SumFunctionOnSet(f, Calls) /\ SumFunction(g) = SumFunctionOnSet(g, Calls)
    BY <1>5 DEF SumFunction
  <1>9. balance'[u] - ledger'[u] = balance[u] - ledger[u] + (Off(c, u)' - Off(c, u))
    OBVIOUS
  <1>10. f[c] \in Int /\ g[c] \in Int /\ balance[u] - ledger[u] \in Int
    BY <1>2, <1>3
  <1>11. balance'[u] - ledger'[u] = SumFunctionOnSet(f, Calls) + (g[c] - f[c])
    BY <1>1, <1>6, <1>8, <1>9
  <1>12. balance'[u] - ledger'[u] = SumFunction(g)
    BY <1>1, <1>7, <1>8, <1>10, <1>11
  <1>13. QED
    BY <1>12 DEF g

TiltOK ==
  /\ \A c \in Calls : Tilt(c) \in Int /\ Tilt(c) = SumFunctionOnSet(Side, inflight[c])
  /\ books["DEBIT"] \in Int /\ books["CREDIT"] \in Int

LEMMA TiltHolds == Base => TiltOK
  <1> SUFFICES ASSUME Base PROVE TiltOK
    OBVIOUS
  <1>1. books["DEBIT"] \in Int /\ books["CREDIT"] \in Int
    BY DEF Base, TypeOK, PostingsTypeOK
  <1>2. ASSUME NEW c \in Calls PROVE Tilt(c) \in Int /\ Tilt(c) = SumFunctionOnSet(Side, inflight[c])
    BY BaseFacts, EntrySums DEF Tilt
  <1>3. QED
    BY <1>1, <1>2 DEF TiltOK

LEMMA TiltHoldsNext == Base' => TiltOK'
  BY TiltHolds, PTL

LEMMA BooksStep ==
  ASSUME Base, Base', BooksExplained, NEW c \in Calls,
         \A s \in Calls \ {c} : inflight'[s] = inflight[s],
         books'["CREDIT"] - books'["DEBIT"] = books["CREDIT"] - books["DEBIT"] + (Tilt(c)' - Tilt(c))
  PROVE  BooksExplained'
  <1> DEFINE f == [s \in Calls |-> Tilt(s)]
             g == [s \in Calls |-> Tilt(s)']
  <1>1. books["CREDIT"] - books["DEBIT"] = SumFunction(f)
    BY DEF BooksExplained
  <1>2. /\ DOMAIN f = Calls /\ DOMAIN g = Calls
        /\ \A s \in Calls : f[s] \in Int /\ f[s] = Tilt(s)
    BY TiltHolds DEF TiltOK
  <1>3. \A s \in Calls : g[s] \in Int /\ g[s] = Tilt(s)'
    BY TiltHoldsNext DEF TiltOK
  <1>4. ASSUME NEW s \in Calls \ {c} PROVE g[s] = f[s]
    <2>1. inflight'[s] = inflight[s]
      OBVIOUS
    <2>2. Tilt(s)' = Tilt(s)
      BY <2>1, Zenon DEF Tilt
    <2>3. QED
      BY <2>2
  <1>5. f[c] \in Int /\ g[c] \in Int /\ f[c] = Tilt(c) /\ g[c] = Tilt(c)'
    BY <1>2, <1>3
  <1>6. SumFunction(f) = SumFunctionOnSet(f, Calls) /\ SumFunction(g) = SumFunctionOnSet(g, Calls)
    BY <1>2 DEF SumFunction
  <1>7. books'["CREDIT"] - books'["DEBIT"] = SumFunction(f) + (g[c] - f[c])
    BY <1>1, <1>5
  <1> HIDE DEF f, g
  <1>8. SumFunctionOnSet(g, Calls) = SumFunctionOnSet(f, Calls) + g[c] - f[c]
    BY <1>2, <1>3, <1>4, CallsAssumption, SumChange
  <1>9. SumFunctionOnSet(f, Calls) \in Int
    BY <1>2, CallsAssumption, SumInt
  <1>10. books'["CREDIT"] - books'["DEBIT"] = SumFunction(g)
    BY <1>5, <1>6, <1>7, <1>8, <1>9
  <1>11. QED
    BY <1>10 DEF g, BooksExplained

-------------------------------------------------------------------------------
(* What each step of a call does to the drift and to the books.            *)
OffStep(c) ==
  \A u \in Users : balance'[u] - ledger'[u] = balance[u] - ledger[u] + (Off(c, u)' - Off(c, u))
TiltStep(c) ==
  books'["CREDIT"] - books'["DEBIT"] = books["CREDIT"] - books["DEBIT"] + (Tilt(c)' - Tilt(c))

LEMMA SameTilt ==
  ASSUME Base, Base', NEW c \in Calls, UNCHANGED books, inflight'[c] = inflight[c]
  PROVE  TiltStep(c)
  BY TiltHolds, TiltHoldsNext DEF TiltOK, TiltStep

(* A step that moves no money, outside the insertion of the entries.       *)
LEMMA QuietMoney ==
  ASSUME Base, Base', NEW c \in Calls, UNCHANGED <<balance, ledger>>,
         pc[c] # "entries", pc'[c] # "entries", undo'[c] = undo[c],
         req'[c] = req[c] \/ undo[c] = <<>>
  PROVE  OffStep(c)
  <1> SUFFICES ASSUME NEW u \in Users PROVE Off(c, u)' = Off(c, u)
    BY MoneyHolds, MoneyHoldsNext DEF OffStep, MoneyOK
  <1>1. Entered(c, u)' = 0 /\ Entered(c, u) = 0
    BY DEF Entered
  <1>2. Moved(c, u)' = Moved(c, u)
    BY RangeOfTuple DEF Moved
  <1>3. QED
    BY <1>1, <1>2 DEF Off

LEMMA DebitMoney ==
  ASSUME Base, Base', NEW c \in Calls, DebitSender(c)
  PROVE  OffStep(c) /\ TiltStep(c)
  <1> DEFINE m == req[c]
  <1>1. TypeOK /\ CallOK(c) /\ pc[c] = "debit" /\ RequestSound(m) /\ m.from \in Users
    BY BaseFacts DEF DebitSender, CallOK, Active, UnderWay, Writing
  <1>2. /\ pc' = [pc EXCEPT ![c] = AfterDebit(m)] /\ undo' = [undo EXCEPT ![c] = <<"debit">> \o @]
        /\ balance' = [balance EXCEPT ![m.from] = @ + (-m.amountPaise)]
        /\ UNCHANGED <<ledger, books, req, inflight>>
    BY DEF DebitSender, GoTo, Inc, Register
  <1>3. pc'[c] \in {"credit", "record"} /\ undo'[c] = <<"debit">> \o undo[c] /\ undo[c] = <<>>
    BY <1>1, <1>2 DEF TypeOK, AfterDebit, CallOK
  <1>4. Range(undo[c]) = {} /\ Range(undo'[c]) = {"debit"}
    BY <1>3, RangeOfTuple
  <1>5. m.amountPaise \in Int
    BY <1>1, SoundFacts
  <1>6. ASSUME NEW u \in Users
        PROVE balance'[u] - ledger'[u] = balance[u] - ledger[u] + (Off(c, u)' - Off(c, u))
    <2>1. Entered(c, u)' = 0 /\ Entered(c, u) = 0
      BY <1>1, <1>3 DEF Entered
    <2>2. Moved(c, u) = 0 /\ Moved(c, u)' = 0 - (IF u = m.from THEN m.amountPaise ELSE 0)
      BY <1>2, <1>4 DEF Moved
    <2>3. balance'[u] = balance[u] - (IF u = m.from THEN m.amountPaise ELSE 0) /\ ledger'[u] = ledger[u]
          /\ balance[u] \in Int /\ ledger[u] \in Int
      BY <1>1, <1>2, <1>5 DEF TypeOK, PostingsTypeOK
    <2>4. QED
      BY <1>5, <2>1, <2>2, <2>3 DEF Off
  <1>7. QED
    BY <1>2, <1>6, SameTilt DEF OffStep

LEMMA CreditMoney ==
  ASSUME Base, Base', NEW c \in Calls, CreditReceiver(c)
  PROVE  OffStep(c) /\ TiltStep(c)
  <1> DEFINE m == req[c]
  <1>1. TypeOK /\ CallOK(c) /\ pc[c] = "credit" /\ RequestSound(m) /\ m.to \in Users
    BY BaseFacts DEF CreditReceiver, CallOK, Active, UnderWay, Writing
  <1>2. /\ pc' = [pc EXCEPT ![c] = "record"] /\ undo' = [undo EXCEPT ![c] = <<"credit">> \o @]
        /\ balance' = [balance EXCEPT ![m.to] = @ + m.amountPaise]
        /\ UNCHANGED <<ledger, books, req, inflight>>
    BY DEF CreditReceiver, GoTo, Inc, Register
  <1>3. pc'[c] = "record" /\ undo'[c] = <<"credit">> \o undo[c] /\ undo[c] \in Undos
    BY <1>1, <1>2 DEF TypeOK
  <1>4. Range(undo'[c]) = Range(undo[c]) \cup {"credit"} /\ "credit" \notin Range(undo[c])
    BY <1>1, <1>3, UndoFacts, RegisterFacts DEF Marks, CallOK
  <1>5. m.amountPaise \in Int
    BY <1>1, SoundFacts
  <1>6. ASSUME NEW u \in Users
        PROVE balance'[u] - ledger'[u] = balance[u] - ledger[u] + (Off(c, u)' - Off(c, u))
    <2> DEFINE d == IF "debit" \in Range(undo[c]) /\ u = m.from THEN m.amountPaise ELSE 0
               k == IF u = m.to THEN m.amountPaise ELSE 0
    <2>1. Entered(c, u)' = 0 /\ Entered(c, u) = 0
      BY <1>1, <1>3 DEF Entered
    <2>2. Moved(c, u) = 0 - d /\ Moved(c, u)' = k - d
      BY <1>2, <1>4 DEF Moved
    <2>3. balance'[u] = balance[u] + k /\ ledger'[u] = ledger[u]
          /\ balance[u] \in Int /\ ledger[u] \in Int
      BY <1>1, <1>2, <1>5 DEF TypeOK, PostingsTypeOK
    <2>4. d \in Int /\ k \in Int
      BY <1>5
    <2> HIDE DEF d, k
    <2>5. QED
      BY <2>1, <2>2, <2>3, <2>4 DEF Off
  <1>7. QED
    BY <1>2, <1>6, SameTilt DEF OffStep

(* The two entries of a movement are worth what it moves.                  *)
LEMMA NetIsMovement ==
  ASSUME NEW m, RequestSound(m), NEW u \in Users
  PROVE  NetForAccount(BuildEntries(m), u) =
           (IF u = m.to THEN m.amountPaise ELSE 0) - (IF u = m.from THEN m.amountPaise ELSE 0)
  <1>1. m.amountPaise \in Int
    BY SoundFacts
  <1>2. QED
    BY <1>1, AccountsAssumption
       DEF RequestSound, Buildable, WellFormed, Postable, BuildEntries, DebitedAccount, CreditedAccount,
           NetForAccount, Signed, OnSide, Debit, Credit, Types

LEMMA CreateMoney ==
  ASSUME Base, Base', NEW c \in Calls, CreateTransaction(c)
  PROVE  OffStep(c) /\ TiltStep(c)
  <1> DEFINE m == req[c]
             e == BuildEntries(m)[1]
             k == BuildEntries(m)[2]
  <1>1. TypeOK /\ CallOK(c) /\ pc[c] = "record" /\ RequestSound(m)
    BY BaseFacts DEF CreateTransaction, CallOK, Active, UnderWay, Writing
  <1>2. /\ pc' = [pc EXCEPT ![c] = "entries"] /\ undo' = [undo EXCEPT ![c] = <<"record">> \o @]
        /\ inflight' = [inflight EXCEPT ![c] = Range(BuildEntries(m))]
        /\ UNCHANGED <<balance, ledger, books, req>>
    BY DEF CreateTransaction, GoTo, Register
  <1>3. /\ pc'[c] = "entries" /\ undo'[c] = <<"record">> \o undo[c] /\ undo[c] \in Undos
        /\ inflight'[c] = {e, k} /\ inflight[c] = {}
    BY <1>1, <1>2, BuildFacts DEF TypeOK, CallOK
  <1>4. Range(undo'[c]) = Range(undo[c]) \cup {"record"}
    BY <1>3, UndoFacts, RegisterFacts DEF Marks
  <1>5. e \in Entries /\ k \in Entries /\ e # k /\ e.direction = "DEBIT" /\ k.direction = "CREDIT"
        /\ e.amountPaise = m.amountPaise /\ k.amountPaise = m.amountPaise
    BY <1>1, BuildFacts
  <1> HIDE DEF e, k
  <1>6. IsFiniteSet({e, k}) /\ {e, k} \in SUBSET Entries
    <2>1. IsFiniteSet({e}) /\ {e, k} = {e} \cup {k}
      BY FS_Singleton
    <2>2. QED
      BY <1>5, <2>1, FS_AddElement
  <1>7. ASSUME NEW u
        PROVE  /\ SumFunctionOnSet(Value(u), {e, k}) = Signed(e, u) + Signed(k, u)
               /\ SumFunctionOnSet(Side, {e, k}) =
                    (OnSide(e, "DEBIT") - OnSide(e, "CREDIT")) + (OnSide(k, "DEBIT") - OnSide(k, "CREDIT"))
    <2>1. IsFiniteSet({k}) /\ {k} \in SUBSET Entries /\ {e, k} \ {e} = {k} /\ {k} \ {k} = {}
      BY <1>5, FS_Singleton
    <2>2. /\ SumFunctionOnSet(Value(u), {k}) = SumFunctionOnSet(Value(u), {e, k}) - Signed(e, u)
          /\ SumFunctionOnSet(Side, {k}) =
               SumFunctionOnSet(Side, {e, k}) - (OnSide(e, "DEBIT") - OnSide(e, "CREDIT"))
          /\ SumFunctionOnSet(Value(u), {e, k}) \in Int /\ SumFunctionOnSet(Side, {e, k}) \in Int
      BY <1>6, <2>1, EntrySums
    <2> DEFINE one == {k}
    <2>3. /\ 0 = SumFunctionOnSet(Value(u), {k}) - Signed(k, u)
          /\ 0 = SumFunctionOnSet(Side, {k}) - (OnSide(k, "DEBIT") - OnSide(k, "CREDIT"))
          /\ SumFunctionOnSet(Value(u), {k}) \in Int /\ SumFunctionOnSet(Side, {k}) \in Int
      <3>1. IsFiniteSet(one) /\ one \in SUBSET Entries /\ k \in one /\ one \ {k} = {}
        BY <2>1
      <3> HIDE DEF one
      <3>2. /\ SumFunctionOnSet(Value(u), one \ {k}) = SumFunctionOnSet(Value(u), one) - Signed(k, u)
            /\ SumFunctionOnSet(Side, one \ {k}) =
                 SumFunctionOnSet(Side, one) - (OnSide(k, "DEBIT") - OnSide(k, "CREDIT"))
            /\ SumFunctionOnSet(Value(u), one) \in Int /\ SumFunctionOnSet(Side, one) \in Int
        BY <3>1, EntrySums
      <3>3. SumFunctionOnSet(Value(u), {}) = 0 /\ SumFunctionOnSet(Side, {}) = 0
        BY NoEntries
      <3>4. /\ 0 = SumFunctionOnSet(Value(u), one) - Signed(k, u)
            /\ 0 = SumFunctionOnSet(Side, one) - (OnSide(k, "DEBIT") - OnSide(k, "CREDIT"))
        BY <3>1, <3>2, <3>3
      <3>5. QED
        BY <3>2, <3>4 DEF one
    <2>4. /\ Signed(e, u) \in Int /\ Signed(k, u) \in Int
          /\ OnSide(e, "DEBIT") \in Int /\ OnSide(e, "CREDIT") \in Int
          /\ OnSide(k, "DEBIT") \in Int /\ OnSide(k, "CREDIT") \in Int
      BY <1>5, EntryInts
    <2> DEFINE v1 == SumFunctionOnSet(Value(u), {k})
               v2 == SumFunctionOnSet(Value(u), {e, k})
               w1 == SumFunctionOnSet(Side, {k})
               w2 == SumFunctionOnSet(Side, {e, k})
               x == OnSide(e, "DEBIT") - OnSide(e, "CREDIT")
               y == OnSide(k, "DEBIT") - OnSide(k, "CREDIT")
    <2>5. /\ v1 = v2 - Signed(e, u) /\ 0 = v1 - Signed(k, u) /\ v1 \in Int /\ v2 \in Int
          /\ w1 = w2 - x /\ 0 = w1 - y /\ w1 \in Int /\ w2 \in Int /\ x \in Int /\ y \in Int
      BY <2>2, <2>3, <2>4
    <2> HIDE DEF v1, v2, w1, w2, x, y
    <2>6. v2 = Signed(e, u) + Signed(k, u) /\ w2 = x + y
      BY <2>4, <2>5
    <2>7. QED
      BY <2>6 DEF v2, w2, x, y
  <1>8. OffStep(c)
    <2> SUFFICES ASSUME NEW u \in Users PROVE Off(c, u)' = Off(c, u)
      BY <1>2, MoneyHolds, MoneyHoldsNext DEF OffStep, MoneyOK
    <2>1. NetForAccount(BuildEntries(m), u) = Signed(e, u) + Signed(k, u)
      BY DEF NetForAccount, e, k
    <2>2. Signed(e, u) \in Int /\ Signed(k, u) \in Int
      BY <1>5, EntryInts
    <2>3. Entered(c, u)' = NetForAccount(BuildEntries(m), u) - SumFunctionOnSet(Value(u), {e, k})
      BY <1>2, <1>3, MoneyHoldsNext DEF MoneyOK
    <2>4. Entered(c, u)' = 0
      <3>1. SumFunctionOnSet(Value(u), {e, k}) = Signed(e, u) + Signed(k, u)
        BY <1>7
      <3>2. Entered(c, u)' = (Signed(e, u) + Signed(k, u)) - (Signed(e, u) + Signed(k, u))
        BY <2>1, <2>3, <3>1, Zenon
      <3>3. QED
        BY <2>2, <3>2
    <2>5. Entered(c, u) = 0
      BY <1>1 DEF Entered
    <2>6. Moved(c, u)' = Moved(c, u)
      BY <1>2, <1>4 DEF Moved
    <2>7. QED
      BY <2>4, <2>5, <2>6 DEF Off
  <1>9. TiltStep(c)
    <2>1. Tilt(c) = 0
      BY <1>3, TiltHolds, NoEntries DEF TiltOK
    <2>2. Tilt(c)' = (OnSide(e, "DEBIT") - OnSide(e, "CREDIT")) + (OnSide(k, "DEBIT") - OnSide(k, "CREDIT"))
      BY <1>3, <1>7, TiltHoldsNext DEF TiltOK
    <2>3. m.amountPaise \in Int
      BY <1>1, SoundFacts
    <2>4. Tilt(c)' = 0
      BY <1>5, <2>2, <2>3 DEF OnSide
    <2>5. QED
      BY <1>2, <2>1, <2>4, TiltHolds DEF TiltOK, TiltStep
  <1>10. QED
    BY <1>8, <1>9

(* The insertion of an entry balances the books by as much as it tilted    *)
(* them; it explains as much of the drift, unless the call has given up.   *)
LEMMA InsertMoney ==
  ASSUME Base, Base', NEW c \in Calls, InsertEntry(c)
  PROVE  TiltStep(c) /\ (pc[c] = "entries" => OffStep(c))
  <1> DEFINE m == req[c]
  <1>1. PICK e \in inflight[c] :
           /\ e \in Entries
           /\ ledger' = [u \in Users |-> ledger[u] + Signed(e, u)]
           /\ books'["DEBIT"] = books["DEBIT"] + OnSide(e, "DEBIT")
           /\ books'["CREDIT"] = books["CREDIT"] + OnSide(e, "CREDIT")
           /\ inflight' = [inflight EXCEPT ![c] = @ \ {e}]
           /\ \/ /\ pc[c] = "entries" /\ inflight[c] = {e}
                 /\ pc' = [pc EXCEPT ![c] = "committed"] /\ undo' = [undo EXCEPT ![c] = <<>>]
                 /\ UNCHANGED <<req, emitted>>
              \/ /\ ~(pc[c] = "entries" /\ inflight[c] = {e})
                 /\ UNCHANGED <<pc, req, emitted, undo>>
           /\ UNCHANGED <<balance, active, txns>>
    BY InsertFacts
  <1>2. TypeOK /\ CallOK(c) /\ inflight[c] \in SUBSET Entries /\ IsFiniteSet(inflight[c])
    BY BaseFacts
  <1>3. inflight'[c] = inflight[c] \ {e}
    BY <1>1, <1>2 DEF TypeOK
  <1>4. OnSide(e, "DEBIT") \in Int /\ OnSide(e, "CREDIT") \in Int /\ \A u : Signed(e, u) \in Int
    BY <1>1, EntryInts
  <1>5. TiltStep(c)
    <2>1. Tilt(c)' = Tilt(c) - (OnSide(e, "DEBIT") - OnSide(e, "CREDIT"))
      BY <1>2, <1>3, EntrySums, TiltHolds, TiltHoldsNext, ZenonT(40) DEF TiltOK
    <2>2. Tilt(c) \in Int /\ books["DEBIT"] \in Int /\ books["CREDIT"] \in Int
      BY TiltHolds DEF TiltOK
    <2>3. QED
      BY <1>1, <1>4, <2>1, <2>2 DEF TiltStep
  <1>6. ASSUME pc[c] = "entries" PROVE OffStep(c)
    <2> SUFFICES ASSUME NEW u \in Users
                 PROVE  balance'[u] - ledger'[u] = balance[u] - ledger[u] + (Off(c, u)' - Off(c, u))
      BY DEF OffStep
    <2> DEFINE v == SumFunctionOnSet(Value(u), inflight[c])
               net == NetForAccount(BuildEntries(m), u)
    <2>1. v \in Int /\ SumFunctionOnSet(Value(u), inflight[c] \ {e}) = v - Signed(e, u)
      BY <1>2, EntrySums
    <2>2. Entered(c, u) = net - v
      BY <1>6, MoneyHolds DEF MoneyOK
    <2>3. RequestSound(m) /\ Range(undo[c]) = Taken(m) \cup {"record"}
      BY <1>2, <1>6 DEF CallOK, Active, UnderWay
    <2>4. m.amountPaise \in Int
      BY <2>3, SoundFacts
    <2>5. net = (IF u = m.to THEN m.amountPaise ELSE 0) - (IF u = m.from THEN m.amountPaise ELSE 0)
      BY <2>3, NetIsMovement
    <2>6. Moved(c, u) = net
      BY <2>3, <2>5 DEF Moved, Taken
    <2>7. net \in Int
      BY <2>4, <2>5
    <2>8. /\ balance'[u] = balance[u] /\ ledger'[u] = ledger[u] + Signed(e, u)
          /\ balance[u] \in Int /\ ledger[u] \in Int
      BY <1>1, MoneyHolds DEF MoneyOK
    <2>9. Off(c, u)' = v - Signed(e, u)
      <3>1. CASE inflight[c] = {e}
        <4>1. pc'[c] = "committed" /\ undo'[c] = <<>>
          BY <1>1, <1>2, <1>6, <3>1 DEF TypeOK
        <4>2. Entered(c, u)' = 0
          BY <4>1 DEF Entered
        <4>3. Moved(c, u)' = 0
          BY <4>1, RangeOfTuple DEF Moved
        <4>4. v - Signed(e, u) = 0
          BY <2>1, <3>1, NoEntries
        <4> HIDE DEF v
        <4>5. QED
          BY <4>2, <4>3, <4>4 DEF Off
      <3>2. CASE inflight[c] # {e}
        <4>1. UNCHANGED <<pc, req, undo>>
          BY <1>1, <3>2
        <4>2. Entered(c, u)' = net - (v - Signed(e, u))
          BY <1>3, <1>6, <2>1, <4>1, MoneyHoldsNext DEF MoneyOK
        <4>3. Moved(c, u)' = net
          BY <2>6, <4>1, Zenon DEF Moved
        <4> HIDE DEF v, net
        <4>4. QED
          BY <1>4, <2>1, <2>7, <4>2, <4>3 DEF Off
      <3>3. QED
        BY <3>1, <3>2
    <2>10. Off(c, u) = v
      <3> HIDE DEF v, net
      <3>1. QED
        BY <2>1, <2>2, <2>6, <2>7 DEF Off
    <2> HIDE DEF v, net
    <2>11. QED
      BY <1>4, <2>1, <2>8, <2>9, <2>10
  <1>7. QED
    BY <1>5, <1>6

LEMMA UnwindMoney ==
  ASSUME Base, Base', NEW c \in Calls, Unwind(c)
  PROVE  TiltStep(c) /\ ("undo" \notin Faults => OffStep(c))
  <1> DEFINE m == req[c]
             kind == Head(undo[c])
  <1>1. TypeOK /\ CallOK(c) /\ pc[c] = "unwind" /\ undo[c] # <<>> /\ undo[c] \in Undos /\ RequestSound(m)
    BY BaseFacts DEF Unwind, CallOK, Active, UnderWay
  <1>2. /\ undo' = [undo EXCEPT ![c] = Tail(@)] /\ UNCHANGED <<pc, req, emitted, inflight>>
        /\ Compensate(c) \/ ("undo" \in Faults /\ UNCHANGED money)
    BY DEF Unwind
  <1>3. kind \in Range(undo[c]) /\ kind \in Marks /\ Range(Tail(undo[c])) = Range(undo[c]) \ {kind}
    BY <1>1, UndoFacts
  <1>4. /\ m.amountPaise \in Int
        /\ kind = "debit" => m.from \in Users
        /\ kind = "credit" => m.to \in Users
    BY <1>1, <1>3, SoundFacts DEF CallOK, Taken
  <1>5. undo'[c] = Tail(undo[c])
    BY <1>1, <1>2 DEF TypeOK
  <1>6. \/ kind = "debit" /\ Inc(m.from, m.amountPaise) /\ UNCHANGED <<active, ledger, books, txns>>
        \/ kind = "credit" /\ Inc(m.to, -m.amountPaise) /\ UNCHANGED <<active, ledger, books, txns>>
        \/ kind = "record" /\ UNCHANGED <<balance, active, ledger, books>>
        \/ "undo" \in Faults /\ UNCHANGED <<balance, active, ledger, books>>
    BY <1>2, <1>3 DEF Marks, Compensate, money
  <1>7. TiltStep(c)
    BY <1>2, <1>6, SameTilt
  <1>8. ASSUME "undo" \notin Faults, NEW u \in Users
        PROVE  balance'[u] - ledger'[u] = balance[u] - ledger[u] + (Off(c, u)' - Off(c, u))
    <2> DEFINE d == IF u = m.from THEN m.amountPaise ELSE 0
               k == IF u = m.to THEN m.amountPaise ELSE 0
    <2> HIDE DEF kind
    <2>1. Entered(c, u)' = 0 /\ Entered(c, u) = 0
      BY <1>1, <1>2 DEF Entered
    <2>2. d \in Int /\ k \in Int
      BY <1>4
    <2>3. balance \in [Users -> Int] /\ ledger[u] \in Int /\ balance[u] \in Int /\ ledger' = ledger
      BY <1>1, <1>6, <1>8 DEF TypeOK, PostingsTypeOK
    <2>4. /\ Moved(c, u) = (IF "credit" \in Range(undo[c]) THEN k ELSE 0) - (IF "debit" \in Range(undo[c]) THEN d ELSE 0)
          /\ Moved(c, u)' = (IF "credit" \in Range(undo[c]) \ {kind} THEN k ELSE 0)
                              - (IF "debit" \in Range(undo[c]) \ {kind} THEN d ELSE 0)
      BY <1>2, <1>3, <1>5 DEF Moved
    <2>5. balance'[u] = balance[u] + (IF kind = "debit" THEN d ELSE IF kind = "credit" THEN -k ELSE 0)
      BY <1>4, <1>6, <1>8, <2>3 DEF Inc
    <2> HIDE DEF d, k
    <2>6. QED
      BY <1>3, <2>1, <2>2, <2>3, <2>4, <2>5 DEF Off, Marks
  <1>9. QED
    BY <1>7, <1>8 DEF OffStep

-------------------------------------------------------------------------------
(* Every step keeps the calls as they should be.                           *)
LEMMA NextBase == Base /\ [Next]_vars => Base'
  <1> SUFFICES ASSUME Base, [Next]_vars PROVE Base'
    OBVIOUS
  <1>1. ASSUME NEW c \in Calls, Handle(c), UNCHANGED <<undo, inflight>> PROVE Base'
    BY <1>1, HandleSound, AcceptBase
  <1>2. ASSUME NEW c \in Calls, Finish(c) \/ FailCommitted(c), UNCHANGED <<undo, inflight>> PROVE Base'
    BY <1>2, FinishBase
  <1>3. ASSUME NEW c \in Calls, Post(c) PROVE Base'
    <2>1. CASE Start(c) BY <2>1, StartBase
    <2>2. CASE Claim(c) BY <2>2, ClaimBase
    <2>3. CASE DebitSender(c) BY <2>3, DebitBase
    <2>4. CASE CreditReceiver(c) BY <2>4, CreditBase
    <2>5. CASE Throw(c) BY <2>5, ThrowBase
    <2>6. CASE CreateTransaction(c) BY <2>6, CreateBase
    <2>7. CASE InsertEntry(c) BY <2>7, InsertBase
    <2>8. CASE Unwind(c) BY <2>8, UnwindBase
    <2>9. CASE Rethrow(c) BY <2>9, FailBase
    <2>10. QED
      BY <1>3, <2>1, <2>2, <2>3, <2>4, <2>5, <2>6, <2>7, <2>8, <2>9 DEF Post
  <1>4. ASSUME NEW c \in Calls, EntryFails(c) \/ Crash(c) PROVE Base'
    BY <1>4, EntryFailsBase, FailBase
  <1>5. ASSUME NEW u \in Users, DeactivateAccount(u) PROVE Base'
    <2>1. active' \in [Users -> BOOLEAN]
      BY <1>5 DEF DeactivateAccount, Base, TypeOK, PostingsTypeOK
    <2>2. QED
      BY <1>5, <2>1, QuietBase DEF DeactivateAccount
  <1>6. CASE UNCHANGED vars
    <2>1. active' \in [Users -> BOOLEAN]
      BY <1>6 DEF vars, money, Base, TypeOK, PostingsTypeOK
    <2>2. QED
      BY <1>6, <2>1, QuietBase DEF vars, money
  <1>7. QED
    BY <1>1, <1>2, <1>3, <1>4, <1>5, <1>6 DEF Next, Settled

(* A call that has begun to unwind, or has failed, never posts again.      *)
LEMMA SoundBefore ==
  ASSUME Base, [Next]_vars
  PROVE  (AllClean' => AllClean) /\ (Sound' => Sound)
  <1>1. ASSUME NEW s \in Calls, pc[s] \in {"unwind", "failed"} PROVE pc'[s] \in {"unwind", "failed"}
    <2>1. TypeOK
      BY DEF Base
    <2>2. ASSUME NEW c \in Calls, Handle(c) PROVE pc'[s] \in {"unwind", "failed"}
      BY <1>1, <2>1, <2>2, HandleSound DEF Accept, TypeOK
    <2>3. ASSUME NEW c \in Calls, Finish(c) \/ FailCommitted(c) PROVE pc'[s] \in {"unwind", "failed"}
      BY <1>1, <2>1, <2>3 DEF Finish, FailCommitted, TypeOK
    <2>4. ASSUME NEW c \in Calls, Post(c) PROVE pc'[s] \in {"unwind", "failed"}
      <3>1. ASSUME InsertEntry(c) PROVE pc'[s] \in {"unwind", "failed"}
        BY <1>1, <2>1, <3>1, InsertFacts DEF TypeOK
      <3>2. ASSUME Unwind(c) \/ Rethrow(c) PROVE pc'[s] \in {"unwind", "failed"}
        BY <1>1, <2>1, <3>2 DEF Unwind, Rethrow, Fail, TypeOK
      <3>3. ASSUME Throw(c) PROVE pc'[s] \in {"unwind", "failed"}
        BY <1>1, <2>1, <3>3 DEF Throw, GoTo, TypeOK
      <3>4. ASSUME Start(c) \/ Claim(c) \/ DebitSender(c) \/ CreditReceiver(c) \/ CreateTransaction(c)
            PROVE  pc'[s] \in {"unwind", "failed"}
        <4>1. pc[c] \in {"posting", "claim", "debit", "credit", "record"}
          BY <3>4 DEF Start, Claim, DebitSender, CreditReceiver, CreateTransaction
        <4>2. \E to : pc' = [pc EXCEPT ![c] = to]
          BY <3>4 DEF Start, Claim, DebitSender, CreditReceiver, CreateTransaction, GoTo
        <4>3. QED
          BY <1>1, <2>1, <4>1, <4>2 DEF TypeOK
      <3>5. QED
        BY <2>4, <3>1, <3>2, <3>3, <3>4 DEF Post
    <2>5. ASSUME NEW c \in Calls, EntryFails(c) \/ Crash(c) PROVE pc'[s] \in {"unwind", "failed"}
      BY <1>1, <2>1, <2>5 DEF EntryFails, Crash, GoTo, Fail, TypeOK
    <2>6. ASSUME NEW u \in Users, DeactivateAccount(u) PROVE pc'[s] \in {"unwind", "failed"}
      BY <1>1, <2>6 DEF DeactivateAccount
    <2>7. CASE UNCHANGED vars
      BY <1>1, <2>7 DEF vars
    <2>8. QED
      BY <2>2, <2>3, <2>4, <2>5, <2>6, <2>7 DEF Next, Settled
  <1>2. AllClean' => AllClean
    BY <1>1 DEF AllClean
  <1>3. QED
    BY <1>2 DEF Sound

(* A step of call c that keeps to itself and accounts for what it moves.   *)
LEMMA MoneyStep ==
  ASSUME Base, Base', DriftExplained, BooksExplained, NEW c \in Calls, OffStep(c), TiltStep(c),
         \A s \in Calls \ {c} : /\ pc'[s] = pc[s] /\ req'[s] = req[s]
                                /\ undo'[s] = undo[s] /\ inflight'[s] = inflight[s]
  PROVE  DriftExplained' /\ BooksExplained'
  BY DriftStep, BooksStep DEF OffStep, TiltStep

(* As long as nothing goes wrong while a call unwinds, the drift is        *)
(* explained, and so are the books.                                        *)
LEMMA NextMoney ==
  ASSUME Base, Base', [Next]_vars, DriftExplained, BooksExplained, Sound, Sound'
  PROVE  DriftExplained' /\ BooksExplained'
  <1>1. TypeOK
    BY DEF Base
  <1>2. ASSUME NEW c \in Calls, Handle(c), UNCHANGED <<undo, inflight>>
        PROVE  DriftExplained' /\ BooksExplained'
    <2>1. PICK m : Accept(c, m)
      BY <1>2, HandleSound
    <2>2. /\ pc[c] = "idle" /\ pc' = [pc EXCEPT ![c] = "posting"] /\ req' = [req EXCEPT ![c] = m]
          /\ UNCHANGED <<balance, ledger, books>>
      BY <2>1 DEF Accept, money
    <2>3. pc'[c] = "posting" /\ undo[c] = <<>>
      BY <1>1, <2>2, BaseFacts DEF TypeOK, CallOK
    <2>4. OffStep(c) /\ TiltStep(c)
      BY <1>2, <2>2, <2>3, QuietMoney, SameTilt
    <2>5. QED
      BY <1>1, <1>2, <2>2, <2>4, MoneyStep DEF TypeOK, PostingsTypeOK
  <1>3. ASSUME NEW c \in Calls, Finish(c) \/ FailCommitted(c), UNCHANGED <<undo, inflight>>
        PROVE  DriftExplained' /\ BooksExplained'
    <2>1. /\ pc[c] = "committed" /\ req' = [req EXCEPT ![c] = NoReq]
          /\ \E to \in Terminal : pc' = [pc EXCEPT ![c] = to]
          /\ UNCHANGED <<balance, ledger, books>>
      BY <1>3 DEF Finish, FailCommitted, money, Terminal
    <2>2. pc'[c] \in Terminal /\ pc'[c] # "entries" /\ undo[c] = <<>>
      BY <1>1, <2>1, BaseFacts DEF TypeOK, CallOK, Terminal
    <2>3. OffStep(c) /\ TiltStep(c)
      BY <1>3, <2>1, <2>2, QuietMoney, SameTilt
    <2>4. QED
      BY <1>1, <1>3, <2>1, <2>3, MoneyStep DEF TypeOK, PostingsTypeOK
  <1>4. ASSUME NEW c \in Calls, Start(c) \/ Claim(c) \/ Throw(c)
        PROVE  DriftExplained' /\ BooksExplained'
    <2>1. /\ pc[c] \in {"posting", "claim", "debit", "credit", "record"}
          /\ \E to \in {"claim", "debit", "credit", "record", "unwind"} : pc' = [pc EXCEPT ![c] = to]
          /\ UNCHANGED <<balance, ledger, books, req, undo, inflight>>
      BY <1>4 DEF Start, Claim, Throw, GoTo, FirstWrite, AfterClaim, AfterDebit, Writing, money
    <2>2. pc'[c] # "entries"
      BY <1>1, <2>1 DEF TypeOK
    <2>3. OffStep(c) /\ TiltStep(c)
      BY <2>1, <2>2, QuietMoney, SameTilt
    <2>4. QED
      BY <1>1, <2>1, <2>3, MoneyStep DEF TypeOK
  <1>5. ASSUME NEW c \in Calls, DebitSender(c) \/ CreditReceiver(c) \/ CreateTransaction(c)
        PROVE  DriftExplained' /\ BooksExplained'
    <2>1. OffStep(c) /\ TiltStep(c)
      BY <1>5, DebitMoney, CreditMoney, CreateMoney
    <2>2. \A s \in Calls \ {c} : /\ pc'[s] = pc[s] /\ req'[s] = req[s]
                                 /\ undo'[s] = undo[s] /\ inflight'[s] = inflight[s]
      BY <1>1, <1>5 DEF DebitSender, CreditReceiver, CreateTransaction, GoTo, Register, TypeOK
    <2>3. QED
      BY <2>1, <2>2, MoneyStep
  <1>6. ASSUME NEW c \in Calls, InsertEntry(c) PROVE DriftExplained' /\ BooksExplained'
    <2>1. pc[c] = "entries"
      <3>1. CallOK(c) /\ inflight[c] # {}
        BY <1>6, BaseFacts DEF InsertEntry
      <3>2. CASE pc[c] \in {"unwind", "failed"}
        <4>1. "entry" \in Faults /\ ~AllClean
          BY <3>1, <3>2 DEF CallOK, AllClean
        <4>2. QED
          BY <4>1 DEF Sound
      <3>3. QED
        BY <3>1, <3>2 DEF CallOK
    <2>2. OffStep(c) /\ TiltStep(c)
      BY <1>6, <2>1, InsertMoney
    <2>3. \A s \in Calls \ {c} : /\ pc'[s] = pc[s] /\ req'[s] = req[s]
                                 /\ undo'[s] = undo[s] /\ inflight'[s] = inflight[s]
      BY <1>1, <1>6, InsertFacts DEF TypeOK
    <2>4. QED
      BY <2>2, <2>3, MoneyStep
  <1>7. ASSUME NEW c \in Calls, Unwind(c) PROVE DriftExplained' /\ BooksExplained'
    <2>1. pc[c] = "unwind" /\ "undo" \notin Faults
      <3>1. pc[c] = "unwind"
        BY <1>7 DEF Unwind
      <3>2. ~AllClean
        BY <3>1 DEF AllClean
      <3>3. QED
        BY <3>1, <3>2 DEF Sound
    <2>2. OffStep(c) /\ TiltStep(c)
      BY <1>7, <2>1, UnwindMoney
    <2>3. \A s \in Calls \ {c} : /\ pc'[s] = pc[s] /\ req'[s] = req[s]
                                 /\ undo'[s] = undo[s] /\ inflight'[s] = inflight[s]
      BY <1>1, <1>7 DEF Unwind, TypeOK
    <2>4. QED
      BY <2>2, <2>3, MoneyStep
  <1>8. ASSUME NEW c \in Calls, Rethrow(c) PROVE DriftExplained' /\ BooksExplained'
    <2>1. /\ pc[c] = "unwind" /\ undo[c] = <<>>
          /\ pc' = [pc EXCEPT ![c] = "failed"] /\ req' = [req EXCEPT ![c] = NoReq]
          /\ UNCHANGED <<balance, ledger, books, undo, inflight>>
      BY <1>8 DEF Rethrow, Fail, money
    <2>2. pc'[c] = "failed"
      BY <1>1, <2>1 DEF TypeOK
    <2>3. OffStep(c) /\ TiltStep(c)
      BY <2>1, <2>2, QuietMoney, SameTilt
    <2>4. QED
      BY <1>1, <2>1, <2>3, MoneyStep DEF TypeOK, PostingsTypeOK
  <1>9. ASSUME NEW c \in Calls, EntryFails(c) \/ Crash(c) PROVE FALSE
    <2>1. "entry" \in Faults \/ "crash" \in Faults
      BY <1>9 DEF EntryFails, Crash
    <2>2. pc'[c] \in {"unwind", "failed"}
      <3>1. CASE EntryFails(c)
        <4>1. PICK e : e \in inflight[c]
          BY <3>1 DEF EntryFails
        <4>2. pc[c] \in {"entries", "unwind", "failed"}
          BY <4>1, BaseFacts DEF CallOK
        <4>3. QED
          BY <1>1, <3>1, <4>2 DEF EntryFails, GoTo, TypeOK
      <3>2. CASE Crash(c)
        BY <1>1, <3>2 DEF Crash, Fail, TypeOK
      <3>3. QED
        BY <1>9, <3>1, <3>2
    <2>3. ~AllClean'
      BY <2>2 DEF AllClean
    <2>4. QED
      BY <2>1, <2>3 DEF Sound
  <1>10. ASSUME UNCHANGED <<balance, ledger, books, txns, pc, req, emitted, undo, inflight>>
         PROVE  DriftExplained' /\ BooksExplained'
    BY <1>10 DEF DriftExplained, BooksExplained, Moved, Entered, Tilt
  <1>11. QED
    <2>1. ASSUME NEW c \in Calls, Post(c) PROVE DriftExplained' /\ BooksExplained'
      BY <1>4, <1>5, <1>6, <1>7, <1>8, <2>1 DEF Post
    <2>2. ASSUME NEW u \in Users, DeactivateAccount(u) PROVE DriftExplained' /\ BooksExplained'
      BY <1>10, <2>2 DEF DeactivateAccount
    <2>3. CASE UNCHANGED vars
      BY <1>10, <2>3 DEF vars, money
    <2>4. QED
      BY <1>2, <1>3, <1>9, <2>1, <2>2, <2>3 DEF Next, Settled

-------------------------------------------------------------------------------
(* What the calls have refunded, and claimed, of a transfer.               *)
ShareOK == \A r, t \in Calls : Share(r, t) \in Int

LEMMA ShareHolds == Base => ShareOK
  <1> SUFFICES ASSUME Base, NEW r \in Calls, NEW t \in Calls PROVE Share(r, t) \in Int
    BY DEF ShareOK
  <1>1. req[r].amountPaise \in Int
    BY BaseFacts, PostingsAssumption DEF Requests, NoReq
  <1>2. txns[r] # NoTxn => txns[r].amountPaise \in Int
    BY BaseFacts, PostingsAssumption DEF Transactions
  <1>3. QED
    BY <1>1, <1>2 DEF Share

LEMMA ShareHoldsNext == Base' => ShareOK'
  BY ShareHolds, PTL

(* Targets are Transactions that exist.                                    *)
Targets ==
  /\ \A r \in Calls : txns[r] # NoTxn /\ txns[r].refundOf \in Calls => txns[txns[r].refundOf] # NoTxn
  /\ \A r \in Calls : pc[r] \in Active /\ req[r].refundOf \in Calls => txns[req[r].refundOf] # NoTxn
Refunded(t) == txns[t].refundedPaise = SumFunction([r \in Calls |-> Share(r, t)])

LEMMA ClaimsParts ==
  ClaimsExplained <=> Targets /\ (\A t \in Calls : txns[t] # NoTxn => Refunded(t))
  BY DEF ClaimsExplained, Targets, Refunded

LEMMA ClaimsPartsNext ==
  Targets' /\ (\A t \in Calls : txns'[t] # NoTxn => Refunded(t)') => ClaimsExplained'
  BY DEF ClaimsExplained, Targets, Refunded

LEMMA RefundedStep ==
  ASSUME Base, Base', NEW t \in Calls, Refunded(t), NEW c \in Calls,
         \A r \in Calls \ {c} : Share(r, t)' = Share(r, t),
         txns'[t].refundedPaise = txns[t].refundedPaise + (Share(c, t)' - Share(c, t))
  PROVE  Refunded(t)'
  <1> DEFINE f == [r \in Calls |-> Share(r, t)]
             g == [r \in Calls |-> Share(r, t)']
  <1>1. txns[t].refundedPaise = SumFunction(f)
    BY DEF Refunded
  <1>2. /\ DOMAIN f = Calls /\ DOMAIN g = Calls
        /\ \A r \in Calls : f[r] \in Int /\ f[r] = Share(r, t)
    BY ShareHolds DEF ShareOK
  <1>3. \A r \in Calls : g[r] \in Int /\ g[r] = Share(r, t)'
    BY ShareHoldsNext DEF ShareOK
  <1>4. \A r \in Calls \ {c} : g[r] = f[r]
    BY <1>2, <1>3
  <1>5. f[c] \in Int /\ g[c] \in Int /\ f[c] = Share(c, t) /\ g[c] = Share(c, t)'
    BY <1>2, <1>3
  <1>6. SumFunction(f) = SumFunctionOnSet(f, Calls) /\ SumFunction(g) = SumFunctionOnSet(g, Calls)
    BY <1>2 DEF SumFunction
  <1>7. txns'[t].refundedPaise = SumFunction(f) + (g[c] - f[c])
    BY <1>1, <1>5
  <1> HIDE DEF f, g
  <1>8. SumFunctionOnSet(g, Calls) = SumFunctionOnSet(f, Calls) + g[c] - f[c]
    BY <1>2, <1>3, <1>4, CallsAssumption, SumChange
  <1>9. SumFunctionOnSet(f, Calls) \in Int
    BY <1>2, CallsAssumption, SumInt
  <1>10. txns'[t].refundedPaise = SumFunction(g)
    BY <1>5, <1>6, <1>7, <1>8, <1>9
  <1>11. QED
    BY <1>10 DEF g, Refunded

(* The shares of the calls that take no step stay as they are.             *)
LEMMA OtherShares ==
  ASSUME NEW r \in Calls, NEW t, pc'[r] = pc[r], req'[r] = req[r],
         txns'[r] = NoTxn <=> txns[r] = NoTxn,
         txns[r] # NoTxn => txns'[r].refundOf = txns[r].refundOf /\ txns'[r].amountPaise = txns[r].amountPaise
  PROVE  Share(r, t)' = Share(r, t)
  BY DEF Share

(* A step of call c that writes no Transaction.                            *)
LEMMA QuietClaims ==
  ASSUME Base, Base', ClaimsExplained, NEW c \in Calls, UNCHANGED txns,
         \A s \in Calls \ {c} : pc'[s] = pc[s] /\ req'[s] = req[s],
         \A t \in Calls : Share(c, t)' = Share(c, t),
         pc'[c] \in Active /\ req'[c].refundOf \in Calls => txns[req'[c].refundOf] # NoTxn
  PROVE  ClaimsExplained'
  <1>1. Targets /\ (\A t \in Calls : txns[t] # NoTxn => Refunded(t))
    BY ClaimsParts
  <1>2. Targets'
    BY <1>1 DEF Targets
  <1>3. ASSUME NEW t \in Calls, txns'[t] # NoTxn PROVE Refunded(t)'
    <2>1. Refunded(t)
      BY <1>1, <1>3
    <2>2. \A r \in Calls \ {c} : Share(r, t)' = Share(r, t)
      BY OtherShares
    <2>3. txns[t].refundedPaise \in Int
      BY <1>3, BaseFacts DEF Transactions
    <2>4. Share(c, t) \in Int /\ Share(c, t)' = Share(c, t)
      BY ShareHolds DEF ShareOK
    <2>5. txns'[t].refundedPaise = txns[t].refundedPaise + (Share(c, t)' - Share(c, t))
      BY <2>3, <2>4
    <2>6. QED
      BY <2>1, <2>2, <2>5, RefundedStep
  <1>4. QED
    BY <1>2, <1>3, ClaimsPartsNext

LEMMA ClaimClaims ==
  ASSUME Base, Base', ClaimsExplained, NEW c \in Calls, Claim(c)
  PROVE  ClaimsExplained'
  <1> DEFINE m == req[c]
             o == m.refundOf
  <1>1. /\ RequestSound(m) /\ m.type = "REFUND" /\ o \in Calls \ {c} /\ txns[o] \in Transactions
        /\ txns' \in [Calls -> Transactions \cup {NoTxn}]
        /\ txns'[o] \in Transactions
        /\ txns'[o].refundedPaise = txns[o].refundedPaise + m.amountPaise
        /\ txns'[o].refundOf = txns[o].refundOf /\ txns'[o].amountPaise = txns[o].amountPaise
        /\ \A t \in Calls \ {o} : txns'[t] = txns[t]
    BY ClaimFacts
  <1>2. TypeOK /\ CallOK(c) /\ pc[c] = "claim" /\ AfterClaim(m) = "debit"
    BY <1>1, BaseFacts, SoundFacts, AccountsAssumption DEF Claim, AfterClaim
  <1>3. pc' = [pc EXCEPT ![c] = "debit"] /\ req' = req
    BY <1>2 DEF Claim, GoTo
  <1>4. pc'[c] = "debit" /\ txns[c] = NoTxn /\ txns'[c] = NoTxn
    BY <1>1, <1>2, <1>3 DEF TypeOK, CallOK, Before
  <1>5. NoTxn \notin Transactions
    BY NoTxnAssumption
  <1>6. \A r \in Calls : /\ txns'[r] = NoTxn <=> txns[r] = NoTxn
                         /\ txns[r] # NoTxn => txns'[r].refundOf = txns[r].refundOf
                                               /\ txns'[r].amountPaise = txns[r].amountPaise
    BY <1>1, <1>5
  <1>7. Targets /\ (\A t \in Calls : txns[t] # NoTxn => Refunded(t))
    BY ClaimsParts
  <1> HIDE DEF m
  <1>8. Targets'
    <2>1. \A r \in Calls \ {c} : pc'[r] = pc[r]
      BY <1>2, <1>3 DEF TypeOK
    <2>2. txns[o] # NoTxn
      BY <1>1, <1>5
    <2>3. QED
      BY <1>3, <1>6, <1>7, <2>1, <2>2 DEF Targets, m
  <1>9. ASSUME NEW t \in Calls, txns'[t] # NoTxn PROVE Refunded(t)'
    <2>1. Refunded(t) /\ txns[t] # NoTxn
      BY <1>6, <1>7, <1>9
    <2>2. \A r \in Calls \ {c} : Share(r, t)' = Share(r, t)
      <3>1. \A r \in Calls \ {c} : pc'[r] = pc[r] /\ req'[r] = req[r]
        BY <1>2, <1>3 DEF TypeOK
      <3>2. QED
        BY <1>6, <3>1, OtherShares
    <2>3. txns[t].refundedPaise \in Int /\ m.amountPaise \in Int
      BY <1>1, <2>1, BaseFacts, SoundFacts DEF Transactions
    <2>4. Share(c, t) = 0 /\ Share(c, t)' = IF o = t THEN m.amountPaise ELSE 0
      BY <1>2, <1>3, <1>4 DEF Share, m
    <2>5. txns'[t].refundedPaise = txns[t].refundedPaise + (Share(c, t)' - Share(c, t))
      BY <1>1, <2>3, <2>4
    <2>6. QED
      BY <2>1, <2>2, <2>5, RefundedStep
  <1>10. QED
    BY <1>8, <1>9, ClaimsPartsNext

(* The Transaction of a refund takes over what the refund had claimed; of  *)
(* a new Transaction nothing has been claimed yet.                         *)
LEMMA CreateClaims ==
  ASSUME Base, Base', ClaimsExplained, NEW c \in Calls, CreateTransaction(c)
  PROVE  ClaimsExplained'
  <1> DEFINE m == req[c]
             o == m.refundOf
  <1>1. TypeOK /\ CallOK(c) /\ pc[c] = "record" /\ RequestSound(m) /\ txns[c] = NoTxn
    BY BaseFacts DEF CreateTransaction, CallOK, Active, UnderWay, Writing, Before
  <1>2. /\ pc' = [pc EXCEPT ![c] = "entries"] /\ txns' = [txns EXCEPT ![c] = TxnDoc(m)] /\ req' = req
    BY DEF CreateTransaction, GoTo
  <1>3. /\ pc'[c] = "entries" /\ txns'[c] = TxnDoc(m)
        /\ \A r \in Calls \ {c} : pc'[r] = pc[r] /\ req'[r] = req[r] /\ txns'[r] = txns[r]
    BY <1>1, <1>2 DEF TypeOK, PostingsTypeOK
  <1>4. txns'[c] # NoTxn
    BY <1>3, BaseFacts DEF Base, CallOK
  <1>5. txns'[c].refundOf = o /\ txns'[c].amountPaise = m.amountPaise /\ txns'[c].refundedPaise = 0
    BY <1>3 DEF TxnDoc
  <1>6. Targets /\ (\A t \in Calls : txns[t] # NoTxn => Refunded(t))
    BY ClaimsParts
  <1> HIDE DEF m
  <1>7. pc[c] \in Active /\ (o \in Calls => txns[o] # NoTxn)
    BY <1>1, <1>6 DEF Targets, Active, UnderWay, Writing, m
  <1>8. Targets'
    <2>1. ASSUME NEW r \in Calls, txns'[r] # NoTxn, txns'[r].refundOf \in Calls
          PROVE  txns'[txns'[r].refundOf] # NoTxn
      <3>1. CASE r = c
        BY <1>3, <1>4, <1>5, <1>7, <2>1, <3>1
      <3>2. CASE r # c
        BY <1>3, <1>4, <1>6, <2>1, <3>2 DEF Targets
      <3>3. QED
        BY <3>1, <3>2
    <2>2. ASSUME NEW r \in Calls, pc'[r] \in Active, req'[r].refundOf \in Calls
          PROVE  txns'[req'[r].refundOf] # NoTxn
      <3>1. pc[r] \in Active /\ req[r] = req'[r]
        BY <1>2, <1>3, <1>7, <2>2
      <3>2. txns[req[r].refundOf] # NoTxn
        BY <1>6, <2>2, <3>1 DEF Targets
      <3>3. QED
        BY <1>3, <1>4, <2>2, <3>1, <3>2
    <2>3. QED
      BY <2>1, <2>2 DEF Targets
  <1>9. ASSUME NEW t \in Calls PROVE Share(c, t)' = Share(c, t)
    BY <1>1, <1>2, <1>3, <1>4, <1>5 DEF Share, m
  <1>10. ASSUME NEW t \in Calls, NEW r \in Calls \ {c} PROVE Share(r, t)' = Share(r, t)
    BY <1>3, OtherShares
  <1>11. ASSUME NEW t \in Calls, txns'[t] # NoTxn, t # c PROVE Refunded(t)'
    <2>1. Refunded(t) /\ txns'[t] = txns[t] /\ txns[t] # NoTxn
      BY <1>3, <1>6, <1>11
    <2>2. txns[t].refundedPaise \in Int
      BY <2>1, BaseFacts DEF Transactions
    <2>3. Share(c, t) \in Int /\ Share(c, t)' = Share(c, t)
      BY <1>9, ShareHolds DEF ShareOK
    <2>4. txns'[t].refundedPaise = txns[t].refundedPaise + (Share(c, t)' - Share(c, t))
      BY <2>1, <2>2, <2>3
    <2>5. QED
      BY <1>10, <2>1, <2>4, RefundedStep
  <1>12. Refunded(c)'
    <2>1. ASSUME NEW r \in Calls PROVE Share(r, c)' = 0
      <3>1. txns[r] # NoTxn => txns[r].refundOf # c
        BY <1>1, <1>6 DEF Targets
      <3>2. pc[r] \in {"debit", "credit", "record"} => req[r].refundOf # c
        BY <1>1, <1>6 DEF Targets, Active, UnderWay, Writing
      <3>3. Share(r, c) = 0
        BY <3>1, <3>2 DEF Share
      <3>4. QED
        BY <1>9, <1>10, <3>3
    <2> DEFINE g == [r \in Calls |-> Share(r, c)']
    <2>2. DOMAIN g = Calls /\ \A r \in Calls : g[r] = 0
      BY <2>1
    <2>3. SumFunction(g) = SumFunctionOnSet(g, Calls)
      BY <2>2 DEF SumFunction
    <2>4. SumFunction(g) = 0
      <3> HIDE DEF g
      <3>1. SumFunctionOnSet(g, Calls) = 0 * Cardinality(Calls)
        BY <2>2, CallsAssumption, SumConst
      <3>2. Cardinality(Calls) \in Nat
        BY CallsAssumption, FS_CardinalityType
      <3>3. QED
        BY <2>3, <3>1, <3>2
    <2>5. QED
      BY <1>5, <2>4 DEF Refunded
  <1>13. QED
    BY <1>8, <1>11, <1>12, ClaimsPartsNext

LEMMA NextClaims ==
  ASSUME Base, Base', [Next]_vars, ClaimsExplained, AllClean, AllClean'
  PROVE  ClaimsExplained'
  <1>1. TypeOK
    BY DEF Base
  <1>2. ASSUME NEW c \in Calls, Handle(c) PROVE ClaimsExplained'
    <2>1. PICK m : Accept(c, m) /\ RequestSound(m) /\ (m.refundOf \in Calls => txns[m.refundOf] # NoTxn)
      BY <1>2, HandleSound
    <2>2. /\ pc[c] = "idle" /\ pc' = [pc EXCEPT ![c] = "posting"] /\ req' = [req EXCEPT ![c] = m]
          /\ UNCHANGED txns
      BY <2>1 DEF Accept, money
    <2>3. pc'[c] = "posting" /\ req'[c] = m /\ txns[c] = NoTxn
      BY <1>1, <2>2, BaseFacts DEF TypeOK, PostingsTypeOK, CallOK, Before
    <2>4. \A t \in Calls : Share(c, t)' = Share(c, t)
      BY <2>2, <2>3 DEF Share
    <2>5. \A s \in Calls \ {c} : pc'[s] = pc[s] /\ req'[s] = req[s]
      BY <1>1, <2>2 DEF TypeOK, PostingsTypeOK
    <2>6. QED
      BY <2>1, <2>2, <2>3, <2>4, <2>5, QuietClaims
  <1>3. ASSUME NEW c \in Calls, Finish(c) \/ FailCommitted(c) PROVE ClaimsExplained'
    <2>1. /\ pc[c] = "committed" /\ pc' = [pc EXCEPT ![c] = "done"] /\ req' = [req EXCEPT ![c] = NoReq]
          /\ UNCHANGED txns
      <3>1. ASSUME FailCommitted(c) PROVE FALSE
        BY <1>1, <3>1 DEF FailCommitted, TypeOK, AllClean
      <3>2. QED
        BY <1>3, <3>1 DEF Finish, money
    <2>2. pc'[c] = "done" /\ txns[c] # NoTxn
      BY <1>1, <2>1, BaseFacts DEF TypeOK, CallOK
    <2>3. \A t \in Calls : Share(c, t)' = Share(c, t)
      BY <2>1, <2>2 DEF Share
    <2>4. \A s \in Calls \ {c} : pc'[s] = pc[s] /\ req'[s] = req[s]
      BY <1>1, <2>1 DEF TypeOK, PostingsTypeOK
    <2>5. pc'[c] \notin Active
      BY <2>2 DEF Active, UnderWay, Writing
    <2>6. QED
      BY <2>1, <2>3, <2>4, <2>5, QuietClaims
  <1>4. ASSUME NEW c \in Calls, Start(c) \/ DebitSender(c) \/ CreditReceiver(c) PROVE ClaimsExplained'
    <2>1. /\ pc[c] \in {"posting", "debit", "credit"} /\ UNCHANGED <<txns, req>>
          /\ pc' = [pc EXCEPT ![c] = IF pc[c] = "posting" THEN FirstWrite(req[c])
                                     ELSE IF pc[c] = "debit" THEN AfterDebit(req[c]) ELSE "record"]
      BY <1>4 DEF Start, DebitSender, CreditReceiver, GoTo, money
    <2>2. CallOK(c) /\ RequestSound(req[c]) /\ txns[c] = NoTxn /\ pc[c] \in Active
      BY <2>1, BaseFacts DEF CallOK, Active, UnderWay, Writing, Before
    <2>3. /\ pc'[c] \in {"claim", "debit", "credit", "record"}
          /\ pc[c] = "posting" => pc'[c] = "claim" \/ req[c].refundOf \notin Calls
          /\ pc[c] # "posting" => pc'[c] \in {"credit", "record"}
      BY <1>1, <2>1, <2>2, SoundFacts DEF TypeOK, AfterDebit
    <2>4. \A t \in Calls : Share(c, t)' = Share(c, t)
      BY <2>1, <2>2, <2>3 DEF Share
    <2>5. \A s \in Calls \ {c} : pc'[s] = pc[s] /\ req'[s] = req[s]
      BY <1>1, <2>1 DEF TypeOK
    <2>6. req'[c].refundOf \in Calls => txns[req'[c].refundOf] # NoTxn
      BY <2>1, <2>2 DEF ClaimsExplained
    <2>7. QED
      BY <2>1, <2>4, <2>5, <2>6, QuietClaims
  <1>5. ASSUME NEW c \in Calls, InsertEntry(c) PROVE ClaimsExplained'
    <2>1. pc[c] = "entries" /\ txns[c] # NoTxn /\ pc[c] \in Active
      BY <1>5, BaseFacts DEF InsertEntry, CallOK, AllClean, Active, UnderWay
    <2>2. /\ UNCHANGED <<txns, req>>
          /\ \/ pc' = [pc EXCEPT ![c] = "committed"]
             \/ UNCHANGED pc
      BY <1>5, InsertFacts
    <2>3. \A t \in Calls : Share(c, t)' = Share(c, t)
      BY <1>1, <2>1, <2>2 DEF Share
    <2>4. \A s \in Calls \ {c} : pc'[s] = pc[s] /\ req'[s] = req[s]
      BY <1>1, <2>2 DEF TypeOK
    <2>5. req'[c].refundOf \in Calls => txns[req'[c].refundOf] # NoTxn
      BY <2>1, <2>2 DEF ClaimsExplained
    <2>6. QED
      BY <2>2, <2>3, <2>4, <2>5, QuietClaims
  <1>6. ASSUME NEW c \in Calls, Throw(c) \/ Unwind(c) \/ Rethrow(c) \/ EntryFails(c) \/ Crash(c) PROVE FALSE
    <2>1. CASE Unwind(c) \/ Rethrow(c)
      BY <2>1 DEF Unwind, Rethrow, AllClean
    <2>2. CASE Throw(c) \/ Crash(c)
      BY <1>1, <2>2 DEF Throw, Crash, GoTo, Fail, TypeOK, AllClean
    <2>3. CASE EntryFails(c)
      <3>1. pc[c] = "entries"
        BY <2>3, BaseFacts DEF EntryFails, CallOK, AllClean
      <3>2. QED
        BY <1>1, <2>3, <3>1 DEF EntryFails, GoTo, TypeOK, AllClean
    <2>4. QED
      BY <1>6, <2>1, <2>2, <2>3
  <1>7. ASSUME UNCHANGED <<txns, pc, req>> PROVE ClaimsExplained'
    BY <1>7 DEF ClaimsExplained, Share
  <1>8. QED
    <2>1. ASSUME NEW c \in Calls, Post(c) PROVE ClaimsExplained'
      BY <1>4, <1>5, <1>6, <2>1, ClaimClaims, CreateClaims DEF Post
    <2>2. ASSUME NEW u \in Users, DeactivateAccount(u) PROVE ClaimsExplained'
      BY <1>7, <2>2 DEF DeactivateAccount
    <2>3. CASE UNCHANGED vars
      BY <1>7, <2>3 DEF vars, money
    <2>4. QED
      BY <1>2, <1>3, <1>6, <2>1, <2>2, <2>3 DEF Next, Settled

-------------------------------------------------------------------------------
(* A sum whose terms are all 0.                                            *)
LEMMA SumZero ==
  ASSUME NEW S, IsFiniteSet(S), NEW f, DOMAIN f = S, \A x \in S : f[x] = 0
  PROVE  SumFunction(f) = 0
  <1>1. SumFunctionOnSet(f, S) = 0 * Cardinality(S)
    BY SumConst
  <1>2. Cardinality(S) \in Nat
    BY FS_CardinalityType
  <1>3. QED
    BY <1>1, <1>2 DEF SumFunction

LEMMA InitMoney == Init => DriftExplained /\ BooksExplained /\ ClaimsExplained
  <1> SUFFICES ASSUME Init PROVE DriftExplained /\ BooksExplained /\ ClaimsExplained
    OBVIOUS
  <1>1. /\ balance = Opening /\ ledger = Opening /\ Opening \in [Users -> Nat]
        /\ books = [DEBIT |-> 0, CREDIT |-> 0]
        /\ \A c \in Calls : /\ txns[c] = NoTxn /\ pc[c] = "idle" /\ undo[c] = <<>> /\ inflight[c] = {}
    BY PostingsAssumption DEF Init, PostingsInit
  <1>2. Base
    BY InitBase
  <1>3. ASSUME NEW u \in Users PROVE SumFunction([c \in Calls |-> Moved(c, u) - Entered(c, u)]) = 0
    <2> DEFINE f == [c \in Calls |-> Moved(c, u) - Entered(c, u)]
    <2>1. ASSUME NEW c \in Calls PROVE Moved(c, u) = 0 /\ Entered(c, u) = 0
      BY <1>1, RangeOfTuple DEF Moved, Entered
    <2>2. DOMAIN f = Calls /\ \A c \in Calls : f[c] = 0
      BY <2>1
    <2> HIDE DEF f
    <2>3. SumFunction(f) = 0
      BY <2>2, CallsAssumption, SumZero
    <2>4. QED
      BY <2>3 DEF f
  <1>4. SumFunction([c \in Calls |-> Tilt(c)]) = 0
    <2> DEFINE f == [c \in Calls |-> Tilt(c)]
    <2>1. ASSUME NEW c \in Calls PROVE Tilt(c) = 0
      BY <1>1, <1>2, TiltHolds, NoEntries DEF TiltOK
    <2>2. DOMAIN f = Calls /\ \A c \in Calls : f[c] = 0
      BY <2>1
    <2> HIDE DEF f
    <2>3. SumFunction(f) = 0
      BY <2>2, CallsAssumption, SumZero
    <2>4. QED
      BY <2>3 DEF f
  <1>5. DriftExplained
    <2> SUFFICES ASSUME NEW u \in Users
                 PROVE  balance[u] - ledger[u] = SumFunction([c \in Calls |-> Moved(c, u) - Entered(c, u)])
      BY DEF DriftExplained
    <2>1. balance[u] - ledger[u] = 0
      BY <1>1
    <2>2. QED
      BY <1>3, <2>1
  <1>6. BooksExplained
    BY <1>1, <1>4 DEF BooksExplained
  <1>7. ClaimsExplained
    BY <1>1 DEF ClaimsExplained, Active, UnderWay, Writing
  <1>8. QED
    BY <1>5, <1>6, <1>7

LEMMA Inductive == Spec => []IInv
  <1>1. Init => IInv
    BY InitBase, InitMoney DEF IInv
  <1>2. IInv /\ [Next]_vars => IInv'
    <2> SUFFICES ASSUME IInv, [Next]_vars PROVE IInv'
      OBVIOUS
    <2>1. Base /\ Base'
      BY NextBase DEF IInv
    <2>2. (AllClean' => AllClean) /\ (Sound' => Sound)
      BY <2>1, SoundBefore
    <2>3. ASSUME Sound' PROVE DriftExplained' /\ BooksExplained'
      BY <2>1, <2>2, <2>3, NextMoney DEF IInv
    <2>4. ASSUME AllClean' PROVE ClaimsExplained'
      BY <2>1, <2>2, <2>4, NextClaims DEF IInv
    <2>5. QED
      BY <2>1, <2>3, <2>4 DEF IInv
  <1>3. QED
    BY <1>1, <1>2, PTL DEF Spec

(* Type correctness of the ledger service without a session: what a call   *)
(* has registered to compensate is always one of the eight sequences that  *)
(* postTransaction can build, newest first.                                *)
THEOREM StandaloneLedgerTypes == Spec => []TypeOK
  <1>1. IInv => TypeOK
    BY DEF IInv, Base
  <1>2. QED
    BY <1>1, Inductive, PTL

(* While the only fault is a write that fails, any difference between a    *)
(* cached balance and the ledger is the doing of the calls under way, in   *)
(* whatever order postTransaction's writes and compensations interleave.   *)
THEOREM StandaloneDriftIsExplained ==
  ASSUME Faults \subseteq {"write"}
  PROVE  Spec => []DriftExplained
  <1>1. IInv => DriftExplained
    BY DEF IInv, Sound
  <1>2. QED
    BY <1>1, Inductive, PTL

(* At rest nothing is in flight, so the books balance.                     *)
LEMMA RestBalances ==
  ASSUME IInv, Sound, AtRest
  PROVE  books["DEBIT"] = books["CREDIT"]
  <1> DEFINE f == [c \in Calls |-> Tilt(c)]
  <1>1. ASSUME NEW c \in Calls PROVE Tilt(c) = 0
    BY TiltHolds, NoEntries DEF TiltOK, AtRest, IInv
  <1>2. DOMAIN f = Calls /\ \A c \in Calls : f[c] = 0
    BY <1>1
  <1>3. books["CREDIT"] - books["DEBIT"] = SumFunction(f)
    BY DEF IInv, BooksExplained
  <1> HIDE DEF f
  <1>4. SumFunction(f) = 0
    BY <1>2, CallsAssumption, SumZero
  <1>5. QED
    BY <1>3, <1>4, TiltHolds DEF TiltOK, IInv

-------------------------------------------------------------------------------
(* The entries a call has inserted.  A call that fails before its commit   *)
(* can only ever get one side in, since the save that failed is not        *)
(* repeated; one that fails after it has both, and its Transaction.        *)
OneSided(S) == \E d \in {"DEBIT", "CREDIT"} : \A e \in S : e.direction = d
Pair(S) ==
  \E e, k \in Entries : /\ S = {e, k} /\ e.direction = "DEBIT" /\ k.direction = "CREDIT"
                        /\ e.amountPaise = k.amountPaise

EntriesTypeOK == inserted \in [Calls -> SUBSET Entries]

EntriesOK(c) ==
  /\ IsFiniteSet(inserted[c]) /\ inserted[c] \cap inflight[c] = {}
  /\ pc[c] \in Before => inserted[c] = {}
  /\ pc[c] = "entries" => Pair(inserted[c] \cup inflight[c])
  /\ pc[c] \in {"committed", "done"} => Pair(inserted[c])
  /\ pc[c] = "unwind" => OneSided(inserted[c] \cup inflight[c])
  /\ pc[c] = "failed" => \/ OneSided(inserted[c] \cup inflight[c])
                         \/ Pair(inserted[c]) /\ inflight[c] = {} /\ txns[c] # NoTxn

BooksLopsided ==
  books["DEBIT"] - books["CREDIT"] = SumFunction([c \in Calls |-> Lopsided(c)])

EntriesInv == EntriesTypeOK /\ (\A c \in Calls : EntriesOK(c)) /\ BooksLopsided

(* A pair is not one-sided, even without one of its entries, and balances. *)
LEMMA PairFacts ==
  ASSUME NEW S, Pair(S)
  PROVE  /\ S # {} /\ ~OneSided(S) /\ {e.direction : e \in S} = {"DEBIT", "CREDIT"}
         /\ \A e \in S : OneSided(S \ {e})
         /\ SumFunctionOnSet(Side, S) = 0
  <1>1. PICK e, k \in Entries : /\ S = {e, k} /\ e.direction = "DEBIT" /\ k.direction = "CREDIT"
                                /\ e.amountPaise = k.amountPaise
    BY DEF Pair
  <1>2. S # {} /\ ~OneSided(S) /\ {x.direction : x \in S} = {"DEBIT", "CREDIT"}
    BY <1>1 DEF OneSided
  <1>3. \A x \in S : OneSided(S \ {x})
    BY <1>1 DEF OneSided
  <1>4. IsFiniteSet({e}) /\ k \notin {e} /\ S = {e} \cup {k}
    BY <1>1, FS_Singleton
  <1>5. IsFiniteSet({}) /\ e \notin {} /\ {e} = {} \cup {e}
    BY FS_EmptySet
  <1>6. Side[e] = e.amountPaise /\ Side[k] = -e.amountPaise /\ e.amountPaise \in Int
    BY <1>1 DEF Side, OnSide, Entries
  <1>7. SumFunctionOnSet(Side, {e}) = 0 + Side[e]
    <2>1. \A y \in {} \cup {e} : Side[y] \in Int
      BY <1>6
    <2>2. SumFunctionOnSet(Side, {} \cup {e}) = SumFunctionOnSet(Side, {}) + Side[e]
      BY <1>5, <2>1, SumAdd
    <2>3. QED
      BY <1>5, <2>2, SumEmpty
  <1>8. SumFunctionOnSet(Side, S) = SumFunctionOnSet(Side, {e}) + Side[k]
    <2>1. \A y \in {e} \cup {k} : Side[y] \in Int
      BY <1>6
    <2>2. QED
      BY <1>4, <2>1, SumAdd
  <1>9. SumFunctionOnSet(Side, S) = 0
    BY <1>6, <1>7, <1>8
  <1>10. QED
    BY <1>2, <1>3, <1>9, Zenon

(* A part of what is one-sided is one-sided.                               *)
LEMMA OneSidedPart ==
  ASSUME NEW S, OneSided(S), NEW T \in SUBSET S
  PROVE  OneSided(T)
  BY DEF OneSided

LEMMA BuiltPair ==
  ASSUME NEW m, RequestSound(m)
  PROVE  Pair(Range(BuildEntries(m)))
  BY BuildFacts DEF Pair

(* The entries of the calls that take no step stay as they are.            *)
LEMMA OthersEntries ==
  ASSUME EntriesInv, NEW c \in Calls, EntriesTypeOK', EntriesOK(c)', BooksLopsided',
         \A s \in Calls \ {c} : /\ pc'[s] = pc[s] /\ inflight'[s] = inflight[s]
                                /\ inserted'[s] = inserted[s]
                                /\ txns[s] # NoTxn => txns'[s] # NoTxn
  PROVE  EntriesInv'
  <1>1. ASSUME NEW s \in Calls \ {c} PROVE EntriesOK(s)'
    <2>1. EntriesOK(s)
      BY DEF EntriesInv
    <2>2. QED
      BY <2>1 DEF EntriesOK
  <1>2. QED
    BY <1>1 DEF EntriesInv

(* A step that inserts nothing keeps the books as they are.                *)
LEMMA SameBooks ==
  ASSUME EntriesInv, UNCHANGED <<books, inserted>>
  PROVE  EntriesTypeOK' /\ BooksLopsided'
  BY DEF EntriesInv, EntriesTypeOK, BooksLopsided, Lopsided

(* A step of call c that leaves its entries, inserted and in flight, alone.*)
LEMMA QuietEntries ==
  ASSUME EntriesInv, NEW c \in Calls, UNCHANGED <<books, inserted>>, inflight' = inflight,
         NEW to, pc' = [pc EXCEPT ![c] = to], TypeOK,
         \A s \in Calls : txns[s] # NoTxn => txns'[s] # NoTxn \/ (s = c /\ pc[c] = "unwind"),
         \/ pc[c] \in Before /\ to \in Before
         \/ pc[c] \in Before /\ to = "unwind" /\ inflight[c] = {}
         \/ pc[c] = "unwind" /\ to \in {"unwind", "failed"}
         \/ pc[c] = "committed" /\ to = "done"
         \/ pc[c] = "committed" /\ to = "failed" /\ inflight[c] = {} /\ txns[c] # NoTxn
  PROVE  EntriesInv'
  <1>1. EntriesOK(c) /\ EntriesTypeOK' /\ BooksLopsided'
    BY SameBooks DEF EntriesInv
  <1>2. pc'[c] = to /\ inflight'[c] = inflight[c] /\ inserted'[c] = inserted[c]
    BY DEF TypeOK
  <1>3. OneSided({})
    BY DEF OneSided
  <1>4. EntriesOK(c)'
    BY <1>1, <1>2, <1>3 DEF EntriesOK, Before
  <1>5. \A s \in Calls \ {c} : pc'[s] = pc[s]
    BY DEF TypeOK
  <1>6. QED
    BY <1>1, <1>4, <1>5, OthersEntries

LEMMA CreateEntries ==
  ASSUME Base, EntriesInv, NEW c \in Calls, CreateTransaction(c)
  PROVE  EntriesInv'
  <1> DEFINE B == Range(BuildEntries(req[c]))
  <1>1. TypeOK /\ CallOK(c) /\ EntriesOK(c) /\ pc[c] = "record" /\ RequestSound(req[c])
    BY BaseFacts DEF CreateTransaction, CallOK, Active, UnderWay, Writing, EntriesInv
  <1>2. /\ pc' = [pc EXCEPT ![c] = "entries"] /\ inflight' = [inflight EXCEPT ![c] = B]
        /\ txns' = [txns EXCEPT ![c] = TxnDoc(req[c])] /\ UNCHANGED <<books, inserted>>
    BY DEF CreateTransaction, GoTo
  <1>3. Pair(B)
    BY <1>1, BuiltPair
  <1> HIDE DEF B
  <1>4. /\ pc'[c] = "entries" /\ inflight'[c] = B /\ inserted'[c] = {} /\ inserted[c] = {}
        /\ {} \cup B = B /\ {} \cap B = {}
    BY <1>1, <1>2 DEF TypeOK, EntriesOK, Before
  <1>5. EntriesOK(c)'
    BY <1>1, <1>3, <1>4 DEF EntriesOK, Before
  <1>6. \A s \in Calls \ {c} : pc'[s] = pc[s] /\ inflight'[s] = inflight[s] /\ txns'[s] = txns[s]
    BY <1>1, <1>2 DEF TypeOK, PostingsTypeOK
  <1>7. QED
    BY <1>2, <1>5, <1>6, SameBooks, OthersEntries

(* A save that fails, or a process that dies with saves in flight, leaves  *)
(* at most one side.                                                       *)
LEMMA LostEntries ==
  ASSUME Base, EntriesInv, NEW c \in Calls, EntryFails(c) \/ Crash(c)
  PROVE  EntriesInv'
  <1>1. TypeOK /\ CallOK(c) /\ EntriesOK(c)
    BY BaseFacts DEF EntriesInv
  <1>2. UNCHANGED <<books, inserted, txns>>
    BY DEF EntryFails, Crash, Fail, money
  <1>3. \A s \in Calls \ {c} : pc'[s] = pc[s] /\ inflight'[s] = inflight[s]
    BY <1>1 DEF EntryFails, Crash, Fail, GoTo, TypeOK
  <1>4. EntriesOK(c)'
    <2>1. CASE EntryFails(c)
      <3>1. PICK e \in inflight[c] : inflight' = [inflight EXCEPT ![c] = @ \ {e}]
        BY <2>1 DEF EntryFails
      <3>2. /\ pc[c] \in {"entries", "unwind", "failed"} /\ inflight'[c] = inflight[c] \ {e}
            /\ pc'[c] = IF pc[c] = "entries" THEN "unwind" ELSE pc[c]
        BY <1>1, <2>1, <3>1 DEF EntryFails, GoTo, TypeOK, CallOK
      <3>3. /\ inserted'[c] \cup inflight'[c] = (inserted[c] \cup inflight[c]) \ {e}
            /\ e \in inserted[c] \cup inflight[c] /\ inserted'[c] \cap inflight'[c] = {}
        BY <1>1, <1>2, <3>2 DEF EntriesOK
      <3>4. OneSided(inserted'[c] \cup inflight'[c])
        <4>1. CASE pc[c] = "entries"
          BY <1>1, <3>3, <4>1, PairFacts DEF EntriesOK
        <4>2. CASE pc[c] # "entries"
          <5>1. OneSided(inserted[c] \cup inflight[c])
            BY <1>1, <3>2, <4>2 DEF EntriesOK
          <5>2. QED
            BY <3>3, <5>1, OneSidedPart
        <4>3. QED
          BY <4>1, <4>2
      <3>5. QED
        BY <1>1, <1>2, <3>2, <3>3, <3>4 DEF EntriesOK, Before
    <2>2. CASE Crash(c)
      <3>1. /\ pc[c] \in UnderWay \cup {"posting"} /\ pc'[c] = "failed" /\ inflight'[c] = {}
        BY <1>1, <2>2 DEF Crash, Fail, TypeOK
      <3>2. OneSided(inserted[c])
        <4>1. CASE pc[c] = "entries"
          <5>1. PICK e : e \in inflight[c]
            BY <1>1, <4>1 DEF CallOK
          <5>2. /\ Pair(inserted[c] \cup inflight[c]) /\ e \in inserted[c] \cup inflight[c]
                /\ inserted[c] \in SUBSET ((inserted[c] \cup inflight[c]) \ {e})
            BY <1>1, <4>1, <5>1 DEF EntriesOK
          <5>3. OneSided((inserted[c] \cup inflight[c]) \ {e})
            BY <5>2, PairFacts
          <5>4. QED
            BY <5>2, <5>3, OneSidedPart
        <4>2. CASE pc[c] = "unwind"
          BY <1>1, <4>2, OneSidedPart DEF EntriesOK
        <4>3. CASE pc[c] \notin {"entries", "unwind"}
          BY <1>1, <3>1, <4>3 DEF EntriesOK, OneSided, UnderWay, Writing, Before
        <4>4. QED
          BY <4>1, <4>2, <4>3
      <3>3. QED
        BY <1>1, <1>2, <3>1, <3>2 DEF EntriesOK, Before
    <2>3. QED
      BY <2>1, <2>2
  <1>5. QED
    BY <1>2, <1>3, <1>4, SameBooks, OthersEntries

LEMMA InsertEntries ==
  ASSUME Base, Base', EntriesInv, NEW c \in Calls, InsertEntry(c)
  PROVE  EntriesInv'
  <1>1. PICK e \in inflight[c] :
          /\ inflight' = [inflight EXCEPT ![c] = @ \ {e}]
          /\ inserted' = [inserted EXCEPT ![c] = @ \cup {e}]
          /\ books' = [books EXCEPT ![e.direction] = @ + e.amountPaise]
          /\ IF pc[c] = "entries" /\ inflight[c] = {e}
             THEN pc' = [pc EXCEPT ![c] = "committed"]
             ELSE UNCHANGED pc
          /\ UNCHANGED txns
    BY DEF InsertEntry, Inserted, GoTo
  <1>2. /\ TypeOK /\ CallOK(c) /\ EntriesOK(c) /\ EntriesTypeOK /\ e \in Entries
        /\ pc[c] \in {"entries", "unwind", "failed"} /\ inserted[c] \in SUBSET Entries
    BY <1>1, BaseFacts DEF EntriesInv, CallOK, EntriesTypeOK
  <1>3. /\ inserted'[c] = inserted[c] \cup {e} /\ inflight'[c] = inflight[c] \ {e} /\ e \notin inserted[c]
        /\ EntriesTypeOK' /\ \A s \in Calls \ {c} : inserted'[s] = inserted[s]
    BY <1>1, <1>2 DEF TypeOK, EntriesTypeOK, EntriesOK
  <1>4. /\ inserted'[c] \cup inflight'[c] = inserted[c] \cup inflight[c]
        /\ inserted'[c] \cap inflight'[c] = {} /\ IsFiniteSet(inserted'[c])
    BY <1>1, <1>2, <1>3, FS_AddElement DEF EntriesOK
  <1>5. /\ pc'[c] = IF pc[c] = "entries" /\ inflight[c] = {e} THEN "committed" ELSE pc[c]
        /\ \A s \in Calls \ {c} : pc'[s] = pc[s] /\ inflight'[s] = inflight[s]
    BY <1>1, <1>2 DEF TypeOK
  <1>6. EntriesOK(c)'
    <2>1. CASE pc[c] = "entries" /\ inflight[c] = {e}
      <3>1. pc'[c] = "committed" /\ inflight'[c] = {} /\ Pair(inserted'[c] \cup inflight'[c])
        BY <1>2, <1>3, <1>4, <1>5, <2>1 DEF EntriesOK
      <3>2. Pair(inserted'[c])
        <4>1. inserted'[c] \cup inflight'[c] = inserted'[c]
          BY <3>1
        <4>2. QED
          BY <3>1, <4>1
      <3>3. QED
        BY <1>4, <3>1, <3>2 DEF EntriesOK, Before
    <2>2. CASE ~(pc[c] = "entries" /\ inflight[c] = {e})
      <3>1. pc'[c] = pc[c] /\ inflight[c] # {}
        BY <1>1, <1>5, <2>2
      <3>2. /\ pc'[c] = "entries" => Pair(inserted'[c] \cup inflight'[c])
            /\ pc'[c] \in {"unwind", "failed"} => OneSided(inserted'[c] \cup inflight'[c])
        BY <1>2, <1>4, <3>1 DEF EntriesOK
      <3>3. QED
        BY <1>2, <1>4, <3>1, <3>2 DEF EntriesOK, Before
    <2>3. QED
      BY <2>1, <2>2
  <1>7. BooksLopsided'
    <2> DEFINE f == [s \in Calls |-> Lopsided(s)]
               g == [s \in Calls |-> Lopsided(s)']
    <2>1. ASSUME NEW s \in Calls PROVE Lopsided(s) \in Int
      <3>1. inserted[s] \in SUBSET Entries /\ IsFiniteSet(inserted[s])
        BY DEF EntriesInv, EntriesTypeOK, EntriesOK
      <3>2. QED
        BY <3>1, EntrySums DEF Lopsided
    <2>2. ASSUME NEW s \in Calls \ {c} PROVE Lopsided(s)' = Lopsided(s)
      BY <1>3, Zenon DEF Lopsided
    <2>3. Lopsided(c)' = Lopsided(c) + (OnSide(e, "DEBIT") - OnSide(e, "CREDIT"))
      <3> DEFINE S == inserted[c] \cup {e}
      <3>1. S \in SUBSET Entries /\ IsFiniteSet(S) /\ S \ {e} = inserted[c] /\ e \in S /\ inserted'[c] = S
        BY <1>2, <1>3, <1>4
      <3>2. IsFiniteSet(inserted[c])
        BY <1>2 DEF EntriesOK
      <3> HIDE DEF S
      <3>3. Lopsided(c)' = SumFunctionOnSet(Side, S)
        <4>1. SumFunction([x \in S |-> OnSide(x, "DEBIT") - OnSide(x, "CREDIT")]) = SumFunctionOnSet(Side, S)
          BY <3>1, EntrySums
        <4>2. QED
          BY <3>1, <4>1, Zenon DEF Lopsided
      <3>4. Lopsided(c) = SumFunctionOnSet(Side, inserted[c])
        BY <1>2, <3>2, EntrySums DEF Lopsided
      <3>5. /\ SumFunctionOnSet(Side, S \ {e}) =
                 SumFunctionOnSet(Side, S) - (OnSide(e, "DEBIT") - OnSide(e, "CREDIT"))
            /\ SumFunctionOnSet(Side, S) \in Int
        BY <3>1, EntrySums
      <3>6. OnSide(e, "DEBIT") \in Int /\ OnSide(e, "CREDIT") \in Int
        BY <1>2, EntryInts
      <3>7. SumFunctionOnSet(Side, inserted[c]) =
              SumFunctionOnSet(Side, S) - (OnSide(e, "DEBIT") - OnSide(e, "CREDIT"))
        BY <3>1, <3>5
      <3>8. QED
        BY <3>3, <3>4, <3>5, <3>6, <3>7
    <2>4. OnSide(e, "DEBIT") \in Int /\ OnSide(e, "CREDIT") \in Int
      BY <1>2, EntryInts
    <2>5. /\ books["DEBIT"] \in Int /\ books["CREDIT"] \in Int
          /\ books'["DEBIT"] = books["DEBIT"] + OnSide(e, "DEBIT")
          /\ books'["CREDIT"] = books["CREDIT"] + OnSide(e, "CREDIT")
      BY <1>1, <1>2 DEF TypeOK, PostingsTypeOK, Entries, OnSide
    <2>6. /\ DOMAIN f = Calls /\ DOMAIN g = Calls
          /\ \A s \in Calls : f[s] = Lopsided(s) /\ g[s] = Lopsided(s)'
      OBVIOUS
    <2>7. books["DEBIT"] - books["CREDIT"] = SumFunction(f)
      BY DEF EntriesInv, BooksLopsided
    <2> HIDE DEF f, g
    <2>8. \A s \in Calls : f[s] \in Int /\ g[s] \in Int
      BY <2>1, <2>2, <2>3, <2>4, <2>6
    <2>9. \A s \in Calls \ {c} : g[s] = f[s]
      BY <2>2, <2>6
    <2>10. SumFunctionOnSet(g, Calls) = SumFunctionOnSet(f, Calls) + g[c] - f[c]
      BY <2>8, <2>9, CallsAssumption, SumChange
    <2>11. SumFunctionOnSet(f, Calls) \in Int
      BY <2>8, CallsAssumption, SumInt
    <2>12. SumFunction(f) = SumFunctionOnSet(f, Calls) /\ SumFunction(g) = SumFunctionOnSet(g, Calls)
      BY <2>6 DEF SumFunction
    <2>13. g[c] - f[c] = OnSide(e, "DEBIT") - OnSide(e, "CREDIT") /\ f[c] \in Int /\ g[c] \in Int
      BY <2>1, <2>3, <2>4, <2>6
    <2>14. books'["DEBIT"] - books'["CREDIT"] = SumFunction(g)
      BY <2>4, <2>5, <2>7, <2>10, <2>11, <2>12, <2>13
    <2>15. QED
      BY <2>14 DEF g, BooksLopsided
  <1>8. QED
    BY <1>1, <1>3, <1>5, <1>6, <1>7, OthersEntries

LEMMA NextEntries ==
  ASSUME Base, Base', [Next]_vars, EntriesInv
  PROVE  EntriesInv'
  <1>1. TypeOK /\ \A c \in Calls : CallOK(c)
    BY DEF Base
  <1>2. ASSUME NEW c \in Calls, Handle(c), UNCHANGED <<undo, inflight, inserted>> PROVE EntriesInv'
    <2>1. PICK m : Accept(c, m)
      BY <1>2, HandleSound
    <2>2. /\ pc[c] = "idle" /\ pc' = [pc EXCEPT ![c] = "posting"] /\ UNCHANGED <<books, txns>>
      BY <2>1 DEF Accept, money
    <2>3. QED
      BY <1>1, <1>2, <2>2, QuietEntries DEF Before
  <1>3. ASSUME NEW c \in Calls, Finish(c) \/ FailCommitted(c), UNCHANGED <<undo, inflight, inserted>>
        PROVE  EntriesInv'
    <2>1. /\ pc[c] = "committed" /\ UNCHANGED <<books, txns>>
          /\ \/ pc' = [pc EXCEPT ![c] = "done"]
             \/ pc' = [pc EXCEPT ![c] = "failed"]
      BY <1>3 DEF Finish, FailCommitted, money
    <2>2. inflight[c] = {} /\ txns[c] # NoTxn
      BY <1>1, <2>1 DEF CallOK
    <2>3. QED
      BY <1>1, <1>3, <2>1, <2>2, QuietEntries
  <1>4. ASSUME NEW c \in Calls, Start(c) \/ Claim(c) \/ DebitSender(c) \/ CreditReceiver(c) \/ Throw(c)
        PROVE  EntriesInv'
    <2>1. /\ pc[c] \in {"posting", "claim", "debit", "credit", "record"}
          /\ \E to \in {"claim", "debit", "credit", "record", "unwind"} : pc' = [pc EXCEPT ![c] = to]
          /\ UNCHANGED <<books, inflight, inserted>>
      BY <1>4 DEF Start, Claim, DebitSender, CreditReceiver, Throw, GoTo, FirstWrite, AfterClaim,
                  AfterDebit, Writing, money
    <2>2. \A s \in Calls : txns[s] # NoTxn => txns'[s] # NoTxn
      <3>1. CASE Claim(c)
        BY <3>1, ClaimFacts, NoTxnAssumption
      <3>2. CASE Start(c) \/ DebitSender(c) \/ CreditReceiver(c) \/ Throw(c)
        BY <3>2 DEF Start, DebitSender, CreditReceiver, Throw, money
      <3>3. QED
        BY <1>4, <3>1, <3>2
    <2>3. inflight[c] = {}
      BY <1>1, <2>1 DEF CallOK
    <2>4. QED
      BY <1>1, <2>1, <2>2, <2>3, QuietEntries DEF Before
  <1>5. ASSUME NEW c \in Calls, Unwind(c) PROVE EntriesInv'
    <2>1. /\ pc[c] = "unwind" /\ undo[c] # <<>> /\ undo[c] \in Undos
          /\ UNCHANGED <<pc, inflight, inserted>> /\ pc' = [pc EXCEPT ![c] = "unwind"]
      BY <1>1, <1>5 DEF Unwind, TypeOK
    <2>2. Head(undo[c]) \in Marks
      BY <2>1, UndoFacts
    <2>3. UNCHANGED books /\ (txns' = txns \/ txns' = [txns EXCEPT ![c] = NoTxn])
      BY <1>5, <2>2 DEF Unwind, Compensate, Marks, money
    <2>4. \A s \in Calls : txns[s] # NoTxn => txns'[s] # NoTxn \/ (s = c /\ pc[c] = "unwind")
      BY <1>1, <2>1, <2>3 DEF TypeOK, PostingsTypeOK
    <2>5. QED
      BY <1>1, <2>1, <2>3, <2>4, QuietEntries
  <1>6. ASSUME NEW c \in Calls, Rethrow(c) PROVE EntriesInv'
    <2>1. /\ pc[c] = "unwind" /\ pc' = [pc EXCEPT ![c] = "failed"]
          /\ UNCHANGED <<books, txns, inflight, inserted>>
      BY <1>6 DEF Rethrow, Fail, money
    <2>2. QED
      BY <1>1, <2>1, QuietEntries
  <1>7. ASSUME UNCHANGED <<books, txns, pc, inflight, inserted>> PROVE EntriesInv'
    <2>1. \A c \in Calls : EntriesOK(c)'
      BY <1>7 DEF EntriesInv, EntriesOK
    <2>2. QED
      BY <1>7, <2>1, SameBooks DEF EntriesInv
  <1>8. ASSUME NEW c \in Calls, Post(c) PROVE EntriesInv'
    BY <1>4, <1>5, <1>6, <1>8, CreateEntries, InsertEntries DEF Post
  <1>9. ASSUME NEW u \in Users, DeactivateAccount(u) PROVE EntriesInv'
    BY <1>7, <1>9 DEF DeactivateAccount
  <1>10. CASE UNCHANGED vars
    BY <1>7, <1>10 DEF vars, money
  <1>11. QED
    BY <1>2, <1>3, <1>8, <1>9, <1>10, LostEntries DEF Next, Settled

LEMMA InitEntries == Init => EntriesInv
  <1> SUFFICES ASSUME Init PROVE EntriesInv
    OBVIOUS
  <1>1. /\ books = [DEBIT |-> 0, CREDIT |-> 0] /\ inserted = [c \in Calls |-> {}]
        /\ \A c \in Calls : inserted[c] = {} /\ pc[c] = "idle"
    BY DEF Init, PostingsInit
  <1>2. \A c \in Calls : EntriesOK(c)
    BY <1>1, FS_EmptySet DEF EntriesOK, Before
  <1> DEFINE f == [c \in Calls |-> Lopsided(c)]
  <1>3. ASSUME NEW c \in Calls PROVE Lopsided(c) = 0
    <2>1. {} \in SUBSET Entries /\ IsFiniteSet({})
      BY FS_EmptySet
    <2>2. QED
      BY <1>1, <2>1, EntrySums, NoEntries DEF Lopsided
  <1>4. DOMAIN f = Calls /\ \A c \in Calls : f[c] = 0
    BY <1>3
  <1> HIDE DEF f
  <1>5. SumFunction(f) = 0
    BY <1>4, CallsAssumption, SumZero
  <1>6. books["DEBIT"] - books["CREDIT"] = 0
    BY <1>1
  <1>7. BooksLopsided
    BY <1>5, <1>6 DEF f, BooksLopsided
  <1>8. EntriesTypeOK
    BY <1>1 DEF EntriesTypeOK
  <1>9. QED
    BY <1>2, <1>7, <1>8 DEF EntriesInv

LEMMA EntriesHold == Spec => [](Base /\ EntriesInv)
  <1>1. Init => Base /\ EntriesInv
    BY InitBase, InitEntries
  <1>2. (Base /\ EntriesInv) /\ [Next]_vars => (Base /\ EntriesInv)'
    BY NextBase, NextEntries
  <1>3. QED
    BY <1>1, <1>2, PTL DEF Spec

(* Whatever fails, at any write, compensation, entry insert or by a crash, *)
(* and after the commit too: a posting told as done has both its entries,  *)
(* one that has both keeps its Transaction, and at rest the books are off  *)
(* by what failed postings have left of theirs, and by nothing else.       *)
THEOREM StandaloneBooksBalance == Spec => []BooksBalanced
  <1>1. ASSUME Base, EntriesInv PROVE BooksBalanced
    <2>1. ASSUME NEW c \in Calls
          PROVE  /\ CallOK(c) /\ EntriesOK(c) /\ inserted[c] \in SUBSET Entries /\ IsFiniteSet(inserted[c])
                 /\ pc[c] \in Before \cup {"entries", "unwind", "committed"} \cup Terminal
                 /\ Lopsided(c) = SumFunctionOnSet(Side, inserted[c]) /\ Lopsided(c) \in Int
      <3>1. /\ CallOK(c) /\ EntriesOK(c) /\ inserted[c] \in SUBSET Entries /\ IsFiniteSet(inserted[c])
            /\ pc[c] \in Before \cup {"entries", "unwind", "committed"} \cup Terminal
        BY <1>1 DEF Base, TypeOK, EntriesInv, EntriesTypeOK, EntriesOK
      <3>2. QED
        BY <3>1, EntrySums DEF Lopsided
    <2>2. ASSUME NEW c \in Calls, pc[c] \in {"committed", "done"} PROVE TwoSided(c)
      BY <2>1, <2>2, PairFacts DEF EntriesOK, TwoSided
    <2>3. ASSUME NEW c \in Calls, TwoSided(c) PROVE txns[c] # NoTxn
      <3>1. inserted[c] # {} /\ ~OneSided(inserted[c])
        BY <2>3 DEF TwoSided, OneSided
      <3>2. ~OneSided(inserted[c] \cup inflight[c])
        BY <3>1, OneSidedPart
      <3>3. QED
        BY <2>1, <3>1, <3>2 DEF EntriesOK, CallOK, Terminal
    <2>4. ASSUME AtRest
          PROVE  books["DEBIT"] - books["CREDIT"] = SumFunction([c \in Failed |-> Lopsided(c)])
      <3> DEFINE f == [c \in Calls |-> Lopsided(c)]
                 g == [c \in Failed |-> Lopsided(c)]
      <3>1. ASSUME NEW c \in Calls \ Failed PROVE Lopsided(c) = 0
        <4>1. pc[c] \in Before \/ pc[c] \in {"committed", "done"}
          BY <2>1, <2>4 DEF AtRest, Failed, UnderWay, Terminal
        <4>2. CASE pc[c] \in Before
          BY <2>1, <4>2, NoEntries DEF EntriesOK
        <4>3. CASE pc[c] \in {"committed", "done"}
          BY <2>1, <4>3, PairFacts DEF EntriesOK
        <4>4. QED
          BY <4>1, <4>2, <4>3
      <3>2. Failed \in SUBSET Calls /\ IsFiniteSet(Failed)
        BY CallsAssumption, FS_Subset DEF Failed
      <3>3. /\ DOMAIN f = Calls /\ DOMAIN g = Failed
            /\ \A c \in Calls : f[c] = Lopsided(c) /\ f[c] \in Int
            /\ \A c \in Failed : g[c] = f[c]
            /\ \A c \in Calls \ Failed : f[c] = 0
        BY <2>1, <3>1, <3>2
      <3>4. books["DEBIT"] - books["CREDIT"] = SumFunction(f)
        BY <1>1 DEF EntriesInv, BooksLopsided
      <3>5. SumFunction(f) = SumFunctionOnSet(f, Calls) /\ SumFunction(g) = SumFunctionOnSet(g, Failed)
        BY <3>3 DEF SumFunction
      <3> HIDE DEF f, g
      <3>6. SumFunctionOnSet(g, Failed) = SumFunctionOnSet(f, Failed)
        BY <3>2, <3>3, SumAgrees
      <3>7. SumFunctionOnSet(f, Failed) = SumFunctionOnSet(f, Calls)
        BY <3>2, <3>3, CallsAssumption, SumPart
      <3>8. QED
        BY <3>4, <3>5, <3>6, <3>7 DEF g
    <2>5. QED
      BY <2>2, <2>3, <2>4 DEF BooksBalanced
  <1>2. QED
    BY <1>1, EntriesHold, PTL

(* Whatever may go wrong, a state at rest in which no call has failed has  *)
(* no drift, balanced books, and exactly the recorded refunds claimed: the *)
(* guarded writes need no transaction as long as nobody has to unwind.     *)
THEOREM StandaloneOnlyFailuresDrift == Spec => []OnlyFailuresDrift
  <1>1. ASSUME IInv PROVE OnlyFailuresDrift
    <2> SUFFICES ASSUME AtRest, \A c \in Calls : pc[c] # "failed"
                 PROVE  /\ \A u \in Users : balance[u] = ledger[u]
                        /\ books["DEBIT"] = books["CREDIT"]
                        /\ \A t \in Calls : txns[t] # NoTxn =>
                             txns[t].refundedPaise = SumFunction([r \in RefundsOf(t) |-> txns[r].amountPaise])
      BY DEF OnlyFailuresDrift, ClaimsUnwound
    <2>1. Base /\ AllClean /\ Sound /\ DriftExplained /\ ClaimsExplained
      BY <1>1 DEF IInv, AtRest, UnderWay, AllClean, Sound
    <2>2. ASSUME NEW c \in Calls PROVE pc[c] \notin UnderWay /\ undo[c] = <<>>
      BY <2>1, BaseFacts DEF AtRest, UnderWay, Writing, CallOK
    <2>3. ASSUME NEW u \in Users PROVE balance[u] = ledger[u]
      <3> DEFINE f == [c \in Calls |-> Moved(c, u) - Entered(c, u)]
      <3>1. ASSUME NEW c \in Calls PROVE Moved(c, u) = 0 /\ Entered(c, u) = 0
        BY <2>2, RangeOfTuple DEF Moved, Entered, UnderWay
      <3>2. DOMAIN f = Calls /\ \A c \in Calls : f[c] = 0
        BY <3>1
      <3>3. balance[u] - ledger[u] = SumFunction(f)
        BY <2>1 DEF DriftExplained
      <3> HIDE DEF f
      <3>4. SumFunction(f) = 0
        BY <3>2, CallsAssumption, SumZero
      <3>5. balance[u] \in Int /\ ledger[u] \in Int
        BY <2>1 DEF Base, TypeOK, PostingsTypeOK
      <3>6. QED
        BY <3>3, <3>4, <3>5
    <2>4. ASSUME NEW t \in Calls, txns[t] # NoTxn
          PROVE  txns[t].refundedPaise = SumFunction([r \in RefundsOf(t) |-> txns[r].amountPaise])
      <3> DEFINE f == [r \in Calls |-> Share(r, t)]
                 g == [r \in RefundsOf(t) |-> txns[r].amountPaise]
      <3>1. txns[t].refundedPaise = SumFunction(f)
        BY <2>1, <2>4 DEF ClaimsExplained
      <3>2. DOMAIN f = Calls /\ \A r \in Calls : f[r] \in Int /\ f[r] = Share(r, t)
        BY <2>1, ShareHolds DEF ShareOK
      <3>3. RefundsOf(t) \in SUBSET Calls /\ \A r \in RefundsOf(t) : Share(r, t) = txns[r].amountPaise
        BY DEF RefundsOf, Share
      <3>4. \A r \in Calls \ RefundsOf(t) : Share(r, t) = 0
        BY <2>2 DEF RefundsOf, Share, UnderWay, Writing
      <3>5. DOMAIN g = RefundsOf(t) /\ \A r \in RefundsOf(t) : g[r] = f[r]
        BY <3>2, <3>3
      <3>6. \A r \in Calls \ RefundsOf(t) : f[r] = 0
        BY <3>2, <3>4
      <3>7. IsFiniteSet(RefundsOf(t))
        BY <3>3, CallsAssumption, FS_Subset
      <3>8. SumFunction(f) = SumFunctionOnSet(f, Calls) /\ SumFunction(g) = SumFunctionOnSet(g, RefundsOf(t))
        BY <3>2, <3>5 DEF SumFunction
      <3> HIDE DEF f, g
      <3>9. SumFunctionOnSet(g, RefundsOf(t)) = SumFunctionOnSet(f, RefundsOf(t))
        BY <3>5, <3>7, SumAgrees
      <3>10. SumFunctionOnSet(f, RefundsOf(t)) = SumFunctionOnSet(f, Calls)
        BY <3>2, <3>3, <3>6, CallsAssumption, SumPart
      <3>11. QED
        BY <3>1, <3>8, <3>9, <3>10 DEF g
    <2>5. QED
      BY <1>1, <2>1, <2>3, <2>4, RestBalances
  <1>2. QED
    BY <1>1, Inductive, PTL

(* Whatever may go wrong, the only step that takes a wallet below zero is  *)
(* the compensation of a credit: the guarded debit of postTransaction      *)
(* cannot, even when other calls move the same wallet between any two of   *)
(* its writes.                                                             *)
THEOREM StandaloneOverdraws == Spec => OnlyUndoneCreditsOverdraw
  <1> DEFINE Overdraws ==
        \A u \in Users : balance'[u] < balance[u] /\ balance'[u] < 0 =>
          \E c \in Calls : /\ pc[c] = "unwind" /\ Head(undo[c]) = "credit" /\ req[c].to = u
                           /\ undo'[c] = Tail(undo[c])
  <1>1. ASSUME Base, [Next]_vars PROVE [Overdraws]_vars
    <2> SUFFICES ASSUME NEW u \in Users, balance'[u] < balance[u], balance'[u] < 0
                 PROVE  \E c \in Calls : /\ pc[c] = "unwind" /\ Head(undo[c]) = "credit" /\ req[c].to = u
                                         /\ undo'[c] = Tail(undo[c])
      OBVIOUS
    <2>1. TypeOK /\ balance \in [Users -> Int] /\ balance[u] \in Int
      BY <1>1 DEF Base, TypeOK, PostingsTypeOK
    <2>2. balance' # balance
      BY <2>1
    <2>3. PICK c \in Calls : DebitSender(c) \/ CreditReceiver(c) \/ Unwind(c)
      <3>1. \A c \in Calls : ~(Handle(c) \/ Finish(c))
        BY <1>1, <2>2, HandleSound DEF Accept, Finish, money
      <3>2. \A c \in Calls : ~FailCommitted(c) /\ ~EntryFails(c) /\ ~Crash(c)
        BY <2>2 DEF FailCommitted, EntryFails, Crash, Fail, money
      <3>3. ~UNCHANGED vars /\ \A v \in Users : ~DeactivateAccount(v)
        BY <2>2 DEF vars, money, DeactivateAccount
      <3>4. PICK c \in Calls : Post(c)
        BY <1>1, <3>1, <3>2, <3>3 DEF Next, Settled
      <3>5. ~InsertEntry(c)
        BY <1>1, <2>2, InsertFacts
      <3>6. ~Start(c) /\ ~Claim(c) /\ ~Throw(c) /\ ~CreateTransaction(c) /\ ~Rethrow(c)
        BY <2>2 DEF Start, Claim, Throw, CreateTransaction, Rethrow, Fail, money
      <3>7. QED
        BY <3>4, <3>5, <3>6 DEF Post
    <2> DEFINE m == req[c]
    <2>4. CallOK(c) /\ undo[c] \in Undos
      BY <1>1, BaseFacts
    <2>5. CASE DebitSender(c)
      <3>1. /\ balance' = [balance EXCEPT ![m.from] = @ + (-m.amountPaise)]
            /\ balance[m.from] >= m.amountPaise /\ pc[c] = "debit"
        BY <2>5 DEF DebitSender, Inc, DebitMatches, Db
      <3>2. RequestSound(m) /\ m.from \in Users
        BY <2>4, <3>1 DEF CallOK, Active, UnderWay, Writing
      <3>3. m.amountPaise \in Int
        BY <3>2, SoundFacts
      <3>4. balance'[u] \in Int /\ (balance'[u] = balance[u] \/ balance'[u] >= 0)
        BY <2>1, <3>1, <3>2, <3>3
      <3>5. QED
        BY <2>1, <3>4
    <2>6. CASE CreditReceiver(c)
      <3>1. balance' = [balance EXCEPT ![m.to] = @ + m.amountPaise] /\ pc[c] = "credit"
        BY <2>6 DEF CreditReceiver, Inc
      <3>2. RequestSound(m)
        BY <2>4, <3>1 DEF CallOK, Active, UnderWay, Writing
      <3>3. m.amountPaise \in Nat
        BY <3>2, SoundFacts, PostingsAssumption
      <3>4. QED
        BY <2>1, <3>1, <3>3
    <2>7. CASE Unwind(c)
      <3>1. /\ pc[c] = "unwind" /\ undo[c] # <<>> /\ undo'[c] = Tail(undo[c])
            /\ Compensate(c) \/ UNCHANGED money
        BY <2>1, <2>7 DEF Unwind, TypeOK
      <3>2. Head(undo[c]) \in Marks
        BY <2>4, <3>1, UndoFacts
      <3>3. RequestSound(m)
        BY <2>4, <3>1 DEF CallOK, Active, UnderWay
      <3>4. m.amountPaise \in Nat
        BY <3>3, SoundFacts, PostingsAssumption
      <3>5. Head(undo[c]) # "record" /\ ~UNCHANGED money
        BY <2>2, <3>1 DEF Compensate, money
      <3>6. Head(undo[c]) # "debit"
        <4>1. SUFFICES ASSUME Head(undo[c]) = "debit" PROVE FALSE
          OBVIOUS
        <4>2. balance' = [balance EXCEPT ![m.from] = @ + m.amountPaise]
          BY <3>1, <3>5, <4>1 DEF Compensate, Inc
        <4>3. QED
          BY <2>1, <3>4, <4>2
      <3>7. Head(undo[c]) = "credit"
        BY <3>2, <3>5, <3>6 DEF Marks
      <3>8. balance' = [balance EXCEPT ![m.to] = @ + (-m.amountPaise)]
        BY <3>1, <3>5, <3>7 DEF Compensate, Inc
      <3>9. m.to = u
        BY <2>1, <3>8
      <3>10. QED
        BY <3>1, <3>7, <3>9
    <2>8. QED
      BY <2>3, <2>5, <2>6, <2>7
  <1>2. Spec => []Base
    <2>1. IInv => Base
      BY DEF IInv
    <2>2. QED
      BY <2>1, Inductive, PTL
  <1>3. Spec => [][Overdraws]_vars
    BY <1>1, <1>2, PTL DEF Spec
  <1>4. QED
    BY <1>3 DEF OnlyUndoneCreditsOverdraw
==============================================================================
