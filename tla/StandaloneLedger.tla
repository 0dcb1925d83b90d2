--------------------------- MODULE StandaloneLedger ---------------------------
(***************************************************************************)
(* postTransaction of src/services/ledgerService.js on a standalone mongod:*)
(* withTransaction passes a null session, so every write is visible at     *)
(* once, and a call that fails unwinds what it registered, newest first.   *)
(* Every single write is atomic; any two are interleaved with the writes   *)
(* of the other calls.                                                     *)
(***************************************************************************)
EXTENDS Postings, FiniteSets, Functions

CONSTANT Faults  \* what may go wrong: a subset of {"write", "entry", "undo", "crash"}

ASSUME FaultsAssumption == Faults \subseteq {"write", "entry", "undo", "crash"}
ASSUME CallsAssumption == IsFiniteSet(Calls)

VARIABLES undo,      \* the compensating writes each call has registered, newest first
          inflight,  \* the LedgerEntry documents of each call still being inserted
          inserted   \* the LedgerEntry documents of each call, which ledger and books sum up

vars == <<money, pc, req, emitted, undo, inflight, inserted>>

Writing == {"claim", "debit", "credit", "record"}
UnderWay == Writing \cup {"entries", "unwind"}

Db == [balance |-> balance, active |-> active, txns |-> txns]

Init ==
  /\ PostingsInit
  /\ undo = [c \in Calls |-> <<>>]
  /\ inflight = [c \in Calls |-> {}]
  /\ inserted = [c \in Calls |-> {}]

GoTo(c, to) == pc' = [pc EXCEPT ![c] = to] /\ UNCHANGED <<req, emitted>>

Register(c, compensation) == undo' = [undo EXCEPT ![c] = <<compensation>> \o @]

Inc(user, paise) == balance' = [balance EXCEPT ![user] = @ + paise]

-------------------------------------------------------------------------------
Start(c) ==
  /\ pc[c] = "posting"
  /\ GoTo(c, FirstWrite(req[c]))
  /\ UNCHANGED <<money, undo, inflight, inserted>>

(* beforeCommit registers no compensating write for its claim.             *)
Claim(c) ==
  /\ pc[c] = "claim"
  /\ ClaimMatches(Db, req[c])
  /\ txns' = Claimed(req[c])
  /\ GoTo(c, AfterClaim(req[c]))
  /\ UNCHANGED <<balance, active, ledger, books, undo, inflight, inserted>>

DebitSender(c) ==
  /\ pc[c] = "debit"
  /\ DebitMatches(Db, req[c])
  /\ Inc(req[c].from, -req[c].amountPaise)
  /\ Register(c, "debit")
  /\ GoTo(c, AfterDebit(req[c]))
  /\ UNCHANGED <<active, ledger, books, txns, inflight, inserted>>

CreditReceiver(c) ==
  /\ pc[c] = "credit"
  /\ CreditMatches(Db, req[c])
  /\ Inc(req[c].to, req[c].amountPaise)
  /\ Register(c, "credit")
  /\ GoTo(c, "record")
  /\ UNCHANGED <<active, ledger, books, txns, inflight, inserted>>

(* A filter matched nothing, or a write failed: catch.                     *)
Throw(c) ==
  /\ \/ pc[c] = "claim"  /\ ~ClaimMatches(Db, req[c])
     \/ pc[c] = "debit"  /\ ~DebitMatches(Db, req[c])
     \/ pc[c] = "credit" /\ ~CreditMatches(Db, req[c])
     \/ pc[c] \in Writing /\ "write" \in Faults
  /\ GoTo(c, "unwind")
  /\ UNCHANGED <<money, undo, inflight, inserted>>

CreateTransaction(c) ==
  /\ pc[c] = "record"
  /\ txns' = [txns EXCEPT ![c] = TxnDoc(req[c])]
  /\ Register(c, "record")
  /\ inflight' = [inflight EXCEPT ![c] = Range(BuildEntries(req[c]))]
  /\ GoTo(c, "entries")
  /\ UNCHANGED <<balance, active, ledger, books, inserted>>

Inserted(c, e) ==
  /\ ledger' = [u \in Users |-> ledger[u] + Signed(e, u)]
  /\ books' = [books EXCEPT ![e.direction] = @ + e.amountPaise]
  /\ inflight' = [inflight EXCEPT ![c] = @ \ {e}]
  /\ inserted' = [inserted EXCEPT ![c] = @ \cup {e}]
  /\ UNCHANGED <<balance, active, txns>>

(* Faulty: create returns when the first of the two saves does.            *)
InsertEntryFirst(c) ==
  \E e \in inflight[c] :
    /\ Inserted(c, e)
    /\ IF pc[c] = "entries"
       THEN GoTo(c, "committed") /\ undo' = [undo EXCEPT ![c] = <<>>]
       ELSE UNCHANGED <<pc, req, emitted, undo>>

(* LedgerEntry.create saves its two documents side by side.  A save may    *)
(* land after its sibling has failed and the call has begun to unwind.     *)
InsertEntry(c) ==
  \E e \in inflight[c] :
    /\ Inserted(c, e)
    /\ IF pc[c] = "entries" /\ inflight[c] = {e}
       THEN GoTo(c, "committed") /\ undo' = [undo EXCEPT ![c] = <<>>]
       ELSE UNCHANGED <<pc, req, emitted, undo>>

(* create rejects at its first failure; the entries' own compensation is   *)
(* registered only after create, so it never runs.                         *)
EntryFails(c) ==
  /\ "entry" \in Faults
  /\ \E e \in inflight[c] : inflight' = [inflight EXCEPT ![c] = @ \ {e}]
  /\ GoTo(c, IF pc[c] = "entries" THEN "unwind" ELSE pc[c])
  /\ UNCHANGED <<money, undo, inserted>>

(* Faulty: a credit is not taken back.                                     *)
CompensateDebits(c) ==
  CASE Head(undo[c]) = "debit" ->
         Inc(req[c].from, req[c].amountPaise) /\ UNCHANGED <<active, ledger, books, txns>>
    [] Head(undo[c]) = "credit" -> UNCHANGED money
    [] Head(undo[c]) = "record" ->
         txns' = [txns EXCEPT ![c] = NoTxn] /\ UNCHANGED <<balance, active, ledger, books>>

(* One compensating write, newest first.                                   *)
Compensate(c) ==
  CASE Head(undo[c]) = "debit" ->
         Inc(req[c].from, req[c].amountPaise) /\ UNCHANGED <<active, ledger, books, txns>>
    [] Head(undo[c]) = "credit" ->
         Inc(req[c].to, -req[c].amountPaise) /\ UNCHANGED <<active, ledger, books, txns>>
    [] Head(undo[c]) = "record" ->
         txns' = [txns EXCEPT ![c] = NoTxn] /\ UNCHANGED <<balance, active, ledger, books>>

(* A compensating write that fails is logged, and the next one is tried.   *)
Unwind(c) ==
  /\ pc[c] = "unwind" /\ undo[c] # <<>>
  /\ \/ Compensate(c)
     \/ "undo" \in Faults /\ UNCHANGED money
  /\ undo' = [undo EXCEPT ![c] = Tail(@)]
  /\ UNCHANGED <<pc, req, emitted, inflight, inserted>>

Fail(c) ==
  /\ pc' = [pc EXCEPT ![c] = "failed"]
  /\ req' = [req EXCEPT ![c] = NoReq]
  /\ UNCHANGED <<money, emitted>>

Rethrow(c) ==
  /\ pc[c] = "unwind" /\ undo[c] = <<>>
  /\ Fail(c)
  /\ UNCHANGED <<undo, inflight, inserted>>

(* The process dies; whatever compensation it had registered dies with it. *)
Crash(c) ==
  /\ "crash" \in Faults
  /\ pc[c] \in UnderWay \cup {"posting"}
  /\ Fail(c)
  /\ undo' = [undo EXCEPT ![c] = <<>>]
  /\ inflight' = [inflight EXCEPT ![c] = {}]
  /\ UNCHANGED inserted

DeactivateAccount(u) ==
  /\ active[u]
  /\ active' = [active EXCEPT ![u] = FALSE]
  /\ UNCHANGED <<balance, ledger, books, txns, pc, req, emitted, undo, inflight, inserted>>

-------------------------------------------------------------------------------
Post(c) == Start(c) \/ Claim(c) \/ DebitSender(c) \/ CreditReceiver(c) \/ Throw(c)
             \/ CreateTransaction(c) \/ InsertEntry(c) \/ Unwind(c) \/ Rethrow(c)

Settled == AllAnswered /\ (\A c \in Calls : inflight[c] = {}) /\ UNCHANGED vars

Next ==
  \/ \E c \in Calls : (Handle(c) \/ Finish(c) \/ FailCommitted(c)) /\ UNCHANGED <<undo, inflight, inserted>>
  \/ \E c \in Calls : Post(c) \/ EntryFails(c) \/ Crash(c)
  \/ \E u \in Users : DeactivateAccount(u)
  \/ Settled

Spec == Init /\ [][Next]_vars

-------------------------------------------------------------------------------
(* A wallet goes below zero only when a credit that was already spent is   *)
(* unwound: no debit and no other compensating write overdraws one.        *)
OnlyUndoneCreditsOverdraw ==
  [][\A u \in Users : balance'[u] < balance[u] /\ balance'[u] < 0 =>
       \E c \in Calls : /\ pc[c] = "unwind" /\ Head(undo[c]) = "credit" /\ req[c].to = u
                        /\ undo'[c] = Tail(undo[c])]_vars

(* Any difference between a cached balance and the wallet's ledger entries *)
(* is the doing of calls still under way: what they have moved and would   *)
(* compensate, less the entries they have inserted.                        *)
Moved(c, u) ==
  LET m == req[c] IN
    (IF "credit" \in Range(undo[c]) /\ u = m.to THEN m.amountPaise ELSE 0)
      - (IF "debit" \in Range(undo[c]) /\ u = m.from THEN m.amountPaise ELSE 0)
Entered(c, u) ==
  IF pc[c] = "entries"
  THEN NetForAccount(BuildEntries(req[c]), u) - SumFunction([e \in inflight[c] |-> Signed(e, u)])
  ELSE 0
DriftExplained ==
  \A u \in Users :
    balance[u] - ledger[u] = SumFunction([c \in Calls |-> Moved(c, u) - Entered(c, u)])

(* Whatever fails: a posting told as done has both its entries, one that   *)
(* has both is never taken back, and at rest the books are off by the      *)
(* entries that failed calls have left alone in them, and by nothing else  *)
(* (ledgerService.js, "Balanced books").                                   *)
AtRest == \A c \in Calls : pc[c] \notin UnderWay /\ inflight[c] = {}
TwoSided(c) == {e.direction : e \in inserted[c]} = {"DEBIT", "CREDIT"}
Lopsided(c) == SumFunction([e \in inserted[c] |-> OnSide(e, "DEBIT") - OnSide(e, "CREDIT")])
Failed == {c \in Calls : pc[c] = "failed"}
BooksBalanced ==
  /\ \A c \in Calls : pc[c] \in {"committed", "done"} => TwoSided(c)
  /\ \A c \in Calls : TwoSided(c) => txns[c] # NoTxn
  /\ AtRest => books["DEBIT"] - books["CREDIT"] = SumFunction([c \in Failed |-> Lopsided(c)])

(* At rest the refunded amount of a transfer is the sum of the refunds     *)
(* recorded for it: a refund that failed gave its claim back               *)
(* (ledgerService.js, "All-or-nothing").                                   *)
RefundsOf(t) == {r \in Calls : txns[r] # NoTxn /\ txns[r].refundOf = t}
ClaimsUnwound ==
  AtRest => \A t \in Calls : txns[t] # NoTxn =>
    txns[t].refundedPaise = SumFunction([r \in RefundsOf(t) |-> txns[r].amountPaise])

(* Only failures drift: at rest, if no call has failed, the balances agree *)
(* with the ledger, the books balance and every claim has its refund, in   *)
(* whatever order the writes of the calls have met.                        *)
OnlyFailuresDrift ==
  AtRest /\ (\A c \in Calls : pc[c] # "failed") =>
    /\ \A u \in Users : balance[u] = ledger[u]
    /\ books["DEBIT"] = books["CREDIT"]
    /\ ClaimsUnwound
==============================================================================
