------------------------------- MODULE Migration -------------------------------
(***************************************************************************)
(* scripts/migrate-to-paise.js over a database of before the ledger, and   *)
(* what scripts/reconcile.js says of it afterwards.  The script writes one *)
(* document at a time, may die between two writes, may be a dry run, and   *)
(* is said to be "safe to run more than once".  Between runs the new       *)
(* server may already post to users, migrated or not (Serve).              *)
(*                                                                         *)
(* An amount in rupees is a float: here a number of tenths of a paisa.     *)
(***************************************************************************)
EXTENDS Integers, FiniteSets, Functions, FiniteSetsExt

CONSTANTS Users, Txns, NoAmount,
          OldAmounts,  \* amounts of the old schema, in tenths of a paisa
          MaxRuns,     \* bound: starts of the script
          MaxServed    \* bound: postings of one paisa by the new server

ASSUME AmountsAssumption == OldAmounts \subseteq Nat /\ NoAmount \notin Int

VARIABLES user,     \* user documents: balance (rupees) and balancePaise
          txn,      \* transaction documents: amount, amountPaise, has participants?
          openings, \* openings[u]: opening Transactions the script created
          entry,    \* entry[u]: opening entries of either direction, and postings
          run,      \* the script: its stage, the documents left, the user at hand
          runs,
          old,      \* history: the database before
          lostBy,   \* history: what kept a balance from being converted or backed
          orphaned  \* history: deaths that left an opening Transaction and no entry at all

migrationVars == <<user, txn, openings, entry, run, runs, old, lostBy, orphaned>>

Idle == [at |-> "idle", dry |-> FALSE, todo |-> {}, left |-> {}]
NoEntries == [debit |-> 0, credit |-> 0, posted |-> 0]

MigrationInit ==
  /\ old \in [Users \cup Txns -> OldAmounts]
  /\ user = [u \in Users |-> [balance |-> old[u], balancePaise |-> NoAmount]]
  /\ txn = [t \in Txns |-> [amount |-> old[t], amountPaise |-> NoAmount, participants |-> FALSE]]
  /\ openings = [u \in Users |-> 0]
  /\ entry = [u \in Users |-> NoEntries]
  /\ run = Idle /\ runs = 0
  /\ lostBy = [converted |-> {}, backed |-> {}]
  /\ orphaned = [u \in Users |-> 0]

(* Faulty: cut off instead of rounded.                                     *)
RupeeFloatCutToPaise(x) == x \div 10

(* Math.round of the hundredfold.                                          *)
RupeeFloatToPaise(x) == (x + 5) \div 10

-------------------------------------------------------------------------------
(* What the script finds to do at each stage, and the order of the stages. *)

LedgerIsEmpty == \A u \in Users : entry[u] = NoEntries

(* Faulty: whether the ledger has been opened is not asked.                *)
TodoUnasked(stage) ==
  CASE stage = "users" -> {u \in Users : user[u].balance # NoAmount /\ user[u].balancePaise = NoAmount}
    [] stage = "txns" -> {t \in Txns : txn[t].amount # NoAmount /\ txn[t].amountPaise = NoAmount}
    [] stage = "participants" -> {t \in Txns : ~txn[t].participants}
    [] stage = "ledger" -> {u \in Users : user[u].balancePaise \notin {NoAmount, 0}}
    [] OTHER -> {}

Todo(stage) ==
  CASE stage = "users" -> {u \in Users : user[u].balance # NoAmount /\ user[u].balancePaise = NoAmount}
    [] stage = "txns" -> {t \in Txns : txn[t].amount # NoAmount /\ txn[t].amountPaise = NoAmount}
    [] stage = "participants" -> {t \in Txns : ~txn[t].participants}
    [] stage = "ledger" -> {u \in Users : LedgerIsEmpty /\ user[u].balancePaise \notin {NoAmount, 0}}
    [] OTHER -> {}

(* Faulty: the ledger is opened before the balances are converted.         *)
StageAfterLedgerFirst(stage) ==
  CASE stage = "idle" -> "ledger" [] stage = "ledger" -> "users" [] stage = "users" -> "txns"
    [] stage = "txns" -> "participants" [] OTHER -> "end"

StageAfter(stage) ==
  CASE stage = "idle" -> "users" [] stage = "users" -> "txns" [] stage = "txns" -> "participants"
    [] stage = "participants" -> "ledger" [] OTHER -> "end"

Start ==
  /\ run.at = "idle" /\ runs < MaxRuns
  /\ runs' = runs + 1
  /\ \E dry \in BOOLEAN :
       run' = [Idle EXCEPT !.at = StageAfter("idle"), !.dry = dry, !.todo = Todo(StageAfter("idle"))]
  /\ UNCHANGED <<user, txn, openings, entry, old, lostBy, orphaned>>

NextStage ==
  /\ run.at # "idle" /\ run.todo = {} /\ run.left = {}
  /\ run' = IF StageAfter(run.at) = "end" THEN [Idle EXCEPT !.at = IF run.dry THEN "idle" ELSE "end"]
            ELSE [run EXCEPT !.at = StageAfter(run.at), !.todo = Todo(StageAfter(run.at))]
  /\ UNCHANGED <<user, txn, openings, entry, runs, old, lostBy, orphaned>>

Takes(stage, d) ==
  /\ run.at = stage /\ d \in run.todo /\ run.left = {}
  /\ run' = [run EXCEPT !.todo = @ \ {d}]

ConvertUser(u) ==
  /\ Takes("users", u)
  /\ user' = IF run.dry THEN user
             ELSE [user EXCEPT ![u] = [balance |-> NoAmount,
                                       balancePaise |-> RupeeFloatToPaise(user[u].balance)]]
  /\ UNCHANGED <<txn, openings, entry, runs, old, lostBy, orphaned>>

(* refunded is converted like amount, in the same update.                  *)
ConvertTransaction(t) ==
  /\ Takes("txns", t)
  /\ txn' = IF run.dry THEN txn
            ELSE [txn EXCEPT ![t].amount = NoAmount,
                             ![t].amountPaise = RupeeFloatToPaise(txn[t].amount)]
  /\ UNCHANGED <<user, openings, entry, runs, old, lostBy, orphaned>>

BackfillParticipants(t) ==
  /\ Takes("participants", t)
  /\ txn' = IF run.dry THEN txn ELSE [txn EXCEPT ![t].participants = TRUE]
  /\ UNCHANGED <<user, openings, entry, runs, old, lostBy, orphaned>>

(* An opening Transaction, and then its two entries, side by side.         *)
OpenLedger(u) ==
  /\ run.at = "ledger" /\ u \in run.todo /\ run.left = {}
  /\ run' = [run EXCEPT !.todo = @ \ {u},
                        !.left = IF run.dry THEN {} ELSE {<<u, "debit">>, <<u, "credit">>}]
  /\ openings' = IF run.dry THEN openings ELSE [openings EXCEPT ![u] = @ + 1]
  /\ UNCHANGED <<user, txn, entry, runs, old, lostBy, orphaned>>

InsertEntry ==
  /\ \E e \in run.left :
       /\ entry' = [entry EXCEPT ![e[1]][e[2]] = @ + user[e[1]].balancePaise]
       /\ run' = [run EXCEPT !.left = @ \ {e}]
  /\ UNCHANGED <<user, txn, openings, runs, old, lostBy, orphaned>>

AtHand(u) == \E e \in run.left : e[1] = u

(* The script dies, or one of its calls fails, which ends it as well.      *)
Die ==
  /\ run.at \notin {"idle", "end"}
  /\ run' = Idle
  /\ lostBy' = [lostBy EXCEPT !.backed = @ \cup
       {s \in {"death"} : run.at = "ledger" /\ ~LedgerIsEmpty /\ run.todo \cup run.left # {}}]
  /\ orphaned' = [u \in Users |-> IF LedgerIsEmpty /\ AtHand(u) THEN orphaned[u] + 1 ELSE orphaned[u]]
  /\ UNCHANGED <<user, txn, openings, entry, runs, old>>

(* postTransaction of the new server: $inc starts a balance that is not    *)
(* there from nothing.                                                     *)
Serve(u) ==
  /\ run.at \in {"idle", "end"}
  /\ SumFunction([v \in Users |-> entry[v].posted]) < MaxServed
  /\ user' = [user EXCEPT ![u].balancePaise = IF @ = NoAmount THEN 1 ELSE @ + 1]
  /\ entry' = [entry EXCEPT ![u].posted = @ + 1]
  /\ lostBy' = [converted |-> lostBy.converted \cup {v \in {u} : user[u].balancePaise = NoAmount},
                backed |-> lostBy.backed \cup {s \in {"server"} : LedgerIsEmpty}]
  /\ UNCHANGED <<txn, openings, run, runs, old, orphaned>>

Again ==
  /\ run.at = "end"
  /\ run' = Idle
  /\ UNCHANGED <<user, txn, openings, entry, runs, old, lostBy, orphaned>>

MigrationRests == run.at = "idle" /\ runs = MaxRuns /\ UNCHANGED migrationVars

MigrationNext ==
  \/ Start \/ NextStage \/ InsertEntry \/ Die \/ Again \/ MigrationRests
  \/ \E u \in Users : ConvertUser(u) \/ OpenLedger(u) \/ Serve(u)
  \/ \E t \in Txns : ConvertTransaction(t) \/ BackfillParticipants(t)

MigrationSpec == MigrationInit /\ [][MigrationNext]_migrationVars

-------------------------------------------------------------------------------
(* computeLedgerBalancePaise and reconcileUser                             *)
LedgerBalance(u) == entry[u].credit + entry[u].posted
Drift(u) == (IF user[u].balancePaise = NoAmount THEN 0 ELSE user[u].balancePaise) - LedgerBalance(u)

(* However often the script is run and dies, an amount of the old schema   *)
(* is still there or has become the nearest number of paise, once, and     *)
(* what the server added is kept; only a user the server credited before   *)
(* the conversion is never converted (migrate-to-paise.js:35-72).          *)
ConvertedOnce ==
  LET Nearest(paise, x) == 10 * paise - x \in -5 .. 5
      Left(d, paise) == paise = NoAmount /\ d = NoAmount
  IN /\ \A u \in Users \ lostBy.converted :
          IF user[u].balance # NoAmount THEN user[u].balancePaise = NoAmount /\ user[u].balance = old[u]
          ELSE Nearest(user[u].balancePaise - entry[u].posted, old[u])
     /\ \A t \in Txns :
          IF txn[t].amount # NoAmount THEN txn[t].amountPaise = NoAmount /\ txn[t].amount = old[t]
          ELSE Nearest(txn[t].amountPaise, old[t])

(* When a run has ended well every balance is the sum of its entries,      *)
(* which balance, unless an earlier run died after it had inserted an      *)
(* entry, or the server posted before the ledger was opened                *)
(* (migrate-to-paise.js:93-138).                                           *)
UnbackedExplained ==
  run.at = "end" /\ lostBy.backed = {} =>
    \A u \in Users : Drift(u) = 0 /\ entry[u].debit = entry[u].credit

(* Whatever the runs do, a user has one opening Transaction and one more   *)
(* for each run that died after the user's Transaction and before the      *)
(* first entry of all, which is what a later run looks for                 *)
(* (migrate-to-paise.js:93-117; :10 says "Safe to run more than once").    *)
OpeningsExplained == \A u \in Users : openings[u] <= 1 + orphaned[u]
===============================================================================
