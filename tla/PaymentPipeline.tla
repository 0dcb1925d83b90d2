---------------------------- MODULE PaymentPipeline ----------------------------
(***************************************************************************)
(* One user's requests on their way through the middlewares of the money   *)
(* routes (src/routes/walletRoutes.js, txnRoutes.js and others): the       *)
(* spending limits, the Idempotency-Key, the posting as MongoLedger shows  *)
(* it to be, atomic, the invalidation of the cached balance, the answer    *)
(* and its storage under the key; and the cached balance read beside them. *)
(* A request that gets here has a valid token and MPIN (see Accounts).     *)
(*                                                                         *)
(* A cached balance is the number of postings it includes.  The fields     *)
(* saw, before, looked, stored, cleared of a request and late of a cached  *)
(* balance are history: nothing the program does depends on them.          *)
(***************************************************************************)
EXTENDS Naturals, Sequences, FiniteSets, FiniteSetsExt, Functions

CONSTANTS Requests, Processes, IdempotencyKeys,
          Earlier,              \* bound: a request that is over when the others start
          NoKey,                \* a request without an Idempotency-Key
          NoEntry, Balance,     \* as in Cache; the key user:balance:<id>
          Answer,               \* what is stored under a key: status and body
          MaxPaise, MaxUncapped, PerTransactionPaise, DailyPaise, MonthlyPaise, DailyCount,
          MaxEvents             \* bound: changes of Redis, crashes and midnights

ASSUME NamesAssumption ==
  /\ {"redis", "nobody", "nowhere"} \cap Processes = {}
  /\ Balance \notin IdempotencyKeys /\ NoKey \notin IdempotencyKeys
  /\ NoEntry # Answer /\ Earlier \in Requests

ASSUME BoundsAssumption ==
  {MaxPaise, MaxUncapped, PerTransactionPaise, DailyPaise, MonthlyPaise, DailyCount} \subseteq Nat

VARIABLES stores,   \* Redis and the memories, by Cache
          up,       \* up[p]: does process p have a ready connection to Redis?
          req,      \* the requests
          ledger,   \* the requests whose money moved, in the order it did
          day,      \* days of one month
          events

vars == <<stores, up, req, ledger, day, events>>

INSTANCE Cache WITH Keys <- IdempotencyKeys \cup {Balance}

(* A request is capped (send, pay-bill, withdraw), uncapped or a read.     *)
(* Accepted payment requests and settled shares are uncapped and spend;    *)
(* refunds and add-money are uncapped and spend nothing (amount 0).        *)
Fresh == [at |-> "idle", kind |-> "read", p |-> "nobody",
          amount |-> 0, key |-> NoKey, day |-> 0,
          saw |-> {}, before |-> {}, looked |-> "nowhere", stored |-> "nowhere", cleared |-> {}]

(* What remains of a request that is over: nothing, unless it moved money. *)
Gone == [Fresh EXCEPT !.at = "done"]
Over(r) == [r EXCEPT !.at = "done", !.p = "nobody"]
Answered(r) == IF r.key = NoKey THEN Over(r) ELSE [r EXCEPT !.at = "storing"]

(* The earlier request moved no money, or what the limits allow.           *)
EarlierPaise ==
  {0} \cup {n \in 1 .. PerTransactionPaise : DailyCount > 0 /\ n =< DailyPaise /\ n =< MonthlyPaise}

Init ==
  /\ stores = EmptyStores
  /\ \E connected \in BOOLEAN : up = [p \in Processes |-> connected]
  /\ \E amount \in EarlierPaise :
       LET paid == [Gone EXCEPT !.kind = "capped", !.amount = amount, !.cleared = {"redis"} \cup Processes]
       IN /\ req = [c \in Requests |-> CASE c # Earlier -> Fresh
                                         [] c = Earlier /\ amount > 0 -> paid
                                         [] OTHER -> Gone]
          /\ ledger = IF amount > 0 THEN <<Earlier>> ELSE <<>>
  /\ day = 0 /\ events = 0

Posted == Range(ledger)
StoreOf(p) == IF up[p] THEN "redis" ELSE p

-------------------------------------------------------------------------------
(* The spending limits                                                     *)

Total(T) == MapThenSumSet(LAMBDA t : req[t].amount, T)

(* Faulty: the other ways of moving money out are forgotten.               *)
OutboundCappedSince(d) == {t \in Posted : req[t].kind = "capped" /\ req[t].day >= d}

(* What outboundSince sums and counts: today, or this month.  (A transfer  *)
(* that a refund has REVERSED drops out of the sum; there is none here.)   *)
OutboundSince(d) == {t \in Posted : req[t].amount > 0 /\ req[t].day >= d}

WithinLimits(amount) ==
  LET today == OutboundSince(day)
  IN /\ amount =< PerTransactionPaise
     /\ Cardinality(today) + 1 =< DailyCount
     /\ Total(today) + amount =< DailyPaise
     /\ Total(OutboundSince(0)) + amount =< MonthlyPaise

EnforceTransactionLimits(c) ==
  /\ req[c].at = "idle"
  /\ \E amount \in 1 .. MaxPaise :
       req' = [req EXCEPT ![c] =
         IF WithinLimits(amount)
         THEN [@ EXCEPT !.at = "lookup", !.kind = "capped", !.amount = amount, !.saw = Posted]
         ELSE Gone]
  /\ UNCHANGED <<stores, up, ledger, day, events>>

-------------------------------------------------------------------------------
(* The Idempotency-Key: what is found is replayed, whichever route stored  *)
(* it and whether it was a success or a refusal.                           *)

Idempotency(c) ==
  /\ req[c].at = "lookup" \/ req[c].at = "idle"
  /\ \E p \in Processes, k \in IdempotencyKeys \cup {NoKey} :
       LET r == [req[c] EXCEPT !.at = "handler", !.p = p,
                               !.kind = IF req[c].at = "idle" THEN "uncapped" ELSE "capped"]
           answered == {d \in Posted : req[d].key = k /\ req[d].stored # "nowhere"}
       IN req' = [req EXCEPT ![c] =
            CASE k = NoKey -> r
              [] k # NoKey /\ GetCache(stores, p, k, up[p]) = NoEntry ->
                   [r EXCEPT !.key = k, !.looked = StoreOf(p), !.before = answered]
              [] OTHER -> Gone]
  /\ UNCHANGED <<stores, up, ledger, day, events>>

(* postTransaction commits ...                                             *)
Post(c) ==
  /\ req[c].at = "handler"
  /\ \E amount \in IF req[c].kind = "capped" THEN {req[c].amount} ELSE 0 .. MaxUncapped :
       req' = [req EXCEPT ![c] = [@ EXCEPT !.at = "posted", !.amount = amount, !.day = day]]
  /\ ledger' = Append(ledger, c)
  /\ UNCHANGED <<stores, up, day, events>>

(* ... and then drops what is cached of the user.  The receiver is looked  *)
(* up next, and if that fails the answer is an error, which is not kept.   *)
InvalidateForUsers(c) ==
  /\ req[c].at = "posted"
  /\ LET p == req[c].p
         r == [req[c] EXCEPT !.cleared = {p, StoreOf(p)}]
     IN /\ stores' = DeleteCache(stores, p, {Balance}, up[p])
        /\ \E answer \in {Answered(r), Over(r)} : req' = [req EXCEPT ![c] = answer]
  /\ UNCHANGED <<up, ledger, day, events>>

(* The handler refuses (4xx, kept like a success) or fails (5xx).          *)
HandlerRefuses(c) ==
  /\ req[c].at = "handler"
  /\ \E answer \in {Gone} \cup (IF req[c].key = NoKey THEN {} ELSE {Answered(req[c])}) :
       req' = [req EXCEPT ![c] = answer]
  /\ UNCHANGED <<stores, up, ledger, day, events>>

(* res.json does not wait for setCache: Redis gets the answer later, or    *)
(* never, and then this process's memory does.                             *)
StoreAnswer(c) ==
  /\ req[c].at = "storing"
  /\ LET p == req[c].p
     IN /\ stores' = SetCache(stores, p, req[c].key, Answer, up[p])
        /\ req' = [req EXCEPT ![c] = IF c \in Posted THEN [Over(@) EXCEPT !.stored = StoreOf(p)]
                                     ELSE Gone]
  /\ UNCHANGED <<up, ledger, day, events>>

-------------------------------------------------------------------------------
(* GET /wallet/balance                                                     *)

ReadCached(c) ==
  /\ req[c].at = "idle"
  /\ \E p \in Processes :
       req' = [req EXCEPT ![c] = IF GetCache(stores, p, Balance, up[p]) = NoEntry
                                 THEN [@ EXCEPT !.at = "load", !.p = p] ELSE Gone]
  /\ UNCHANGED <<stores, up, ledger, day, events>>

LoadBalance(c) ==
  /\ req[c].at = "load"
  /\ req' = [req EXCEPT ![c] = [@ EXCEPT !.at = "fill", !.amount = Len(ledger)]]
  /\ UNCHANGED <<stores, up, ledger, day, events>>

FillCache(c) ==
  /\ req[c].at = "fill"
  /\ LET p == req[c].p
         missed == {ledger[i] : i \in req[c].amount + 1 .. Len(ledger)}
         entry == [upTo |-> req[c].amount, late |-> {d \in missed : req[d].cleared # {}}]
     IN stores' = SetCache(stores, p, Balance, entry, up[p])
  /\ req' = [req EXCEPT ![c] = Gone]
  /\ UNCHANGED <<up, ledger, day, events>>

-------------------------------------------------------------------------------
(* The outside                                                             *)

Event ==
  /\ events < MaxEvents /\ \E c \in Requests : req[c].at # "done"
  /\ events' = events + 1

(* The connection of a process is lost or found; what Redis holds stays.   *)
RedisChanges ==
  /\ Event
  /\ \E p \in Processes : up' = [up EXCEPT ![p] = ~@]
  /\ UNCHANGED <<stores, req, ledger, day>>

(* A process dies with its memory and what its requests had left to do,    *)
(* and is started again.                                                   *)
Crash ==
  /\ Event
  /\ \E p \in Processes :
       /\ stores' = Restarted(stores, p)
       /\ req' = [c \in Requests |->
            CASE req[c].p = p -> IF c \in Posted THEN Over(req[c]) ELSE Gone
              [] req[c].stored = p -> [req[c] EXCEPT !.stored = "nowhere"]
              [] OTHER -> req[c]]
  /\ UNCHANGED <<up, ledger, day>>

NextDay ==
  /\ Event
  /\ day' = day + 1
  /\ UNCHANGED <<stores, up, req, ledger>>

Step(c) ==
  \/ EnforceTransactionLimits(c) \/ Idempotency(c) \/ Post(c)
  \/ InvalidateForUsers(c) \/ HandlerRefuses(c) \/ StoreAnswer(c)
  \/ ReadCached(c) \/ LoadBalance(c) \/ FillCache(c)

Rest == (\A c \in Requests : req[c].at = "done") /\ UNCHANGED vars

Next == (\E c \in Requests : Step(c)) \/ RedisChanges \/ Crash \/ NextDay \/ Rest

Spec == Init /\ [][Next]_vars

-------------------------------------------------------------------------------
(* A payment exceeds a cap only if money went out between its check and    *)
(* its posting: in the order of the ledger, every capped payment that had  *)
(* seen all the spending before it fits the limits of the day and month it *)
(* was posted in (enforceLimits.js:46-76).                                 *)
OnlyOverlapsExceedCaps ==
  \A i \in DOMAIN ledger :
    LET c == ledger[i]
        spent == {t \in {ledger[j] : j \in 1 .. i - 1} : req[t].amount > 0}
        today == {t \in spent : req[t].day = req[c].day}
    IN req[c].kind = "capped" /\ spent \subseteq req[c].saw =>
         /\ req[c].amount =< PerTransactionPaise
         /\ Cardinality(today) + 1 =< DailyCount
         /\ Total(today) + req[c].amount =< DailyPaise
         /\ Total(spent) + req[c].amount =< MonthlyPaise

(* A key moves money twice only if the second request looked it up before  *)
(* the answer to the first was stored, or in a store the answer is not in  *)
(* (idempotency.js:16-30, cache.js).                                       *)
OnlyOverlapsPostTwice ==
  \A c, d \in Posted :
    c # d /\ req[c].key = req[d].key /\ req[c].key # NoKey /\ c \in req[d].before
      => req[c].stored # req[d].looked

(* A balance in a cache lacks a posting only while the invalidation of     *)
(* that posting has not reached this store (it is yet to come, died with   *)
(* its process, or went elsewhere), or because a reader that had loaded    *)
(* the balance before stored it after the invalidation                     *)
(* (walletController.js:18-27, ledgerService.js:170).                      *)
StaleBalanceExplained ==
  \A s \in {"redis"} \cup Processes :
    LET entry == IF s = "redis" THEN stores.redis[Balance] ELSE stores.memory[s][Balance]
    IN entry # NoEntry =>
         \A i \in entry.upTo + 1 .. Len(ledger) :
           s \notin req[ledger[i]].cleared \/ ledger[i] \in entry.late
===============================================================================
