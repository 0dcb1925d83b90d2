------------------------ MODULE PaymentPipelineProofs -------------------------
(***************************************************************************)
(* PaymentPipeline for any requests, processes, keys, limits and events.   *)
(***************************************************************************)
EXTENDS PaymentPipeline, Sums

Stores == {"redis"} \cup Processes
AllKeys == IdempotencyKeys \cup {Balance}
Entries == [upTo : Nat, late : SUBSET Requests]

Values == {NoEntry, Answer} \cup Entries
StoresOf(V) == [redis : [AllKeys -> V], memory : [Processes -> [AllKeys -> V]]]

In(t, s, k) == IF s = "redis" THEN t.redis[k] ELSE t.memory[s][k]

(* What the limits say does not matter here, and what a request saw        *)
(* of the ledger neither.                                                  *)
Records ==
  [at : {"idle", "lookup", "handler", "posted", "storing", "load", "fill", "done"},
   kind : {"read", "capped", "uncapped"}, p : Processes \cup {"nobody"},
   amount : Nat, key : IdempotencyKeys \cup {NoKey}, day : Nat,
   saw : SUBSET Requests, before : SUBSET Requests,
   looked : Stores \cup {"nowhere"}, stored : Stores \cup {"nowhere"}, cleared : SUBSET Stores]

TypeOK ==
  /\ stores \in StoresOf(Values)
  /\ \A s \in Stores : In(stores, s, Balance) \in {NoEntry} \cup Entries
  /\ up \in [Processes -> BOOLEAN]
  /\ req \in [Requests -> Records]
  /\ ledger \in Seq(Requests)
  /\ day \in Nat

(* A request under way runs in a process and has invalidated nothing; one  *)
(* that is over runs nowhere.                                              *)
Runs(r) ==
  /\ r.at \in {"handler", "posted", "storing", "load", "fill"} => r.p \in Processes
  /\ r.at = "storing" => r.key # NoKey
  /\ r.at \notin {"storing", "done"} => r.cleared = {}
  /\ r.at = "done" => r.p = "nobody"

(* An answer that is stored somewhere is found there.                      *)
Stored(r) ==
  r.stored # "nowhere" =>
    r.at = "done" /\ r.key \in IdempotencyKeys /\ In(stores, r.stored, r.key) = Answer

(* The requests whose answers were stored when r looked its key up are     *)
(* over, and their answers were not, and never will be, where r looked.    *)
Looked(r) ==
  \A d \in r.before :
    r.looked # "nowhere" /\ req[d].at = "done" /\ req[d].stored # r.looked

RequestsOK == \A c \in Requests : Runs(req[c]) /\ Stored(req[c]) /\ Looked(req[c])

(* StaleBalanceExplained, store by store.                                  *)
Explained(s, entry) ==
  entry # NoEntry =>
    \A i \in entry.upTo + 1 .. Len(ledger) :
      s \notin req[ledger[i]].cleared \/ ledger[i] \in entry.late

BalancesOK == \A s \in Stores : Explained(s, In(stores, s, Balance))

IInv == TypeOK /\ RequestsOK /\ BalancesOK
-------------------------------------------------------------------------------
(* What the operators of Cache return. *)
LEMMA GetFinds ==
  ASSUME NEW t, NEW p \in Processes, NEW k, NEW u \in BOOLEAN
  PROVE  GetCache(t, p, k, u) = In(t, IF u THEN "redis" ELSE p, k)
  BY NamesAssumption DEF GetCache, In

LEMMA SetEffect ==
  ASSUME NEW V, NEW t \in StoresOf(V), NEW p \in Processes, NEW k \in AllKeys, NEW v \in V, NEW u \in BOOLEAN
  PROVE  /\ SetCache(t, p, k, v, u) \in StoresOf(V)
         /\ \A s \in Stores, j \in AllKeys :
              In(SetCache(t, p, k, v, u), s, j) =
                IF s = (IF u THEN "redis" ELSE p) /\ j = k THEN v ELSE In(t, s, j)
<1>1. CASE u
  <2>1. SetCache(t, p, k, v, u) = [t EXCEPT !.redis[k] = v]
    BY <1>1 DEF SetCache
  <2>2. [t EXCEPT !.redis[k] = v] \in StoresOf(V)
    BY DEF StoresOf
  <2>3. \A s \in Stores, j \in AllKeys :
          In([t EXCEPT !.redis[k] = v], s, j) = IF s = "redis" /\ j = k THEN v ELSE In(t, s, j)
    BY NamesAssumption DEF In, Stores, StoresOf
  <2> QED BY <1>1, <2>1, <2>2, <2>3
<1>2. CASE ~u
  <2>1. SetCache(t, p, k, v, u) = [t EXCEPT !.memory[p][k] = v]
    BY <1>2 DEF SetCache
  <2>2. [t EXCEPT !.memory[p][k] = v] \in StoresOf(V)
    BY DEF StoresOf
  <2>3. \A s \in Stores, j \in AllKeys :
          In([t EXCEPT !.memory[p][k] = v], s, j) = IF s = p /\ j = k THEN v ELSE In(t, s, j)
    BY NamesAssumption DEF In, Stores, StoresOf
  <2> QED BY <1>2, <2>1, <2>2, <2>3
<1> QED BY <1>1, <1>2

LEMMA DeleteEffect ==
  ASSUME NEW V, NoEntry \in V, NEW t \in StoresOf(V), NEW p \in Processes, NEW K, NEW u \in BOOLEAN
  PROVE  /\ DeleteCache(t, p, K, u) \in StoresOf(V)
         /\ \A s \in Stores, j \in AllKeys :
              In(DeleteCache(t, p, K, u), s, j) =
                IF j \in K /\ s \in {p, IF u THEN "redis" ELSE p} THEN NoEntry ELSE In(t, s, j)
<1> DEFINE r == DeleteCache(t, p, K, u)
<1>1. /\ r.redis = [k \in AllKeys |-> IF u /\ k \in K THEN NoEntry ELSE t.redis[k]]
      /\ r.memory = [t.memory EXCEPT ![p] = [k \in AllKeys |-> IF k \in K THEN NoEntry ELSE @[k]]]
      /\ r = [redis |-> r.redis, memory |-> r.memory]
  BY DEF DeleteCache, AllKeys
<1>2. r.redis \in [AllKeys -> V] /\ r.memory \in [Processes -> [AllKeys -> V]]
  BY <1>1 DEF StoresOf
<1>3. r \in StoresOf(V)
  BY <1>1, <1>2 DEF StoresOf
<1>4. \A s \in Stores, j \in AllKeys :
        In(r, s, j) = IF j \in K /\ s \in {p, IF u THEN "redis" ELSE p} THEN NoEntry ELSE In(t, s, j)
  <2> HIDE DEF r
  <2> QED BY <1>1, NamesAssumption DEF In, Stores, StoresOf
<1> QED BY <1>3, <1>4

LEMMA RestartEffect ==
  ASSUME NEW V, NoEntry \in V, NEW t \in StoresOf(V), NEW p \in Processes
  PROVE  /\ Restarted(t, p) \in StoresOf(V)
         /\ \A s \in Stores, j \in AllKeys :
              In(Restarted(t, p), s, j) = IF s = p THEN NoEntry ELSE In(t, s, j)
<1> DEFINE r == Restarted(t, p)
<1>1. r = [t EXCEPT !.memory[p] = [k \in AllKeys |-> NoEntry]]
  BY DEF Restarted, AllKeys
<1>2. r \in StoresOf(V)
  <2> HIDE DEF r
  <2> QED BY <1>1 DEF StoresOf
<1>3. \A s \in Stores, j \in AllKeys : In(r, s, j) = IF s = p THEN NoEntry ELSE In(t, s, j)
  <2> HIDE DEF r
  <2> QED BY <1>1, NamesAssumption DEF In, Stores, StoresOf
<1> QED BY <1>2, <1>3

-------------------------------------------------------------------------------
(* A request that is not over goes on as r, and no answer is lost.         *)
LEMMA GoesOn ==
  ASSUME TypeOK, RequestsOK, NEW c \in Requests, req[c].at # "done",
         NEW r \in Records, req' = [req EXCEPT ![c] = r],
         Runs(r), Stored(r)', Looked(r),
         \A s \in Stores, k \in IdempotencyKeys :
           In(stores, s, k) = Answer => In(stores', s, k) = Answer
  PROVE  req' \in [Requests -> Records] /\ RequestsOK'
<1>1. req' \in [Requests -> Records] /\ req'[c] = r /\ \A d \in Requests \ {c} : req'[d] = req[d]
  BY DEF TypeOK
<1>2. \A d \in Requests : req[d].stored \in Stores \cup {"nowhere"} /\ req[d].before \subseteq Requests
  BY DEF TypeOK, Records
<1>3. r.before \subseteq Requests
  BY DEF Records
<1>4. ASSUME NEW e \in Requests PROVE Runs(req'[e]) /\ Stored(req[e])' /\ Looked(req[e])'
  <2>1. CASE e = c
    <3>1. Looked(req[e])'
      BY <2>1, <1>1, <1>3 DEF Looked
    <3>2. Stored(req[e])'
      BY <2>1, <1>1 DEF Stored
    <3> QED BY <2>1, <1>1, <3>1, <3>2
  <2>2. CASE e # c
    <3>1. Runs(req[e]) /\ Stored(req[e]) /\ Looked(req[e])
      BY DEF RequestsOK
    <3>2. Looked(req[e])'
      BY <2>2, <3>1, <1>1, <1>2 DEF Looked
    <3>3. Stored(req[e])'
      BY <2>2, <3>1, <1>1, <1>2 DEF Stored
    <3> QED BY <2>2, <1>1, <3>1, <3>2, <3>3
  <2> QED BY <2>1, <2>2
<1> QED BY <1>1, <1>4 DEF RequestsOK, Runs

(* Balances stay explained while no posting is added, none is forgotten by *)
(* a store that keeps its entry, and no entry is stored.                   *)
LEMMA StaysExplained ==
  ASSUME TypeOK, BalancesOK, ledger' = ledger,
         \A s \in Stores, d \in Requests :
           s \in req'[d].cleared => s \in req[d].cleared \/ In(stores', s, Balance) = NoEntry,
         \A s \in Stores : In(stores', s, Balance) \in {NoEntry, In(stores, s, Balance)}
  PROVE  BalancesOK'
<1> SUFFICES ASSUME NEW s \in Stores PROVE Explained(s, In(stores, s, Balance))'
  BY DEF BalancesOK
<1>1. CASE In(stores', s, Balance) = NoEntry
  BY <1>1 DEF Explained
<1>2. CASE In(stores', s, Balance) = In(stores, s, Balance) /\ In(stores, s, Balance) # NoEntry
  <2> DEFINE entry == In(stores, s, Balance)
  <2>1. SUFFICES ASSUME NEW i \in entry.upTo + 1 .. Len(ledger)
                 PROVE  s \notin req'[ledger[i]].cleared \/ ledger[i] \in entry.late
    BY <1>2 DEF Explained
  <2>2. entry.upTo \in Nat /\ ledger[i] \in Requests
    BY <1>2 DEF TypeOK, Entries
  <2>3. s \notin req[ledger[i]].cleared \/ ledger[i] \in entry.late
    BY <1>2 DEF BalancesOK, Explained
  <2> QED BY <1>2, <2>2, <2>3
<1> QED BY <1>1, <1>2

LEMMA InitIInv == Init => IInv
<1> SUFFICES ASSUME Init PROVE IInv
  OBVIOUS
<1>1. EmptyStores \in StoresOf(Values) /\ \A s \in Stores, k \in AllKeys : In(EmptyStores, s, k) = NoEntry
  BY NamesAssumption DEF EmptyStores, StoresOf, In, Stores, Values, AllKeys
<1>2. stores \in StoresOf(Values) /\ \A s \in Stores : In(stores, s, Balance) = NoEntry
  BY <1>1 DEF Init, AllKeys
<1>3. up \in [Processes -> BOOLEAN] /\ ledger \in Seq(Requests) /\ day \in Nat
  <2>1. PICK connected \in BOOLEAN : up = [p \in Processes |-> connected]
    BY DEF Init
  <2>2. ledger = <<Earlier>> \/ ledger = <<>>
    BY DEF Init
  <2> QED BY <2>1, <2>2, NamesAssumption DEF Init
<1>4. ASSUME NEW c \in Requests
      PROVE  /\ req[c] \in Records
             /\ Runs(req[c]) /\ req[c].stored = "nowhere" /\ req[c].before = {}
  <2> DEFINE paid(amount) ==
        [Gone EXCEPT !.kind = "capped", !.amount = amount, !.cleared = {"redis"} \cup Processes]
  <2>1. PICK amount \in EarlierPaise : req[c] \in {Fresh, Gone, paid(amount)}
    BY DEF Init
  <2>2. Fresh \in Records /\ Runs(Fresh) /\ Fresh.stored = "nowhere" /\ Fresh.before = {}
    BY DEF Fresh, Records, Runs
  <2>3. Gone \in Records /\ Runs(Gone) /\ Gone.stored = "nowhere" /\ Gone.before = {}
    BY DEF Fresh, Gone, Records, Runs
  <2>4. /\ paid(amount) \in Records /\ Runs(paid(amount))
        /\ paid(amount).stored = "nowhere" /\ paid(amount).before = {}
    <3>1. amount \in Nat
      BY BoundsAssumption DEF EarlierPaise
    <3>2. paid(amount) \in Records
      BY <2>3, <3>1 DEF Records, Stores
    <3>3. /\ paid(amount).at = "done" /\ paid(amount).p = "nobody"
          /\ paid(amount).stored = "nowhere" /\ paid(amount).before = {}
      BY <2>3 DEF Records, Gone, Fresh
    <3> HIDE DEF paid
    <3> QED BY <3>2, <3>3 DEF Runs
  <2> QED BY <2>1, <2>2, <2>3, <2>4
<1>5. req \in [Requests -> Records]
  BY <1>4 DEF Init
<1>6. RequestsOK
  BY <1>4 DEF RequestsOK, Stored, Looked
<1>7. BalancesOK
  BY <1>2 DEF BalancesOK, Explained
<1> QED BY <1>2, <1>3, <1>5, <1>6, <1>7 DEF IInv, TypeOK

-------------------------------------------------------------------------------
(* A step that leaves the stores alone and makes r of a request.           *)
LEMMA StoresUntouched ==
  ASSUME IInv, NEW c \in Requests, req[c].at # "done", NEW r \in Records,
         req' = [req EXCEPT ![c] = r],
         Runs(r), r.stored = "nowhere", Looked(r), r.cleared \subseteq req[c].cleared,
         UNCHANGED <<stores, up, ledger, day>>
  PROVE  IInv'
<1>1. req' \in [Requests -> Records] /\ RequestsOK'
  BY GoesOn DEF IInv, Stored
<1>2. BalancesOK'
  <2>1. \A d \in Requests : req'[d].cleared \subseteq req[d].cleared
    BY DEF IInv, TypeOK
  <2> QED BY <2>1, StaysExplained DEF IInv
<1> QED BY <1>1, <1>2 DEF IInv, TypeOK

LEMMA RecordsOK ==
  ASSUME IInv, NEW c \in Requests
  PROVE  /\ req[c] \in Records /\ Runs(req[c]) /\ Stored(req[c]) /\ Looked(req[c])
         /\ req[c].at # "done" => req[c].stored = "nowhere"
  BY DEF IInv, TypeOK, RequestsOK, Records, Stored

LEMMA GoneOK == Gone \in Records /\ Runs(Gone) /\ Gone.stored = "nowhere" /\ Gone.before = {} /\ Gone.cleared = {}
  BY DEF Fresh, Gone, Records, Runs

LEMMA LimitsStep ==
  ASSUME IInv, NEW c \in Requests, EnforceTransactionLimits(c)
  PROVE  IInv'
<1>1. PICK amount \in 1 .. MaxPaise :
        req' = [req EXCEPT ![c] =
          IF WithinLimits(amount)
          THEN [@ EXCEPT !.at = "lookup", !.kind = "capped", !.amount = amount, !.saw = Posted]
          ELSE Gone]
  BY DEF EnforceTransactionLimits
<1> DEFINE r == [req[c] EXCEPT !.at = "lookup", !.kind = "capped", !.amount = amount, !.saw = Posted]
<1>2. Posted \subseteq Requests
  BY DEF IInv, TypeOK, Posted, Range
<1>3. r \in Records /\ Runs(r) /\ r.stored = "nowhere" /\ Looked(r) /\ r.cleared = req[c].cleared
  <2>1. amount \in Nat /\ req[c] \in Records
    BY BoundsAssumption, RecordsOK
  <2>2. r \in Records
    BY <1>2, <2>1 DEF Records
  <2>3. /\ r.at = "lookup" /\ r.p = req[c].p /\ r.before = req[c].before /\ r.looked = req[c].looked
        /\ r.stored = req[c].stored /\ r.cleared = req[c].cleared
    BY <2>1 DEF Records
  <2> HIDE DEF r
  <2> QED BY <2>2, <2>3, RecordsOK DEF EnforceTransactionLimits, Runs, Looked
<1>4. CASE WithinLimits(amount)
  <2>1. req' = [req EXCEPT ![c] = r]
    BY <1>1, <1>4 DEF IInv, TypeOK
  <2> QED BY <1>3, <2>1, StoresUntouched DEF EnforceTransactionLimits
<1>5. CASE ~WithinLimits(amount)
  <2>1. req' = [req EXCEPT ![c] = Gone]
    BY <1>1, <1>5
  <2> QED BY <2>1, GoneOK, StoresUntouched DEF EnforceTransactionLimits, Looked
<1> QED BY <1>4, <1>5

LEMMA IdempotencyStep ==
  ASSUME IInv, NEW c \in Requests, Idempotency(c)
  PROVE  IInv'
<1> DEFINE r(p, kind) == [req[c] EXCEPT !.at = "handler", !.p = p, !.kind = kind]
           answered(k) == {d \in Posted : req[d].key = k /\ req[d].stored # "nowhere"}
           keyed(p, kind, k) == [r(p, kind) EXCEPT !.key = k, !.looked = StoreOf(p), !.before = answered(k)]
<1>1. PICK p \in Processes, k \in IdempotencyKeys \cup {NoKey}, kind \in {"capped", "uncapped"} :
        req' = [req EXCEPT ![c] =
          CASE k = NoKey -> r(p, kind)
            [] k # NoKey /\ GetCache(stores, p, k, up[p]) = NoEntry -> keyed(p, kind, k)
            [] OTHER -> Gone]
  BY DEF Idempotency
<1>2. req[c] \in Records /\ req[c].at \in {"lookup", "idle"}
  BY RecordsOK DEF Idempotency
<1>3. r(p, kind) \in Records
  BY <1>2 DEF Records
<1>4. /\ r(p, kind).at = "handler" /\ r(p, kind).p = p /\ r(p, kind).before = req[c].before
      /\ r(p, kind).looked = req[c].looked /\ r(p, kind).stored = req[c].stored
      /\ r(p, kind).cleared = req[c].cleared
  BY <1>2 DEF Records
<1>5. CASE k = NoKey
  <2>1. req' = [req EXCEPT ![c] = r(p, kind)]
    BY <1>1, <1>5
  <2> HIDE DEF r
  <2>2. Runs(r(p, kind)) /\ Looked(r(p, kind)) /\ r(p, kind).stored = "nowhere"
    BY <1>2, <1>4, RecordsOK DEF Runs, Looked
  <2> QED BY <1>2, <1>3, <1>4, <2>1, <2>2, StoresUntouched DEF Idempotency
<1>6. CASE k # NoKey /\ GetCache(stores, p, k, up[p]) = NoEntry
  <2>1. req' = [req EXCEPT ![c] = keyed(p, kind, k)]
    BY <1>1, <1>6
  <2>2. answered(k) \subseteq Requests /\ StoreOf(p) \in Stores /\ up[p] \in BOOLEAN
    BY DEF IInv, TypeOK, Posted, Range, StoreOf, Stores
  <2> HIDE DEF r, answered
  <2>3. keyed(p, kind, k) \in Records
    BY <1>3, <2>2 DEF Records
  <2>4. /\ keyed(p, kind, k).at = "handler" /\ keyed(p, kind, k).p = p
        /\ keyed(p, kind, k).before = answered(k) /\ keyed(p, kind, k).looked = StoreOf(p)
        /\ keyed(p, kind, k).stored = req[c].stored /\ keyed(p, kind, k).cleared = req[c].cleared
    BY <1>3, <1>4 DEF Records
  <2>5. In(stores, StoreOf(p), k) = NoEntry
    BY <1>6, <2>2, GetFinds DEF StoreOf
  <2>6. ASSUME NEW d \in answered(k)
        PROVE  StoreOf(p) # "nowhere" /\ req[d].at = "done" /\ req[d].stored # StoreOf(p)
    <3>1. d \in Requests /\ req[d].key = k /\ req[d].stored # "nowhere"
      BY <2>2 DEF answered
    <3>2. req[d].at = "done" /\ In(stores, req[d].stored, k) = Answer
      BY <3>1, RecordsOK DEF Stored
    <3> QED BY <2>5, <3>2, NamesAssumption DEF StoreOf
  <2>7. Looked(keyed(p, kind, k))
    BY <2>4, <2>6 DEF Looked
  <2>8. Runs(keyed(p, kind, k)) /\ keyed(p, kind, k).stored = "nowhere"
    BY <1>2, <2>4, RecordsOK DEF Runs
  <2> HIDE DEF keyed
  <2> QED BY <1>2, <2>1, <2>3, <2>4, <2>7, <2>8, StoresUntouched DEF Idempotency
<1>7. CASE k # NoKey /\ GetCache(stores, p, k, up[p]) # NoEntry
  <2>1. req' = [req EXCEPT ![c] = Gone]
    BY <1>1, <1>7
  <2> QED BY <1>2, <2>1, GoneOK, StoresUntouched DEF Idempotency, Looked
<1> QED BY <1>5, <1>6, <1>7

LEMMA PostStep ==
  ASSUME IInv, NEW c \in Requests, Post(c)
  PROVE  IInv'
<1> DEFINE r(amount) == [req[c] EXCEPT !.at = "posted", !.amount = amount, !.day = day]
<1>1. req[c] \in Records /\ req[c].at = "handler" /\ day \in Nat
  BY RecordsOK DEF Post, IInv, TypeOK
<1>2. PICK amount \in Nat : req' = [req EXCEPT ![c] = r(amount)]
  <2>1. req[c].amount \in Nat
    BY <1>1 DEF Records
  <2>2. PICK amount \in IF req[c].kind = "capped" THEN {req[c].amount} ELSE 0 .. MaxUncapped :
          req' = [req EXCEPT ![c] = r(amount)]
    BY DEF Post
  <2>3. amount \in Nat
    <3>1. CASE req[c].kind = "capped"
      BY <2>1, <3>1
    <3>2. CASE req[c].kind # "capped"
      BY <3>2, BoundsAssumption
    <3> QED BY <3>1, <3>2
  <2> QED BY <2>2, <2>3
<1>3. r(amount) \in Records
  BY <1>1 DEF Records
<1>4. /\ r(amount).at = "posted" /\ r(amount).p = req[c].p /\ r(amount).before = req[c].before
      /\ r(amount).looked = req[c].looked /\ r(amount).stored = req[c].stored
      /\ r(amount).cleared = req[c].cleared
  BY <1>1 DEF Records
<1> HIDE DEF r
<1>5. Runs(r(amount)) /\ Looked(r(amount)) /\ r(amount).stored = "nowhere" /\ r(amount).cleared = {}
  BY <1>1, <1>4, RecordsOK DEF Runs, Looked
<1>6. stores' = stores /\ up' = up /\ day' = day /\ ledger' = Append(ledger, c)
  BY DEF Post
<1>7. req' \in [Requests -> Records] /\ RequestsOK'
  BY <1>1, <1>2, <1>3, <1>5, <1>6, GoesOn DEF IInv, Stored
<1>8. BalancesOK'
  <2> SUFFICES ASSUME NEW s \in Stores, In(stores, s, Balance) # NoEntry,
                      NEW i \in In(stores, s, Balance).upTo + 1 .. Len(ledger')
               PROVE  s \notin req'[ledger'[i]].cleared \/ ledger'[i] \in In(stores, s, Balance).late
    BY <1>6 DEF BalancesOK, Explained, In
  <2>1. In(stores, s, Balance).upTo \in Nat /\ ledger \in Seq(Requests)
    BY DEF IInv, TypeOK, Entries
  <2>2. CASE ledger'[i] = c
    BY <1>2, <1>5, <2>2 DEF IInv, TypeOK
  <2>3. CASE ledger'[i] # c
    <3>1. i \in In(stores, s, Balance).upTo + 1 .. Len(ledger) /\ ledger'[i] = ledger[i] /\ ledger[i] \in Requests
      BY <1>6, <2>1, <2>3
    <3>2. s \notin req[ledger[i]].cleared \/ ledger[i] \in In(stores, s, Balance).late
      BY <3>1 DEF IInv, BalancesOK, Explained
    <3>3. req'[ledger[i]] = req[ledger[i]]
      BY <1>2, <2>3, <3>1 DEF IInv, TypeOK
    <3> QED BY <3>1, <3>2, <3>3
  <2> QED BY <2>2, <2>3
<1>9. ledger' \in Seq(Requests)
  BY <1>6 DEF IInv, TypeOK
<1> QED BY <1>6, <1>7, <1>8, <1>9 DEF IInv, TypeOK

LEMMA InvalidateStep ==
  ASSUME IInv, NEW c \in Requests, InvalidateForUsers(c)
  PROVE  IInv'
<1> DEFINE p == req[c].p
           r == [req[c] EXCEPT !.cleared = {p, StoreOf(p)}]
<1>1. req[c] \in Records /\ req[c].at = "posted" /\ p \in Processes /\ req[c].stored = "nowhere"
  BY RecordsOK DEF InvalidateForUsers, Runs
<1>2. StoreOf(p) \in Stores /\ up[p] \in BOOLEAN /\ {p, StoreOf(p)} \subseteq Stores
  BY <1>1 DEF IInv, TypeOK, StoreOf, Stores
<1>3. PICK answer \in {Answered(r), Over(r)} : req' = [req EXCEPT ![c] = answer]
  BY DEF InvalidateForUsers
<1>4. r \in Records
  BY <1>1, <1>2 DEF Records
<1>5. /\ r.key = req[c].key /\ r.before = req[c].before /\ r.looked = req[c].looked
      /\ r.p = p /\ r.stored = "nowhere" /\ r.cleared = {p, StoreOf(p)}
  BY <1>1 DEF Records
<1>6. stores' = DeleteCache(stores, p, {Balance}, up[p]) /\ UNCHANGED <<up, ledger, day>>
  BY DEF InvalidateForUsers
<1> HIDE DEF r
<1>7. Over(r) \in Records /\ [r EXCEPT !.at = "storing"] \in Records
  BY <1>4 DEF Records, Over
<1>8. /\ Over(r).at = "done" /\ Over(r).p = "nobody" /\ Over(r).before = r.before
      /\ Over(r).looked = r.looked /\ Over(r).stored = r.stored /\ Over(r).cleared = r.cleared
  BY <1>4 DEF Records, Over
<1>9. LET t == [r EXCEPT !.at = "storing"]
      IN /\ t.at = "storing" /\ t.p = r.p /\ t.key = r.key /\ t.before = r.before
         /\ t.looked = r.looked /\ t.stored = r.stored /\ t.cleared = r.cleared
  BY <1>4 DEF Records
<1>10. /\ answer \in Records /\ Runs(answer) /\ answer.stored = "nowhere"
       /\ answer.before = req[c].before /\ answer.looked = req[c].looked
       /\ answer.cleared = {p, StoreOf(p)}
  <2>1. CASE answer = Over(r)
    BY <2>1, <1>5, <1>7, <1>8 DEF Runs
  <2>2. CASE answer = [r EXCEPT !.at = "storing"] /\ r.key # NoKey
    BY <2>2, <1>1, <1>5, <1>7, <1>9 DEF Runs
  <2> QED BY <1>3, <2>1, <2>2 DEF Answered
<1>11. stores \in StoresOf(Values) /\ NoEntry \in Values
  BY DEF IInv, TypeOK, Values
<1>12. /\ stores' \in StoresOf(Values)
       /\ \A s \in Stores, j \in AllKeys :
            In(stores', s, j) = IF j \in {Balance} /\ s \in {p, StoreOf(p)} THEN NoEntry ELSE In(stores, s, j)
  BY <1>1, <1>2, <1>6, <1>11, DeleteEffect DEF StoreOf
<1>13. \A s \in Stores, k \in IdempotencyKeys : In(stores', s, k) = In(stores, s, k)
  BY <1>12, NamesAssumption DEF AllKeys
<1>14. \A s \in Stores : In(stores', s, Balance) = IF s \in {p, StoreOf(p)} THEN NoEntry ELSE In(stores, s, Balance)
  BY <1>12 DEF AllKeys
<1>15. Looked(answer)
  BY <1>10, RecordsOK DEF Looked
<1>16. req' \in [Requests -> Records] /\ RequestsOK'
  BY <1>1, <1>3, <1>10, <1>13, <1>15, GoesOn DEF IInv, Stored
<1>17. BalancesOK'
  <2>1. \A s \in Stores, d \in Requests :
          s \in req'[d].cleared => s \in req[d].cleared \/ In(stores', s, Balance) = NoEntry
    BY <1>3, <1>10, <1>14 DEF IInv, TypeOK
  <2> QED BY <2>1, <1>6, <1>14, StaysExplained DEF IInv
<1> QED BY <1>6, <1>12, <1>14, <1>16, <1>17 DEF IInv, TypeOK

LEMMA RefusesStep ==
  ASSUME IInv, NEW c \in Requests, HandlerRefuses(c)
  PROVE  IInv'
<1> DEFINE r == [req[c] EXCEPT !.at = "storing"]
<1>1. req[c] \in Records /\ req[c].at = "handler"
  BY RecordsOK DEF HandlerRefuses
<1>2. req' = [req EXCEPT ![c] = Gone] \/ (req[c].key # NoKey /\ req' = [req EXCEPT ![c] = r])
  BY DEF HandlerRefuses, Answered
<1>3. UNCHANGED <<stores, up, ledger, day>>
  BY DEF HandlerRefuses
<1>4. CASE req' = [req EXCEPT ![c] = Gone]
  BY <1>1, <1>3, <1>4, GoneOK, StoresUntouched DEF Looked
<1>5. CASE req[c].key # NoKey /\ req' = [req EXCEPT ![c] = r]
  <2>1. r \in Records
    BY <1>1 DEF Records
  <2>2. /\ r.at = "storing" /\ r.p = req[c].p /\ r.key = req[c].key /\ r.before = req[c].before
        /\ r.looked = req[c].looked /\ r.stored = req[c].stored /\ r.cleared = req[c].cleared
    BY <1>1 DEF Records
  <2> HIDE DEF r
  <2>3. Runs(r) /\ Looked(r) /\ r.stored = "nowhere"
    BY <1>1, <1>5, <2>2, RecordsOK DEF Runs, Looked
  <2> QED BY <1>1, <1>3, <1>5, <2>1, <2>2, <2>3, StoresUntouched
<1> QED BY <1>2, <1>4, <1>5

LEMMA StoreAnswerStep ==
  ASSUME IInv, NEW c \in Requests, StoreAnswer(c)
  PROVE  IInv'
<1> DEFINE p == req[c].p
           r == [Over(req[c]) EXCEPT !.stored = StoreOf(p)]
<1>1. /\ req[c] \in Records /\ req[c].at = "storing" /\ p \in Processes
      /\ req[c].key \in IdempotencyKeys /\ req[c].key # Balance
  <2>1. req[c] \in Records /\ req[c].at = "storing" /\ Runs(req[c])
    BY RecordsOK DEF StoreAnswer
  <2>2. req[c].key \in IdempotencyKeys \cup {NoKey}
    BY <2>1 DEF Records
  <2> QED BY <2>1, <2>2, NamesAssumption DEF Runs
<1>2. StoreOf(p) \in Stores /\ up[p] \in BOOLEAN
  BY <1>1 DEF IInv, TypeOK, StoreOf, Stores
<1>3. stores' = SetCache(stores, p, req[c].key, Answer, up[p]) /\ UNCHANGED <<up, ledger, day>>
  BY DEF StoreAnswer
<1>4. /\ stores' \in StoresOf(Values)
      /\ \A s \in Stores, j \in AllKeys :
           In(stores', s, j) = IF s = StoreOf(p) /\ j = req[c].key THEN Answer ELSE In(stores, s, j)
  <2>1. stores \in StoresOf(Values) /\ Answer \in Values /\ req[c].key \in AllKeys
    BY <1>1 DEF IInv, TypeOK, Values, AllKeys
  <2> QED BY <1>1, <1>2, <1>3, <2>1, SetEffect DEF StoreOf
<1>5. \A s \in Stores : In(stores', s, Balance) = In(stores, s, Balance)
  BY <1>1, <1>4 DEF AllKeys
<1>6. \A s \in Stores, k \in IdempotencyKeys : In(stores, s, k) = Answer => In(stores', s, k) = Answer
  BY <1>4 DEF AllKeys
<1>7. In(stores', StoreOf(p), req[c].key) = Answer
  BY <1>1, <1>2, <1>4 DEF AllKeys
<1>8. PICK n \in {r, Gone} : req' = [req EXCEPT ![c] = n]
  BY DEF StoreAnswer
<1>9. Over(req[c]) \in Records
  BY <1>1 DEF Records, Over
<1>10. r \in Records
  BY <1>2, <1>9 DEF Records
<1>11. /\ r.at = "done" /\ r.p = "nobody" /\ r.key = req[c].key /\ r.before = req[c].before
       /\ r.looked = req[c].looked /\ r.stored = StoreOf(p) /\ r.cleared = req[c].cleared
  <2>1. LET o == Over(req[c])
        IN /\ o.at = "done" /\ o.p = "nobody" /\ o.key = req[c].key /\ o.before = req[c].before
           /\ o.looked = req[c].looked /\ o.cleared = req[c].cleared
    BY <1>1 DEF Records, Over
  <2> QED BY <2>1, <1>9 DEF Records
<1> HIDE DEF r
<1>12. n \in Records /\ Runs(n) /\ Stored(n)' /\ Looked(n) /\ n.cleared \subseteq req[c].cleared
  <2>1. CASE n = Gone
    BY <2>1, GoneOK DEF Stored, Looked
  <2>2. CASE n = r
    <3>1. Looked(r) /\ Runs(r)
      BY <1>11, RecordsOK DEF Looked, Runs
    <3>2. Stored(n)'
      BY <1>1, <1>7, <1>11, <2>2 DEF Stored
    <3> QED BY <1>10, <1>11, <2>2, <3>1, <3>2
  <2> QED BY <2>1, <2>2
<1>13. req' \in [Requests -> Records] /\ RequestsOK'
  BY <1>1, <1>6, <1>8, <1>12, GoesOn DEF IInv
<1>14. BalancesOK'
  <2>1. \A d \in Requests : req'[d].cleared \subseteq req[d].cleared
    BY <1>8, <1>12 DEF IInv, TypeOK
  <2> QED BY <2>1, <1>3, <1>5, StaysExplained DEF IInv
<1> QED BY <1>3, <1>4, <1>5, <1>13, <1>14 DEF IInv, TypeOK

LEMMA ReadStep ==
  ASSUME IInv, NEW c \in Requests, ReadCached(c)
  PROVE  IInv'
<1> DEFINE r(p) == [req[c] EXCEPT !.at = "load", !.p = p]
<1>1. req[c] \in Records /\ req[c].at = "idle"
  BY RecordsOK DEF ReadCached
<1>2. PICK p \in Processes : req' = [req EXCEPT ![c] = r(p)] \/ req' = [req EXCEPT ![c] = Gone]
  BY DEF ReadCached
<1>3. UNCHANGED <<stores, up, ledger, day>>
  BY DEF ReadCached
<1>4. CASE req' = [req EXCEPT ![c] = Gone]
  BY <1>1, <1>3, <1>4, GoneOK, StoresUntouched DEF Looked
<1>5. CASE req' = [req EXCEPT ![c] = r(p)]
  <2>1. r(p) \in Records
    BY <1>1 DEF Records
  <2>2. /\ r(p).at = "load" /\ r(p).p = p /\ r(p).before = req[c].before
        /\ r(p).looked = req[c].looked /\ r(p).stored = req[c].stored /\ r(p).cleared = req[c].cleared
    BY <1>1 DEF Records
  <2> HIDE DEF r
  <2>3. Runs(r(p)) /\ Looked(r(p)) /\ r(p).stored = "nowhere"
    BY <1>1, <2>2, RecordsOK DEF Runs, Looked
  <2> QED BY <1>1, <1>3, <1>5, <2>1, <2>2, <2>3, StoresUntouched
<1> QED BY <1>2, <1>4, <1>5

LEMMA LoadStep ==
  ASSUME IInv, NEW c \in Requests, LoadBalance(c)
  PROVE  IInv'
<1> DEFINE r == [req[c] EXCEPT !.at = "fill", !.amount = Len(ledger)]
<1>1. req[c] \in Records /\ req[c].at = "load" /\ Len(ledger) \in Nat
  BY RecordsOK DEF LoadBalance, IInv, TypeOK
<1>2. req' = [req EXCEPT ![c] = r] /\ UNCHANGED <<stores, up, ledger, day>>
  BY DEF LoadBalance
<1>3. r \in Records
  BY <1>1 DEF Records
<1>4. /\ r.at = "fill" /\ r.p = req[c].p /\ r.before = req[c].before
      /\ r.looked = req[c].looked /\ r.stored = req[c].stored /\ r.cleared = req[c].cleared
  BY <1>1 DEF Records
<1> HIDE DEF r
<1>5. Runs(r) /\ Looked(r) /\ r.stored = "nowhere"
  BY <1>1, <1>4, RecordsOK DEF Runs, Looked
<1> QED BY <1>1, <1>2, <1>3, <1>4, <1>5, StoresUntouched

LEMMA FillStep ==
  ASSUME IInv, NEW c \in Requests, FillCache(c)
  PROVE  IInv'
<1> DEFINE p == req[c].p
           upTo == req[c].amount
           late == {d \in {ledger[i] : i \in upTo + 1 .. Len(ledger)} : req[d].cleared # {}}
           entry == [upTo |-> upTo, late |-> late]
<1>1. /\ req[c] \in Records /\ req[c].at = "fill" /\ p \in Processes /\ upTo \in Nat
  BY RecordsOK DEF FillCache, Runs, Records
<1>2. StoreOf(p) \in Stores /\ up[p] \in BOOLEAN
  BY <1>1 DEF IInv, TypeOK, StoreOf, Stores
<1>3. /\ stores' = SetCache(stores, p, Balance, entry, up[p])
      /\ req' = [req EXCEPT ![c] = Gone] /\ UNCHANGED <<up, ledger, day>>
  BY DEF FillCache
<1>4. \A i \in upTo + 1 .. Len(ledger) : ledger[i] \in Requests
  BY <1>1 DEF IInv, TypeOK
<1>5. late \subseteq Requests
  BY <1>4
<1>6. \A i \in upTo + 1 .. Len(ledger) : req[ledger[i]].cleared = {} \/ ledger[i] \in late
  OBVIOUS
<1>7. entry \in Entries /\ entry.upTo = upTo /\ entry.late = late
  BY <1>1, <1>5 DEF Entries
<1> HIDE DEF entry, late
<1>8. /\ stores' \in StoresOf(Values)
      /\ \A s \in Stores, j \in AllKeys :
           In(stores', s, j) = IF s = StoreOf(p) /\ j = Balance THEN entry ELSE In(stores, s, j)
  <2>1. stores \in StoresOf(Values) /\ entry \in Values /\ Balance \in AllKeys
    BY <1>7 DEF IInv, TypeOK, Values, AllKeys
  <2> QED BY <1>1, <1>2, <1>3, <2>1, SetEffect DEF StoreOf
<1>9. \A s \in Stores, k \in IdempotencyKeys : In(stores', s, k) = In(stores, s, k)
  BY <1>8, NamesAssumption DEF AllKeys
<1>10. \A s \in Stores : In(stores', s, Balance) = IF s = StoreOf(p) THEN entry ELSE In(stores, s, Balance)
  BY <1>8 DEF AllKeys
<1>11. req' \in [Requests -> Records] /\ RequestsOK'
  BY <1>1, <1>3, <1>9, GoneOK, GoesOn DEF IInv, Stored, Looked
<1>12. \A d \in Requests : req'[d].cleared = {} \/ req'[d] = req[d]
  BY <1>3, GoneOK DEF IInv, TypeOK
<1>13. BalancesOK'
  <2> SUFFICES ASSUME NEW s \in Stores, In(stores', s, Balance) # NoEntry,
                      NEW i \in In(stores', s, Balance).upTo + 1 .. Len(ledger)
               PROVE  s \notin req'[ledger[i]].cleared \/ ledger[i] \in In(stores', s, Balance).late
    BY <1>3 DEF BalancesOK, Explained, In
  <2>1. CASE s = StoreOf(p)
    <3>1. i \in upTo + 1 .. Len(ledger)
      BY <2>1, <1>7, <1>10
    <3> QED BY <2>1, <3>1, <1>4, <1>6, <1>7, <1>10, <1>12
  <2>2. CASE s # StoreOf(p)
    <3>1. In(stores', s, Balance) = In(stores, s, Balance)
      BY <2>2, <1>10
    <3>2. s \notin req[ledger[i]].cleared \/ ledger[i] \in In(stores, s, Balance).late
      BY <3>1 DEF IInv, BalancesOK, Explained
    <3>3. ledger[i] \in Requests
      BY <3>1 DEF IInv, TypeOK, Entries
    <3> QED BY <3>1, <3>2, <3>3, <1>12
  <2> QED BY <2>1, <2>2
<1>14. \A s \in Stores : In(stores', s, Balance) \in {NoEntry} \cup Entries
  BY <1>7, <1>10 DEF IInv, TypeOK
<1> QED BY <1>3, <1>8, <1>11, <1>13, <1>14 DEF IInv, TypeOK

LEMMA CrashStep == ASSUME IInv, Crash PROVE IInv'
<1> DEFINE after(p, c) ==
      CASE req[c].p = p -> IF c \in Posted THEN Over(req[c]) ELSE Gone
        [] req[c].stored = p -> [req[c] EXCEPT !.stored = "nowhere"]
        [] OTHER -> req[c]
<1>1. PICK p \in Processes : stores' = Restarted(stores, p) /\ req' = [c \in Requests |-> after(p, c)]
  BY DEF Crash
<1>2. UNCHANGED <<up, ledger, day>>
  BY DEF Crash
<1>3. /\ stores' \in StoresOf(Values)
      /\ \A s \in Stores, j \in AllKeys :
           In(stores', s, j) = IF s = p THEN NoEntry ELSE In(stores, s, j)
  <2>1. stores \in StoresOf(Values) /\ NoEntry \in Values
    BY DEF IInv, TypeOK, Values
  <2> QED BY <1>1, <2>1, RestartEffect
<1>4. \A s \in Stores : In(stores', s, Balance) = IF s = p THEN NoEntry ELSE In(stores, s, Balance)
  BY <1>3 DEF AllKeys
<1>5. ASSUME NEW c \in Requests
      PROVE  /\ req'[c] \in Records /\ Runs(req'[c])
             /\ req'[c].before \subseteq req[c].before /\ req'[c].looked \in {req[c].looked, "nowhere"}
             /\ req'[c].looked = req[c].looked \/ req'[c].before = {}
             /\ req'[c].cleared \subseteq req[c].cleared /\ req'[c].key \in {req[c].key, NoKey}
             /\ req'[c].stored = "nowhere" \/ (req'[c] = req[c] /\ req[c].stored # p)
             /\ req[c].at = "done" => req'[c].at = "done"
  <2>1. req[c] \in Records /\ Runs(req[c]) /\ req'[c] = after(p, c)
    BY <1>1, RecordsOK
  <2>2. CASE req[c].p = p
    <3>1. req[c].at # "done" /\ req[c].stored = "nowhere"
      BY <2>1, <2>2, NamesAssumption, RecordsOK DEF Runs
    <3>2. CASE req'[c] = Gone
      BY <3>1, <3>2, <2>1, GoneOK DEF Gone, Fresh
    <3>3. CASE req'[c] = Over(req[c])
      <4> DEFINE o == Over(req[c])
      <4>1. o \in Records
        BY <2>1 DEF Records, Over
      <4>2. /\ o.at = "done" /\ o.p = "nobody" /\ o.before = req[c].before /\ o.looked = req[c].looked
            /\ o.stored = req[c].stored /\ o.cleared = req[c].cleared /\ o.key = req[c].key
        BY <2>1 DEF Records, Over
      <4> HIDE DEF o
      <4>3. req'[c] = o
        BY <3>3 DEF o
      <4> QED BY <3>1, <4>1, <4>2, <4>3 DEF Runs
    <3>4. req'[c] = Gone \/ req'[c] = Over(req[c])
      BY <2>1, <2>2, <3>1, NamesAssumption
    <3> QED BY <3>2, <3>3, <3>4
  <2>3. CASE req[c].p # p /\ req[c].stored = p
    <3> DEFINE o == [req[c] EXCEPT !.stored = "nowhere"]
    <3>1. req'[c] = o
      BY <2>1, <2>3
    <3>2. o \in Records
      BY <2>1 DEF Records
    <3>3. /\ o.at = req[c].at /\ o.p = req[c].p /\ o.before = req[c].before /\ o.looked = req[c].looked
          /\ o.stored = "nowhere" /\ o.cleared = req[c].cleared /\ o.key = req[c].key
      BY <2>1 DEF Records
    <3> HIDE DEF o
    <3> QED BY <2>1, <3>1, <3>2, <3>3 DEF Runs
  <2>4. CASE req[c].p # p /\ req[c].stored # p
    <3>1. req'[c] = req[c]
      BY <2>1, <2>4
    <3> QED BY <2>1, <2>4, <3>1
  <2> QED BY <2>2, <2>3, <2>4
<1>6. RequestsOK'
  <2> SUFFICES ASSUME NEW c \in Requests PROVE Stored(req[c])' /\ Looked(req[c])'
    BY <1>5 DEF RequestsOK, Runs
  <2>1. Stored(req[c])'
    <3>1. CASE req'[c].stored = "nowhere"
      BY <3>1 DEF Stored
    <3>2. CASE req'[c] = req[c] /\ req[c].stored # p /\ req[c].stored # "nowhere"
      <4>1. /\ req[c].at = "done" /\ req[c].key \in IdempotencyKeys
            /\ In(stores, req[c].stored, req[c].key) = Answer /\ req[c].stored \in Stores
        BY <3>2, RecordsOK DEF Stored, Records
      <4>2. In(stores', req[c].stored, req[c].key) = Answer
        BY <1>3, <3>2, <4>1 DEF AllKeys
      <4> QED BY <3>2, <4>1, <4>2 DEF Stored
    <3> QED BY <1>5, <3>1, <3>2
  <2>2. Looked(req[c])'
    <3> SUFFICES ASSUME NEW d \in req'[c].before
                 PROVE  req'[c].looked # "nowhere" /\ req'[d].at = "done" /\ req'[d].stored # req'[c].looked
      BY DEF Looked
    <3>1. d \in req[c].before /\ req'[c].looked = req[c].looked /\ d \in Requests
      BY <1>5, RecordsOK DEF Records
    <3>2. req[c].looked # "nowhere" /\ req[d].at = "done" /\ req[d].stored # req[c].looked
      BY <3>1, RecordsOK DEF Looked
    <3> QED BY <1>5, <3>1, <3>2
  <2> QED BY <2>1, <2>2
<1>7. BalancesOK'
  <2>1. \A d \in Requests : req'[d].cleared \subseteq req[d].cleared
    BY <1>5
  <2> QED BY <2>1, <1>2, <1>4, StaysExplained DEF IInv
<1>8. req' \in [Requests -> Records]
  BY <1>1, <1>5
<1> QED BY <1>2, <1>3, <1>4, <1>6, <1>7, <1>8 DEF IInv, TypeOK

(* Redis, midnight and rest leave the requests and the stores alone.       *)
LEMMA QuietStep ==
  ASSUME IInv, UNCHANGED <<stores, req, ledger>>, up' \in [Processes -> BOOLEAN], day' \in Nat
  PROVE  IInv'
  BY DEF IInv, TypeOK, RequestsOK, BalancesOK, Stored, Looked, Explained, Runs, In

LEMMA NextIInv == IInv /\ [Next]_vars => IInv'
<1> SUFFICES ASSUME IInv, [Next]_vars PROVE IInv'
  OBVIOUS
<1>1. ASSUME NEW c \in Requests, Step(c) PROVE IInv'
  BY <1>1, LimitsStep, IdempotencyStep, PostStep, InvalidateStep, RefusesStep, StoreAnswerStep,
     ReadStep, LoadStep, FillStep DEF Step
<1>2. up \in [Processes -> BOOLEAN] /\ day \in Nat
  BY DEF IInv, TypeOK
<1>3. CASE RedisChanges
  <2>1. PICK p \in Processes : up' = [up EXCEPT ![p] = ~@]
    BY <1>3 DEF RedisChanges
  <2>2. up' \in [Processes -> BOOLEAN]
    BY <1>2, <2>1
  <2> QED BY <1>2, <1>3, <2>2, QuietStep DEF RedisChanges
<1>4. CASE NextDay
  BY <1>2, <1>4, QuietStep DEF NextDay
<1>5. CASE UNCHANGED vars
  BY <1>2, <1>5, QuietStep DEF vars
<1> QED BY <1>1, <1>3, <1>4, <1>5, CrashStep DEF Next, Rest

-------------------------------------------------------------------------------
LEMMA SpecIInv == Spec => []IInv
  BY InitIInv, NextIInv, PTL DEF Spec

(* For any number of requests, processes and keys, whatever Redis does and *)
(* however often processes die: a key moves money twice only if the second *)
(* request looked it up before the answer to the first was stored, or in   *)
(* a store the answer is not in (idempotency.js:16-30, cache.js).          *)
THEOREM KeysPostOnce == Spec => []OnlyOverlapsPostTwice
<1>1. IInv => OnlyOverlapsPostTwice
  <2> SUFFICES ASSUME IInv, NEW c \in Posted, NEW d \in Posted, c \in req[d].before
               PROVE  req[c].stored # req[d].looked
    BY DEF OnlyOverlapsPostTwice
  <2>1. d \in Requests
    BY DEF IInv, TypeOK, Posted, Range
  <2> QED BY <2>1, RecordsOK DEF Looked
<1> QED BY <1>1, SpecIInv, PTL

(* For any number of requests and processes: a cached balance lacks a      *)
(* posting only while the posting's invalidation has not reached that      *)
(* store, or if the reader stored it after the invalidation                *)
(* (walletController.js:18-27, ledgerService.js:170).                      *)
THEOREM StaleBalancesAreExplained == Spec => []StaleBalanceExplained
<1>1. IInv => StaleBalanceExplained
  <2> SUFFICES ASSUME IInv, NEW s \in Stores PROVE Explained(s, In(stores, s, Balance))
    BY DEF StaleBalanceExplained, Explained, In, Stores
  <2> QED BY DEF IInv, BalancesOK
<1> QED BY <1>1, SpecIInv, PTL

-------------------------------------------------------------------------------
(* The spending limits.  The operators take the requests as q, so that a   *)
(* sum before a step can be compared with the same sum after it.           *)
Amounts(q) == [t \in Requests |-> q[t].amount]
Spent(q, T) == {t \in T : q[t].amount > 0}
OnDay(q, T, d) == {t \in T : q[t].day = d}

Fits(q, amount, spent, today) ==
  /\ amount =< PerTransactionPaise
  /\ Cardinality(today) + 1 =< DailyCount
  /\ SumFunctionOnSet(Amounts(q), today) + amount =< DailyPaise
  /\ SumFunctionOnSet(Amounts(q), spent) + amount =< MonthlyPaise

(* A posting of c after those of before keeps the caps, or had not seen    *)
(* all the spending among them.                                            *)
Kept(q, c, before) ==
  q[c].kind = "capped" /\ Spent(q, before) \subseteq q[c].saw
    => Fits(q, q[c].amount, Spent(q, before), OnDay(q, Spent(q, before), q[c].day))

(* A request between the limits and the posting was within the limits on a *)
(* day that has come and that no posting it saw is later than.             *)
Waits(r) == r.at = "lookup" \/ (r.at = "handler" /\ r.kind = "capped")

Checked(q, c, posted, today) ==
  Waits(q[c]) =>
    /\ q[c].saw \subseteq posted
    /\ \E d \in 0 .. today :
         /\ \A t \in q[c].saw : q[t].day =< d
         /\ Fits(q, q[c].amount, Spent(q, q[c].saw), OnDay(q, Spent(q, q[c].saw), d))

PostedAt == {"posted", "storing", "done"}
Before(i) == {ledger[j] : j \in 1 .. i - 1}

Caps ==
  /\ IsFiniteSet(Posted)
  /\ \A t \in Posted : req[t].at \in PostedAt /\ req[t].day =< day
  /\ \A i \in DOMAIN ledger : Kept(req, ledger[i], Before(i))
  /\ \A c \in Requests : Checked(req, c, Posted, day)

(* What no step changes of a request that is in the ledger.                *)
SameFacts(q, n, T) ==
  \A t \in T : /\ n[t].amount = q[t].amount /\ n[t].day = q[t].day
               /\ n[t].kind = q[t].kind /\ n[t].saw = q[t].saw

(* Total is a sum over Amounts.                                            *)
LEMMA TotalIsSum == \A T \in SUBSET Requests : Total(T) = SumFunctionOnSet(Amounts(req), T)
<1> TAKE T \in SUBSET Requests
<1> DEFINE paise(t) == req[t].amount
           f == Amounts(req)
           iter == CHOOSE g : g = [s \in SUBSET T |-> IF s = {} THEN 0
                                                      ELSE paise(Pick(s)) + g[s \ {Pick(s)}]]
<1>1. Total(T) = iter[T]
  BY DEF Total, MapThenSumSet, MapThenFoldSet, Pick
<1>2. \A s \in SUBSET T : s # {} => f[Pick(s)] = paise(Pick(s))
  BY PickIn DEF Amounts
<1>3. \A g : [s \in SUBSET T |-> IF s = {} THEN 0 ELSE paise(Pick(s)) + g[s \ {Pick(s)}]]
           = [s \in SUBSET T |-> IF s = {} THEN 0 ELSE f[Pick(s)] + g[s \ {Pick(s)}]]
  BY <1>2
<1>4. iter = Iter(f, T)
  BY <1>3 DEF Iter, Adds
<1> QED BY <1>1, <1>4, SumIsIter

(* What the spending of a set is depends on its requests' facts only.      *)
LEMMA FactsDecide ==
  ASSUME NEW q, NEW n, NEW T \in SUBSET Requests, IsFiniteSet(T), SameFacts(q, n, T)
  PROVE  /\ Spent(n, T) = Spent(q, T)
         /\ \A d : OnDay(n, Spent(n, T), d) = OnDay(q, Spent(q, T), d)
         /\ \A d, a : Fits(n, a, Spent(n, T), OnDay(n, Spent(n, T), d))
                      <=> Fits(q, a, Spent(q, T), OnDay(q, Spent(q, T), d))
<1>1. Spent(n, T) = Spent(q, T) /\ \A d : OnDay(n, Spent(n, T), d) = OnDay(q, Spent(q, T), d)
  BY DEF Spent, OnDay, SameFacts
<1>2. ASSUME NEW A \in SUBSET T
      PROVE  SumFunctionOnSet(Amounts(n), A) = SumFunctionOnSet(Amounts(q), A)
  <2>1. \A t \in A : Amounts(n)[t] = Amounts(q)[t]
    BY DEF Amounts, SameFacts
  <2>2. IsFiniteSet(A)
    BY FS_Subset
  <2> QED BY <2>1, <2>2, SumAgrees
<1>3. Spent(q, T) \in SUBSET T /\ \A d : OnDay(q, Spent(q, T), d) \in SUBSET T
  BY DEF Spent, OnDay
<1> QED BY <1>1, <1>2, <1>3 DEF Fits

LEMMA PostedAreRequests == ASSUME IInv PROVE Posted \in SUBSET Requests
  BY DEF IInv, TypeOK, Posted, Range

LEMMA StepChangesOne ==
  ASSUME NEW c \in Requests, Step(c)
  PROVE  \E r : req' = [req EXCEPT ![c] = r]
<1>1. ASSUME EnforceTransactionLimits(c) PROVE \E r : req' = [req EXCEPT ![c] = r]
  BY <1>1, Zenon DEF EnforceTransactionLimits
<1>2. ASSUME Idempotency(c) PROVE \E r : req' = [req EXCEPT ![c] = r]
  BY <1>2, Zenon DEF Idempotency
<1>3. ASSUME Post(c) PROVE \E r : req' = [req EXCEPT ![c] = r]
  BY <1>3, Zenon DEF Post
<1>4. ASSUME InvalidateForUsers(c) \/ HandlerRefuses(c) PROVE \E r : req' = [req EXCEPT ![c] = r]
  BY <1>4, Zenon DEF InvalidateForUsers, HandlerRefuses
<1>5. ASSUME StoreAnswer(c) PROVE \E r : req' = [req EXCEPT ![c] = r]
  BY <1>5, Zenon DEF StoreAnswer
<1>6. ASSUME ReadCached(c) PROVE \E r : req' = [req EXCEPT ![c] = r]
  BY <1>6, Zenon DEF ReadCached
<1>7. ASSUME LoadBalance(c) \/ FillCache(c) PROVE \E r : req' = [req EXCEPT ![c] = r]
  BY <1>7, Zenon DEF LoadBalance, FillCache
<1> QED BY <1>1, <1>2, <1>3, <1>4, <1>5, <1>6, <1>7 DEF Step

(* No step changes the facts of a request that is in the ledger.           *)
LEMMA PostedStays ==
  ASSUME IInv, Caps, [Next]_vars
  PROVE  SameFacts(req, req', Posted) /\ \A t \in Posted : req'[t].at \in PostedAt
<1>1. \A t \in Posted : t \in Requests /\ req[t] \in Records /\ req[t].at \in PostedAt
  BY PostedAreRequests, RecordsOK DEF Caps
<1> SUFFICES ASSUME NEW t \in Posted
             PROVE  /\ req'[t].amount = req[t].amount /\ req'[t].day = req[t].day
                    /\ req'[t].kind = req[t].kind /\ req'[t].saw = req[t].saw
                    /\ req'[t].at \in PostedAt
  BY DEF SameFacts
<1>2. req \in [Requests -> Records]
  BY DEF IInv, TypeOK
<1>3. ASSUME NEW c \in Requests, Step(c), c # t PROVE req'[t] = req[t]
  <2>1. PICK r : req' = [req EXCEPT ![c] = r]
    BY <1>3, StepChangesOne
  <2> QED BY <1>2, <1>3, <2>1
<1>4. CASE InvalidateForUsers(t)
  <2> DEFINE r == [req[t] EXCEPT !.cleared = {req[t].p, StoreOf(req[t].p)}]
  <2>1. PICK answer \in {Answered(r), Over(r)} : req' = [req EXCEPT ![t] = answer]
    BY <1>4 DEF InvalidateForUsers
  <2>2. answer = [r EXCEPT !.at = "storing"] \/ answer = [r EXCEPT !.at = "done", !.p = "nobody"]
    BY DEF Answered, Over
  <2> QED BY <1>1, <1>2, <2>1, <2>2 DEF Records, PostedAt
<1>5. CASE StoreAnswer(t)
  <2>1. req' = [req EXCEPT ![t] = [Over(@) EXCEPT !.stored = StoreOf(req[t].p)]]
    BY <1>5 DEF StoreAnswer
  <2> QED BY <1>1, <1>2, <2>1 DEF Records, PostedAt, Over
<1>6. CASE Crash
  <2>1. PICK p \in Processes :
          req' = [c \in Requests |->
            CASE req[c].p = p -> IF c \in Posted THEN Over(req[c]) ELSE Gone
              [] req[c].stored = p -> [req[c] EXCEPT !.stored = "nowhere"]
              [] OTHER -> req[c]]
    BY <1>6 DEF Crash
  <2>2. req'[t] \in {Over(req[t]), [req[t] EXCEPT !.stored = "nowhere"], req[t]}
    BY <1>1, <2>1
  <2> QED BY <1>1, <2>2 DEF Records, PostedAt, Over
<1>7. CASE Step(t) /\ ~InvalidateForUsers(t) /\ ~StoreAnswer(t)
  BY <1>1, <1>7 DEF PostedAt, Step, EnforceTransactionLimits, Idempotency, Post,
                    HandlerRefuses, ReadCached, LoadBalance, FillCache
<1>8. CASE UNCHANGED req
  BY <1>1, <1>8
<1> QED BY <1>1, <1>3, <1>4, <1>5, <1>6, <1>7, <1>8 DEF Next, RedisChanges, NextDay, Rest, vars

(* Only the limits make a request wait, and nothing about one that waits   *)
(* changes.                                                                *)
LEMMA OnlyLimitsStart ==
  ASSUME IInv, [Next]_vars, NEW c \in Requests, Waits(req'[c])
  PROVE  \/ Waits(req[c]) /\ req'[c].saw = req[c].saw /\ req'[c].amount = req[c].amount
         \/ EnforceTransactionLimits(c)
<1> DEFINE Same == Waits(req[c]) /\ req'[c].saw = req[c].saw /\ req'[c].amount = req[c].amount
<1>1. req \in [Requests -> Records] /\ req[c] \in Records
  BY DEF IInv, TypeOK
<1>2. ~Waits(Gone)
  BY DEF Waits, Gone, Fresh
<1>3. ASSUME NEW e \in Requests, Step(e), e # c PROVE Same
  <2>1. PICK r : req' = [req EXCEPT ![e] = r]
    BY <1>3, StepChangesOne
  <2> QED BY <1>1, <1>3, <2>1
<1>4. CASE Idempotency(c)
  <2> DEFINE kind == IF req[c].at = "idle" THEN "uncapped" ELSE "capped"
             r(p) == [req[c] EXCEPT !.at = "handler", !.p = p, !.kind = kind]
             answered(k) == {d \in Posted : req[d].key = k /\ req[d].stored # "nowhere"}
  <2>1. PICK p \in Processes, k \in IdempotencyKeys \cup {NoKey} :
          req'[c] \in {r(p), [r(p) EXCEPT !.key = k, !.looked = StoreOf(p), !.before = answered(k)], Gone}
    BY <1>1, <1>4 DEF Idempotency
  <2>2. /\ r(p) \in Records /\ r(p).at = "handler" /\ r(p).kind = kind
        /\ r(p).saw = req[c].saw /\ r(p).amount = req[c].amount
    <3>1. kind \in {"uncapped", "capped"}
      OBVIOUS
    <3> HIDE DEF kind
    <3> QED BY <1>1, <3>1 DEF Records
  <2> HIDE DEF r
  <2>3. req'[c].kind = kind /\ req'[c].at = "handler" /\ req'[c].saw = req[c].saw /\ req'[c].amount = req[c].amount
    BY <1>2, <2>1, <2>2 DEF Records
  <2>4. kind = "capped"
    BY <2>3 DEF Waits
  <2> QED BY <1>4, <2>3, <2>4 DEF Idempotency, Waits
<1>5. CASE Step(c) /\ ~Idempotency(c) /\ ~EnforceTransactionLimits(c)
  <2>1. CASE ReadCached(c)
    <3>1. PICK p \in Processes : req'[c] \in {[req[c] EXCEPT !.at = "load", !.p = p], Gone}
      BY <1>1, <2>1 DEF ReadCached
    <3>2. [req[c] EXCEPT !.at = "load", !.p = p].at = "load"
      BY <1>1 DEF Records
    <3> QED BY <1>2, <3>1, <3>2 DEF Waits
  <2>2. CASE Post(c)
    <3>1. PICK a : req' = [req EXCEPT ![c] = [@ EXCEPT !.at = "posted", !.amount = a, !.day = day]]
      BY <2>2 DEF Post
    <3> QED BY <1>1, <3>1 DEF Records, Waits
  <2>3. CASE LoadBalance(c)
    BY <1>1, <2>3 DEF Records, Waits, LoadBalance
  <2>4. CASE FillCache(c)
    BY <1>1, <1>2, <2>4 DEF FillCache
  <2>5. CASE HandlerRefuses(c)
    <3>1. req'[c] \in {Gone, [req[c] EXCEPT !.at = "storing"]}
      BY <1>1, <2>5 DEF HandlerRefuses, Answered
    <3> QED BY <1>1, <1>2, <3>1 DEF Records, Waits
  <2>6. CASE StoreAnswer(c)
    <3>1. req'[c] \in {Gone, [Over(req[c]) EXCEPT !.stored = StoreOf(req[c].p)]}
      BY <1>1, <2>6 DEF StoreAnswer
    <3> QED BY <1>1, <1>2, <3>1, ZenonT(40) DEF Records, Waits, Over
  <2>7. CASE InvalidateForUsers(c)
    <3> DEFINE r == [req[c] EXCEPT !.cleared = {req[c].p, StoreOf(req[c].p)}]
    <3>1. req'[c] \in {[r EXCEPT !.at = "storing"], [r EXCEPT !.at = "done", !.p = "nobody"]}
      <4>1. PICK answer \in {Answered(r), Over(r)} : req' = [req EXCEPT ![c] = answer]
        BY <2>7 DEF InvalidateForUsers
      <4> QED BY <1>1, <4>1 DEF Answered, Over
    <3> QED BY <1>1, <3>1, ZenonT(40) DEF Records, Waits
  <2> QED BY <1>5, <2>1, <2>2, <2>3, <2>4, <2>5, <2>6, <2>7 DEF Step
<1>6. CASE Crash
  <2>1. PICK p \in Processes :
          req'[c] \in {Over(req[c]), Gone, [req[c] EXCEPT !.stored = "nowhere"], req[c]}
    BY <1>6 DEF Crash
  <2> QED BY <1>1, <1>2, <2>1, ZenonT(40) DEF Records, Over, Waits
<1>7. CASE UNCHANGED req
  BY <1>7
<1> QED BY <1>3, <1>4, <1>5, <1>6, <1>7 DEF Next, RedisChanges, NextDay, Rest, vars

LEMMA CheckStays ==
  ASSUME IInv, Caps, SameFacts(req, req', Posted), Posted \subseteq Posted',
         day' \in Nat, day =< day', NEW c \in Requests,
         Waits(req[c]), req'[c].saw = req[c].saw, req'[c].amount = req[c].amount
  PROVE  Checked(req', c, Posted', day')
<1> DEFINE T == req[c].saw
<1>1. T \subseteq Posted /\ T \in SUBSET Requests
  BY PostedAreRequests DEF Caps, Checked
<1>2. PICK d \in 0 .. day :
        /\ \A t \in T : req[t].day =< d
        /\ Fits(req, req[c].amount, Spent(req, T), OnDay(req, Spent(req, T), d))
  BY DEF Caps, Checked
<1>3. IsFiniteSet(T) /\ SameFacts(req, req', T)
  BY <1>1, FS_Subset DEF Caps, SameFacts
<1>4. Fits(req', req[c].amount, Spent(req', T), OnDay(req', Spent(req', T), d))
  BY <1>1, <1>2, <1>3, FactsDecide
<1>5. \A t \in T : req'[t].day =< d
  BY <1>2, <1>3 DEF SameFacts
<1>6. d \in 0 .. day'
  BY DEF IInv, TypeOK
<1> QED BY <1>1, <1>4, <1>5, <1>6 DEF Checked

LEMMA InitCaps == Init => Caps
<1> SUFFICES ASSUME Init PROVE Caps
  OBVIOUS
<1>1. PICK amount \in EarlierPaise :
        /\ ledger = IF amount > 0 THEN <<Earlier>> ELSE <<>>
        /\ req = [c \in Requests |->
             CASE c # Earlier -> Fresh
               [] c = Earlier /\ amount > 0 ->
                    [Gone EXCEPT !.kind = "capped", !.amount = amount, !.cleared = {"redis"} \cup Processes]
               [] OTHER -> Gone]
  BY DEF Init
<1>2. \A c \in Requests : Checked(req, c, Posted, day)
  BY <1>1 DEF Checked, Waits, Fresh, Gone
<1>3. CASE ledger = <<>>
  <2>1. Posted = {}
    BY <1>3 DEF Posted, Range
  <2> QED BY <1>2, <1>3, <2>1, FS_EmptySet DEF Caps
<1>4. CASE amount > 0 /\ ledger = <<Earlier>>
  <2>1. Posted = {Earlier}
    BY <1>4 DEF Posted, Range
  <2>2. req[Earlier].at = "done" /\ req[Earlier].day = 0 /\ req[Earlier].amount = amount
    BY <1>1, <1>4, NamesAssumption DEF Gone, Fresh
  <2>3. Kept(req, Earlier, {})
    <3>1. Spent(req, {}) = {} /\ OnDay(req, {}, req[Earlier].day) = {}
      BY DEF Spent, OnDay
    <3>2. Cardinality({}) = 0 /\ SumFunctionOnSet(Amounts(req), {}) = 0
      BY FS_EmptySet, SumEmpty
    <3>3. /\ amount \in Nat /\ amount =< PerTransactionPaise /\ 1 =< DailyCount
          /\ amount =< DailyPaise /\ amount =< MonthlyPaise
      BY <1>4, BoundsAssumption DEF EarlierPaise
    <3> QED BY <2>2, <3>1, <3>2, <3>3 DEF Kept, Fits
  <2>4. \A i \in DOMAIN ledger : ledger[i] = Earlier /\ Before(i) = {}
    BY <1>4 DEF Before
  <2>5. IsFiniteSet(Posted)
    BY <2>1, FS_Singleton
  <2>6. day = 0
    BY DEF Init
  <2>7. \A i \in DOMAIN ledger : Kept(req, ledger[i], Before(i))
    BY <2>3, <2>4
  <2> QED BY <1>2, <2>1, <2>2, <2>5, <2>6, <2>7 DEF Caps, PostedAt
<1> QED BY <1>1, <1>3, <1>4

(* The limits are checked against all that is in the ledger.               *)
LEMMA LimitsCheck ==
  ASSUME IInv, Caps, NEW c \in Requests, EnforceTransactionLimits(c), Waits(req'[c])
  PROVE  Checked(req', c, Posted', day')
<1>1. /\ req \in [Requests -> Records] /\ req[c] \in Records /\ day \in Nat
      /\ req[c].at = "idle" /\ ledger' = ledger /\ day' = day
  BY DEF IInv, TypeOK, EnforceTransactionLimits
<1>2. PICK amount \in 1 .. MaxPaise :
        req' = [req EXCEPT ![c] =
          IF WithinLimits(amount)
          THEN [@ EXCEPT !.at = "lookup", !.kind = "capped", !.amount = amount, !.saw = Posted]
          ELSE Gone]
  BY DEF EnforceTransactionLimits
<1>3. WithinLimits(amount) /\ req'[c].saw = Posted /\ req'[c].amount = amount
  <2>1. ~Waits(Gone)
    BY DEF Waits, Gone, Fresh
  <2>2. WithinLimits(amount)
    BY <1>1, <1>2, <2>1
  <2> QED BY <1>1, <1>2, <2>2 DEF Records
<1>4. c \notin Posted
  BY <1>1 DEF Caps, PostedAt
<1>5. SameFacts(req, req', Posted)
  BY <1>2, <1>4 DEF SameFacts, IInv, TypeOK
<1>6. Posted \in SUBSET Requests /\ IsFiniteSet(Posted) /\ \A t \in Posted : req[t] \in Records /\ req[t].day =< day
  BY PostedAreRequests, RecordsOK DEF Caps
<1>7. /\ OutboundSince(0) = Spent(req, Posted)
      /\ OutboundSince(day) = OnDay(req, Spent(req, Posted), day)
  BY <1>1, <1>6 DEF OutboundSince, Spent, OnDay, Records
<1>8. Fits(req, amount, Spent(req, Posted), OnDay(req, Spent(req, Posted), day))
  <2>1. Spent(req, Posted) \in SUBSET Requests /\ OnDay(req, Spent(req, Posted), day) \in SUBSET Requests
    BY <1>6 DEF Spent, OnDay
  <2> QED BY <1>3, <1>7, <2>1, TotalIsSum DEF WithinLimits, Fits
<1>9. Fits(req', amount, Spent(req', Posted), OnDay(req', Spent(req', Posted), day))
  BY <1>5, <1>6, <1>8, FactsDecide
<1>10. \A t \in Posted : req'[t].day =< day
  BY <1>5, <1>6 DEF SameFacts
<1>11. day \in 0 .. day' /\ Posted' = Posted
  BY <1>1 DEF Posted
<1> QED BY <1>3, <1>9, <1>10, <1>11 DEF Checked

(* A posting whose request had seen all the spending fits the caps of the  *)
(* day it happens on: the day of the check, or a day without spending yet. *)
LEMMA PostKeeps ==
  ASSUME IInv, Caps, NEW c \in Requests, Post(c)
  PROVE  Kept(req', c, Posted)
<1>1. /\ req \in [Requests -> Records] /\ req[c] \in Records /\ day \in Nat /\ req[c].at = "handler"
  BY DEF IInv, TypeOK, Post
<1>2. PICK amount \in IF req[c].kind = "capped" THEN {req[c].amount} ELSE 0 .. MaxUncapped :
        req' = [req EXCEPT ![c] = [@ EXCEPT !.at = "posted", !.amount = amount, !.day = day]]
  BY DEF Post
<1>3. /\ req'[c].kind = req[c].kind /\ req'[c].saw = req[c].saw
      /\ req'[c].amount = amount /\ req'[c].day = day
  BY <1>1, <1>2 DEF Records
<1>4. SameFacts(req, req', Posted)
  <2>1. c \notin Posted
    BY <1>1 DEF Caps, PostedAt
  <2> QED BY <1>2, <2>1 DEF SameFacts, IInv, TypeOK
<1>5. /\ Posted \in SUBSET Requests /\ IsFiniteSet(Posted)
      /\ \A t \in Posted : req[t].day \in Nat /\ req[t].amount \in Nat
  BY PostedAreRequests, RecordsOK DEF Caps, Records
<1> DEFINE S == Spent(req, Posted)
<1> SUFFICES ASSUME req[c].kind = "capped", S \subseteq req[c].saw
             PROVE  Fits(req, amount, S, OnDay(req, S, day))
  <2>1. Spent(req', Posted) = S
    BY <1>4, <1>5, FactsDecide
  <2> QED BY <1>3, <1>4, <1>5, <2>1, FactsDecide DEF Kept
<1>6. amount = req[c].amount /\ req[c].saw \subseteq Posted
  BY <1>1, <1>2 DEF Caps, Checked, Waits
<1>7. Spent(req, req[c].saw) = S
  BY <1>6 DEF Spent
<1>8. PICK d \in 0 .. day :
        /\ \A t \in req[c].saw : req[t].day =< d
        /\ Fits(req, amount, S, OnDay(req, S, d))
  BY <1>1, <1>6, <1>7 DEF Caps, Checked, Waits
<1>9. CASE d = day
  BY <1>8, <1>9
<1>10. CASE d # day
  <2>1. OnDay(req, S, day) = {}
    BY <1>1, <1>5, <1>8, <1>10 DEF OnDay, Spent
  <2>2. OnDay(req, S, d) \in SUBSET Posted
    BY DEF OnDay, Spent
  <2>3. IsFiniteSet(OnDay(req, S, d)) /\ \A t \in OnDay(req, S, d) : Amounts(req)[t] \in Nat
    BY <1>5, <2>2, FS_Subset DEF Amounts
  <2>4. SumFunctionOnSet(Amounts(req), OnDay(req, S, d)) \in Nat /\ Cardinality(OnDay(req, S, d)) \in Nat
    BY <2>3, SumNat, FS_CardinalityType
  <2>5. Cardinality({}) = 0 /\ SumFunctionOnSet(Amounts(req), {}) = 0
    BY FS_EmptySet, SumEmpty
  <2>6. amount \in Nat
    BY <1>1, <1>6 DEF Records
  <2> HIDE DEF S
  <2> QED BY <1>8, <2>1, <2>4, <2>5, <2>6, BoundsAssumption DEF Fits
<1> QED BY <1>9, <1>10

LEMMA NextCaps == IInv /\ Caps /\ [Next]_vars => Caps'
<1> SUFFICES ASSUME IInv, Caps, [Next]_vars PROVE Caps'
  OBVIOUS
<1>1. SameFacts(req, req', Posted) /\ \A t \in Posted : req'[t].at \in PostedAt
  BY PostedStays
<1>2. /\ req \in [Requests -> Records] /\ req' \in [Requests -> Records] /\ day \in Nat /\ day' \in Nat
      /\ ledger \in Seq(Requests)
  BY NextIInv DEF IInv, TypeOK
<1>3. Posted \in SUBSET Requests /\ IsFiniteSet(Posted)
  BY PostedAreRequests DEF Caps
<1>4. day =< day'
  <2>1. ASSUME NEW c \in Requests, Step(c) PROVE day' = day
    BY <2>1 DEF Step, EnforceTransactionLimits, Idempotency, Post, InvalidateForUsers,
                HandlerRefuses, StoreAnswer, ReadCached, LoadBalance, FillCache
  <2> QED BY <1>2, <2>1 DEF Next, RedisChanges, Crash, NextDay, Rest, vars
<1>5. ledger' = ledger \/ \E c \in Requests : Post(c)
  <2>1. ASSUME NEW c \in Requests, Step(c), ~Post(c) PROVE ledger' = ledger
    BY <2>1 DEF Step, EnforceTransactionLimits, Idempotency, InvalidateForUsers,
                HandlerRefuses, StoreAnswer, ReadCached, LoadBalance, FillCache
  <2>2. (RedisChanges \/ Crash \/ NextDay \/ UNCHANGED vars) => ledger' = ledger
    BY DEF RedisChanges, Crash, NextDay, vars
  <2> QED BY <2>1, <2>2 DEF Next, Rest, Step
<1>6. Posted \subseteq Posted'
  <2>1. CASE \E c \in Requests : Post(c)
    <3>1. PICK c \in Requests : ledger' = Append(ledger, c)
      BY <2>1 DEF Post
    <3>2. \A i \in DOMAIN ledger : i \in DOMAIN ledger' /\ ledger'[i] = ledger[i]
      BY <1>2, <3>1
    <3> QED BY <3>2 DEF Posted, Range
  <2> QED BY <1>5, <2>1 DEF Posted
<1>7. ASSUME NEW c \in Requests PROVE Checked(req, c, Posted, day)'
  <2> SUFFICES ASSUME Waits(req'[c]) PROVE Checked(req', c, Posted', day')
    BY DEF Checked
  <2> QED BY <1>1, <1>2, <1>4, <1>6, OnlyLimitsStart, CheckStays, LimitsCheck
<1>8. ASSUME NEW i \in DOMAIN ledger PROVE Kept(req', ledger[i], Before(i))
  <2>1. Before(i) \in SUBSET Posted /\ ledger[i] \in Posted
    BY <1>2 DEF Before, Posted, Range
  <2>2. IsFiniteSet(Before(i)) /\ Before(i) \in SUBSET Requests /\ SameFacts(req, req', Before(i))
    BY <1>1, <1>3, <2>1, FS_Subset DEF SameFacts
  <2>3. Kept(req, ledger[i], Before(i))
    BY DEF Caps
  <2>4. Spent(req', Before(i)) = Spent(req, Before(i))
    BY <2>2, FactsDecide
  <2>5. /\ req'[ledger[i]].kind = req[ledger[i]].kind /\ req'[ledger[i]].saw = req[ledger[i]].saw
        /\ req'[ledger[i]].amount = req[ledger[i]].amount /\ req'[ledger[i]].day = req[ledger[i]].day
    BY <1>1, <2>1 DEF SameFacts
  <2> QED BY <2>2, <2>3, <2>4, <2>5, FactsDecide DEF Kept
<1>9. CASE ledger' = ledger
  <2>1. Posted' = Posted /\ \A i \in DOMAIN ledger : Before(i)' = Before(i)
    BY <1>9 DEF Posted, Before
  <2>2. \A t \in Posted : req'[t].day =< day'
    BY <1>1, <1>2, <1>3, <1>4 DEF Caps, SameFacts, Records
  <2>3. \A i \in DOMAIN ledger' : Kept(req', ledger'[i], Before(i)')
    BY <1>8, <1>9, <2>1
  <2> QED BY <1>1, <1>3, <1>7, <2>1, <2>2, <2>3 DEF Caps
<1>10. ASSUME NEW c \in Requests, Post(c) PROVE Caps'
  <2>1. ledger' = Append(ledger, c) /\ day' = day
    BY <1>10 DEF Post
  <2> PICK n \in Nat : n = Len(ledger) + 1
    BY <1>2
  <2>2. Posted' = Posted \cup {c}
    BY <1>2, <2>1, SMTT(30) DEF Posted, Range
  <2>3. DOMAIN ledger' = DOMAIN ledger \cup {n} /\ ledger'[n] = c
    BY <1>2, <2>1
  <2>4. \A i \in DOMAIN ledger : ledger'[i] = ledger[i] /\ Before(i)' = Before(i)
    BY <1>2, <2>1 DEF Before
  <2>5. Before(n)' = Posted
    BY <1>2, <2>1 DEF Before, Posted, Range
  <2>6. req'[c].at \in PostedAt /\ req'[c].day = day
    BY <1>2, <1>10 DEF Post, PostedAt, Records
  <2>7. \A i \in DOMAIN ledger' : Kept(req', ledger'[i], Before(i)')
    BY <1>8, <1>10, <2>3, <2>4, <2>5, PostKeeps
  <2>8. IsFiniteSet(Posted')
    BY <1>3, <2>2, FS_AddElement
  <2>9. \A t \in Posted' : req'[t].at \in PostedAt /\ req'[t].day =< day'
    BY <1>1, <1>2, <1>3, <2>1, <2>2, <2>6 DEF Caps, SameFacts
  <2> QED BY <1>7, <2>7, <2>8, <2>9 DEF Caps
<1> QED BY <1>5, <1>9, <1>10

(* For any number of requests and processes, any limits and any clock: a   *)
(* payment exceeds a cap only if money went out between its check and its  *)
(* posting (enforceLimits.js:46-76).                                       *)
THEOREM CapsHoldButForOverlaps == Spec => []OnlyOverlapsExceedCaps
<1>1. IInv /\ Caps => OnlyOverlapsExceedCaps
  <2> SUFFICES ASSUME IInv, Caps, NEW i \in DOMAIN ledger PROVE
        LET c == ledger[i]
            spent == {t \in {ledger[j] : j \in 1 .. i - 1} : req[t].amount > 0}
            today == {t \in spent : req[t].day = req[c].day}
        IN req[c].kind = "capped" /\ spent \subseteq req[c].saw =>
             /\ req[c].amount =< PerTransactionPaise
             /\ Cardinality(today) + 1 =< DailyCount
             /\ Total(today) + req[c].amount =< DailyPaise
             /\ Total(spent) + req[c].amount =< MonthlyPaise
    BY DEF OnlyOverlapsExceedCaps
  <2> DEFINE c == ledger[i]
             spent == {t \in {ledger[j] : j \in 1 .. i - 1} : req[t].amount > 0}
             today == {t \in spent : req[t].day = req[c].day}
  <2>1. spent = Spent(req, Before(i)) /\ today = OnDay(req, Spent(req, Before(i)), req[c].day)
    BY DEF Spent, OnDay, Before
  <2>2. spent \in SUBSET Requests /\ today \in SUBSET Requests
    BY DEF IInv, TypeOK
  <2>3. Kept(req, c, Before(i))
    BY DEF Caps
  <2> HIDE DEF spent, today
  <2>4. Total(spent) = SumFunctionOnSet(Amounts(req), spent) /\ Total(today) = SumFunctionOnSet(Amounts(req), today)
    BY <2>2, TotalIsSum
  <2> QED BY <2>1, <2>3, <2>4 DEF Kept, Fits, spent, today
<1> QED BY <1>1, SpecIInv, InitCaps, NextCaps, PTL DEF Spec
===============================================================================
