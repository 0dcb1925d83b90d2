---------------------------- MODULE AccountsProofs -----------------------------
(***************************************************************************)
(* Accounts for any calls, processes, attempts, passwords and events.      *)
(***************************************************************************)
EXTENDS Accounts, TLAPS

Stores == {"redis"} \cup Processes
AllKeys == {"profile", "otp", "fails", "locked", "blacklist"}
Entries == [upTo : Nat, late : SUBSET Calls]

Values == {NoEntry, "yes"} \cup Nat \cup Entries
StoresOf(V) == [redis : [AllKeys -> V], memory : [Processes -> [AllKeys -> V]]]

In(t, s, k) == IF s = "redis" THEN t.redis[k] ELSE t.memory[s][k]

Places == {"idle", "load", "save", "drop", "unlock", "open", "blacklist", "cache", "fill", "lock?",
           "compare", "count", "lock", "unfail", "reset", "consume", "done"}
Kinds == Fields \cup {"none", "verify", "logout", "profile", "deactivate", "reset"}
Editing == {"mpin", "name"}

Records ==
  [at : Places, kind : Kinds, p : Processes \cup {"nobody"}, n : Nat,
   looked : Stores \cup {"nowhere"}, before : SUBSET Calls, cleared : SUBSET Stores]

CountersOK(t) == \A s \in Stores : In(t, s, "fails") \in {NoEntry} \cup Nat

TypeOK ==
  /\ stores \in StoresOf(Values)
  /\ \A s \in Stores : In(stores, s, "profile") \in {NoEntry} \cup Entries
  /\ CountersOK(stores)
  /\ up \in [Processes -> BOOLEAN]
  /\ call \in [Calls -> Records]
  /\ edits \in Seq(Calls)
  /\ active \in BOOLEAN /\ issued \in Nat

(* Which calls get where.                                                  *)
Belongs(at, kind) ==
  /\ at = "idle" => kind = "none"
  /\ at \in {"load", "save"} => kind \in Fields \cup {"deactivate"}
  /\ at = "drop" => kind \in Editing \cup {"deactivate"}
  /\ at = "unlock" => kind = "mpin"
  /\ at = "open" => kind \in {"mpin", "verify"}
  /\ at = "blacklist" => kind \in {"logout", "deactivate"}
  /\ at \in {"cache", "fill"} => kind = "profile"
  /\ at \in {"lock?", "compare", "count", "lock", "unfail"} => kind = "verify"
  /\ at \in {"reset", "consume"} => kind = "reset"

(* A call under way runs in a process; one that is over runs nowhere; and  *)
(* only behind its deletion has a call cleared anything.                   *)
Runs(r) ==
  /\ Belongs(r.at, r.kind)
  /\ r.at \notin {"idle", "done"} => r.p \in Processes
  /\ r.at = "done" => r.p = "nobody"
  /\ r.at \notin {"unlock", "open", "done"} => r.cleared = {}

(* The calls that had consumed the password when r checked it are over,    *)
(* and did not delete it where r found it.                                 *)
Looked(r) == \A d \in r.before : call[d].at = "done" /\ r.looked \notin call[d].cleared

CallsOK == \A c \in Calls : Runs(call[c]) /\ Looked(call[c])

(* A password is issued once; where it was consumed it is not found again. *)
Redeemed(c) ==
  /\ redeemed[c] \in 0 .. issued
  /\ call[c].at = "reset" => call[c].n \in 1 .. issued
  /\ redeemed[c] # 0 =>
       /\ call[c].at \in {"consume", "done"}
       /\ \A s \in call[c].cleared : In(stores, s, "otp") # redeemed[c]

OtpsOK ==
  /\ redeemed \in [Calls -> Nat]
  /\ \A s \in Stores : In(stores, s, "otp") \in {NoEntry} \cup 0 .. issued
  /\ \A c \in Calls : Redeemed(c)

(* StaleProfileExplained, store by store.                                  *)
Explained(s, entry) ==
  entry # NoEntry =>
    \A i \in entry.upTo + 1 .. Len(edits) :
      s \notin call[edits[i]].cleared \/ edits[i] \in entry.late

ProfilesOK ==
  /\ \A i \in 1 .. Len(edits) : call[edits[i]].kind \in Editing
  /\ \A s \in Stores : Explained(s, In(stores, s, "profile"))

IInv == TypeOK /\ CallsOK /\ OtpsOK /\ ProfilesOK
-------------------------------------------------------------------------------
(* What the operators of Cache return. *)
LEMMA GetFinds ==
  ASSUME NEW t, NEW p \in Processes, NEW k, NEW u \in BOOLEAN
  PROVE  GetCache(t, p, k, u) = In(t, IF u THEN "redis" ELSE p, k)
  BY NamesAssumption DEF GetCache, In

LEMMA SetEffect ==
  ASSUME NEW V, NEW t \in StoresOf(V), NEW p \in Processes, NEW k \in AllKeys, NEW v \in V, NEW u \in BOOLEAN
  PROVE  /\ SetCache(t, p, k, v, u) \in StoresOf(V)
         /\ \A s \in Stores, j \in AllKeys :
              In(SetCache(t, p, k, v, u), s, j) =
                IF s = (IF u THEN "redis" ELSE p) /\ j = k THEN v ELSE In(t, s, j)
<1>1. CASE u
  <2>1. SetCache(t, p, k, v, u) = [t EXCEPT !.redis[k] = v]
    BY <1>1 DEF SetCache
  <2>2. [t EXCEPT !.redis[k] = v] \in StoresOf(V)
    BY DEF StoresOf
  <2>3. \A s \in Stores, j \in AllKeys :
          In([t EXCEPT !.redis[k] = v], s, j) = IF s = "redis" /\ j = k THEN v ELSE In(t, s, j)
    BY NamesAssumption DEF In, Stores, StoresOf
  <2> QED BY <1>1, <2>1, <2>2, <2>3
<1>2. CASE ~u
  <2>1. SetCache(t, p, k, v, u) = [t EXCEPT !.memory[p][k] = v]
    BY <1>2 DEF SetCache
  <2>2. [t EXCEPT !.memory[p][k] = v] \in StoresOf(V)
    BY DEF StoresOf
  <2>3. \A s \in Stores, j \in AllKeys :
          In([t EXCEPT !.memory[p][k] = v], s, j) = IF s = p /\ j = k THEN v ELSE In(t, s, j)
    BY NamesAssumption DEF In, Stores, StoresOf
  <2> QED BY <1>2, <2>1, <2>2, <2>3
<1> QED BY <1>1, <1>2

LEMMA DeleteEffect ==
  ASSUME NEW V, NoEntry \in V, NEW t \in StoresOf(V), NEW p \in Processes, NEW K, NEW u \in BOOLEAN
  PROVE  /\ DeleteCache(t, p, K, u) \in StoresOf(V)
         /\ \A s \in Stores, j \in AllKeys :
              In(DeleteCache(t, p, K, u), s, j) =
                IF j \in K /\ s \in {p, IF u THEN "redis" ELSE p} THEN NoEntry ELSE In(t, s, j)
<1> DEFINE r == DeleteCache(t, p, K, u)
<1>1. /\ r.redis = [k \in AllKeys |-> IF u /\ k \in K THEN NoEntry ELSE t.redis[k]]
      /\ r.memory = [t.memory EXCEPT ![p] = [k \in AllKeys |-> IF k \in K THEN NoEntry ELSE @[k]]]
      /\ r = [redis |-> r.redis, memory |-> r.memory]
  BY DEF DeleteCache, AllKeys
<1>2. r.redis \in [AllKeys -> V] /\ r.memory \in [Processes -> [AllKeys -> V]]
  BY <1>1 DEF StoresOf
<1>3. r \in StoresOf(V)
  BY <1>1, <1>2 DEF StoresOf
<1>4. \A s \in Stores, j \in AllKeys :
        In(r, s, j) = IF j \in K /\ s \in {p, IF u THEN "redis" ELSE p} THEN NoEntry ELSE In(t, s, j)
  <2> HIDE DEF r
  <2> QED BY <1>1, NamesAssumption DEF In, Stores, StoresOf
<1> QED BY <1>3, <1>4

LEMMA RestartEffect ==
  ASSUME NEW V, NoEntry \in V, NEW t \in StoresOf(V), NEW p \in Processes
  PROVE  /\ Restarted(t, p) \in StoresOf(V)
         /\ \A s \in Stores, j \in AllKeys :
              In(Restarted(t, p), s, j) = IF s = p THEN NoEntry ELSE In(t, s, j)
<1> DEFINE r == Restarted(t, p)
<1>1. r = [t EXCEPT !.memory[p] = [k \in AllKeys |-> NoEntry]]
  BY DEF Restarted, AllKeys
<1>2. r \in StoresOf(V)
  <2> HIDE DEF r
  <2> QED BY <1>1 DEF StoresOf
<1>3. \A s \in Stores, j \in AllKeys : In(r, s, j) = IF s = p THEN NoEntry ELSE In(t, s, j)
  <2> HIDE DEF r
  <2> QED BY <1>1, NamesAssumption DEF In, Stores, StoresOf
<1> QED BY <1>2, <1>3

LEMMA WriteEffect ==
  ASSUME TypeOK, NEW c \in Calls, call[c].p \in Processes, NEW k \in AllKeys, NEW v \in Values, Write(c, k, v)
  PROVE  /\ stores' \in StoresOf(Values)
         /\ \A s \in Stores, j \in AllKeys :
              In(stores', s, j) = IF s = StoreOf(call[c].p) /\ j = k THEN v ELSE In(stores, s, j)
<1>1. stores \in StoresOf(Values) /\ up[call[c].p] \in BOOLEAN
  BY DEF TypeOK
<1> QED BY <1>1, SetEffect DEF Write, StoreOf

LEMMA DropEffect ==
  ASSUME TypeOK, NEW c \in Calls, call[c].p \in Processes, NEW K, Delete(c, K)
  PROVE  /\ stores' \in StoresOf(Values)
         /\ \A s \in Stores, j \in AllKeys :
              In(stores', s, j) = IF j \in K /\ s \in Cleared(c) THEN NoEntry ELSE In(stores, s, j)
<1>1. stores \in StoresOf(Values) /\ up[call[c].p] \in BOOLEAN /\ NoEntry \in Values
  BY DEF TypeOK, Values
<1> QED BY <1>1, DeleteEffect DEF Delete, Cleared, StoreOf

-------------------------------------------------------------------------------
(* What a call is after [r EXCEPT !.at = at], and after it is over.        *)
LEMMA AtOK ==
  ASSUME NEW r \in Records, NEW at \in Places
  PROVE  /\ [r EXCEPT !.at = at] \in Records
         /\ [r EXCEPT !.at = at].at = at /\ [r EXCEPT !.at = at].kind = r.kind
         /\ [r EXCEPT !.at = at].p = r.p /\ [r EXCEPT !.at = at].n = r.n
         /\ [r EXCEPT !.at = at].looked = r.looked /\ [r EXCEPT !.at = at].before = r.before
         /\ [r EXCEPT !.at = at].cleared = r.cleared
<1>1. [r EXCEPT !.at = at] \in Records
  BY DEF Records
<1>2. /\ [r EXCEPT !.at = at].at = at /\ [r EXCEPT !.at = at].kind = r.kind
      /\ [r EXCEPT !.at = at].p = r.p /\ [r EXCEPT !.at = at].n = r.n
      /\ [r EXCEPT !.at = at].looked = r.looked /\ [r EXCEPT !.at = at].before = r.before
      /\ [r EXCEPT !.at = at].cleared = r.cleared
  BY DEF Records
<1> QED BY <1>1, <1>2

LEMMA OverOK ==
  ASSUME NEW r \in Records
  PROVE  /\ Over(r) \in Records
         /\ Over(r).at = "done" /\ Over(r).kind = r.kind /\ Over(r).p = "nobody" /\ Over(r).n = r.n
         /\ Over(r).looked = r.looked /\ Over(r).before = r.before /\ Over(r).cleared = r.cleared
<1>1. Over(r) \in Records
  BY DEF Records, Over, Places
<1>2. /\ Over(r).at = "done" /\ Over(r).kind = r.kind /\ Over(r).p = "nobody" /\ Over(r).n = r.n
      /\ Over(r).looked = r.looked /\ Over(r).before = r.before /\ Over(r).cleared = r.cleared
  BY DEF Records, Over
<1> QED BY <1>1, <1>2

LEMMA ClearedOK ==
  ASSUME NEW r \in Records, NEW S \in SUBSET Stores
  PROVE  /\ [r EXCEPT !.cleared = S] \in Records
         /\ [r EXCEPT !.cleared = S].at = r.at /\ [r EXCEPT !.cleared = S].kind = r.kind
         /\ [r EXCEPT !.cleared = S].p = r.p /\ [r EXCEPT !.cleared = S].n = r.n
         /\ [r EXCEPT !.cleared = S].looked = r.looked /\ [r EXCEPT !.cleared = S].before = r.before
         /\ [r EXCEPT !.cleared = S].cleared = S
<1>1. [r EXCEPT !.cleared = S] \in Records
  BY DEF Records
<1>2. /\ [r EXCEPT !.cleared = S].at = r.at /\ [r EXCEPT !.cleared = S].kind = r.kind
      /\ [r EXCEPT !.cleared = S].p = r.p /\ [r EXCEPT !.cleared = S].n = r.n
      /\ [r EXCEPT !.cleared = S].looked = r.looked /\ [r EXCEPT !.cleared = S].before = r.before
      /\ [r EXCEPT !.cleared = S].cleared = S
  BY DEF Records
<1> QED BY <1>1, <1>2

LEMMA FreshOK ==
  /\ Fresh \in Records /\ Runs(Fresh) /\ Fresh.before = {} /\ Fresh.cleared = {}
  /\ Fresh.at = "idle" /\ Fresh.kind = "none"
  BY DEF Fresh, Records, Runs, Belongs, Places, Kinds

LEMMA GoneOK ==
  /\ Gone \in Records /\ Runs(Gone) /\ Gone.before = {} /\ Gone.cleared = {} /\ Gone.at = "done"
  BY DEF Fresh, Gone, Records, Runs, Belongs, Places, Kinds

LEMMA RecordsOK ==
  ASSUME IInv, NEW c \in Calls
  PROVE  /\ call[c] \in Records /\ Runs(call[c]) /\ Looked(call[c]) /\ Redeemed(c)
         /\ call[c].at \notin {"idle", "done"} => call[c].p \in Processes
  BY DEF IInv, TypeOK, CallsOK, OtpsOK, Runs

LEMMA InitIInv == Init => IInv
<1> SUFFICES ASSUME Init PROVE IInv
  OBVIOUS
<1>1. EmptyStores \in StoresOf(Values) /\ \A s \in Stores, k \in AllKeys : In(EmptyStores, s, k) = NoEntry
  BY NamesAssumption DEF EmptyStores, StoresOf, In, Stores, Values, AllKeys
<1>2. stores \in StoresOf(Values) /\ \A s \in Stores, k \in AllKeys : In(stores, s, k) = NoEntry
  BY <1>1 DEF Init
<1>3. up \in [Processes -> BOOLEAN]
  <2>1. PICK connected \in BOOLEAN : up = [p \in Processes |-> connected]
    BY DEF Init
  <2> QED BY <2>1
<1>4. \A c \in Calls : call[c] = Fresh
  BY DEF Init
<1>5. call \in [Calls -> Records] /\ edits = <<>> /\ active \in BOOLEAN /\ issued = 0
  BY FreshOK DEF Init
<1>6. TypeOK
  BY <1>2, <1>3, <1>5 DEF TypeOK, CountersOK, AllKeys
<1>7. CallsOK
  BY <1>4, FreshOK DEF CallsOK, Looked
<1>8. OtpsOK
  <2>1. redeemed \in [Calls -> Nat] /\ \A c \in Calls : redeemed[c] = 0
    BY DEF Init
  <2> QED BY <2>1, <1>2, <1>4, <1>5, FreshOK DEF OtpsOK, Redeemed, AllKeys
<1>9. ProfilesOK
  BY <1>2, <1>5 DEF ProfilesOK, Explained, AllKeys
<1> QED BY <1>6, <1>7, <1>8, <1>9 DEF IInv

-------------------------------------------------------------------------------
(* What stays as it is in the stores of a step: no profile and no password *)
(* is found where it was not before.                                       *)
Fewer ==
  \A s \in Stores : /\ In(stores', s, "profile") \in {NoEntry, In(stores, s, "profile")}
                    /\ In(stores', s, "otp") \in {NoEntry, In(stores, s, "otp")}

(* A call that is not over goes on as r.  What it has cleared on the way   *)
(* is gone, and what it is does not change once it has edited something.   *)
LEMMA Moves ==
  ASSUME IInv, NEW c \in Calls, call[c].at # "done", NEW r \in Records,
         call' = [call EXCEPT ![c] = r], Runs(r), Looked(r),
         r.kind = call[c].kind \/ call[c].kind \notin Editing,
         redeemed[c] # 0 => r.at \in {"consume", "done"},
         r.at = "reset" => r.n \in 1 .. issued,
         \A s \in r.cleared :
           \/ s \in call[c].cleared
           \/ /\ r.kind \in Editing => In(stores', s, "profile") = NoEntry
              /\ redeemed[c] # 0 => In(stores', s, "otp") = NoEntry,
         stores' \in StoresOf(Values), CountersOK(stores'), Fewer,
         active' \in BOOLEAN, UNCHANGED <<up, edits, issued, redeemed>>
  PROVE  IInv'
<1>1. /\ call' \in [Calls -> Records] /\ call'[c] = r /\ \A d \in Calls \ {c} : call'[d] = call[d]
      /\ stores \in StoresOf(Values) /\ issued \in Nat /\ edits \in Seq(Calls)
  BY DEF IInv, TypeOK
<1>2. TypeOK'
  <2>1. \A s \in Stores : In(stores', s, "profile") \in {NoEntry} \cup Entries
    BY DEF IInv, TypeOK, Fewer
  <2> QED BY <1>1, <2>1 DEF IInv, TypeOK, CountersOK, In
<1>3. CallsOK'
  <2> SUFFICES ASSUME NEW d \in Calls PROVE Runs(call'[d]) /\ Looked(call[d])'
    BY DEF CallsOK, Runs, Belongs
  <2>1. \A e \in call'[d].before : e \in Calls /\ e # c /\ call[e].at = "done" /\ call'[d].looked \notin call[e].cleared
    BY <1>1, RecordsOK DEF Looked, Records
  <2>2. Looked(call[d])'
    BY <1>1, <2>1 DEF Looked
  <2>3. Runs(call'[d])
    BY <1>1, RecordsOK
  <2> QED BY <2>2, <2>3
<1>4. OtpsOK'
  <2>1. \A s \in Stores : In(stores', s, "otp") \in {NoEntry} \cup 0 .. issued
    BY DEF IInv, OtpsOK, Fewer
  <2>2. ASSUME NEW d \in Calls PROVE Redeemed(d)'
    <3>1. redeemed[d] \in 0 .. issued /\ (call'[d].at = "reset" => call'[d].n \in 1 .. issued)
      BY <1>1, RecordsOK DEF Redeemed
    <3>2. ASSUME redeemed[d] # 0
          PROVE  /\ call'[d].at \in {"consume", "done"}
                 /\ \A s \in call'[d].cleared : In(stores', s, "otp") # redeemed[d]
      <4>1. call'[d].at \in {"consume", "done"}
        BY <1>1, <3>2, RecordsOK DEF Redeemed
      <4>2. ASSUME NEW s \in call'[d].cleared PROVE In(stores', s, "otp") # redeemed[d]
        <5>1. s \in Stores /\ redeemed[d] # NoEntry
          BY <1>1, <3>1, NamesAssumption DEF Records
        <5>2. CASE s \in call[d].cleared
          BY <5>1, <5>2, <3>2, RecordsOK DEF Redeemed, Fewer
        <5>3. CASE s \notin call[d].cleared
          BY <5>1, <5>3, <1>1, <3>2
        <5> QED BY <5>2, <5>3
      <4> QED BY <4>1, <4>2
    <3> QED BY <3>1, <3>2 DEF Redeemed, In
  <2>3. redeemed \in [Calls -> Nat]
    BY DEF IInv, OtpsOK
  <2> QED BY <2>1, <2>2, <2>3 DEF OtpsOK, In
<1>5. ProfilesOK'
  <2>1. \A i \in 1 .. Len(edits) : edits[i] \in Calls /\ call[edits[i]].kind \in Editing
    BY <1>1 DEF IInv, ProfilesOK
  <2>2. \A i \in 1 .. Len(edits) : call'[edits[i]].kind \in Editing
    BY <1>1, <2>1
  <2>3. ASSUME NEW s \in Stores, In(stores', s, "profile") # NoEntry,
               NEW i \in In(stores', s, "profile").upTo + 1 .. Len(edits)
        PROVE  s \notin call'[edits[i]].cleared \/ edits[i] \in In(stores', s, "profile").late
    <3>1. In(stores', s, "profile") = In(stores, s, "profile") /\ In(stores, s, "profile").upTo \in Nat
      BY <2>3 DEF Fewer, IInv, TypeOK, Entries
    <3>2. s \notin call[edits[i]].cleared \/ edits[i] \in In(stores, s, "profile").late
      BY <2>3, <3>1 DEF IInv, ProfilesOK, Explained
    <3>3. edits[i] \in Calls /\ call'[edits[i]].kind \in Editing
      BY <2>1, <2>2, <3>1
    <3> QED BY <1>1, <2>3, <3>1, <3>2, <3>3
  <2> QED BY <2>2, <2>3 DEF ProfilesOK, Explained, In
<1> QED BY <1>2, <1>3, <1>4, <1>5 DEF IInv

(* The same, for the calls whose place alone changes.                      *)
LEMMA MovesTo ==
  ASSUME IInv, NEW c \in Calls, call[c].at \notin {"idle", "done", "open", "reset"},
         NEW at \in Places \ {"done", "reset"}, Goes(c, at),
         call[c].at = "unlock" => at = "open", Belongs(at, call[c].kind), redeemed[c] = 0,
         stores' \in StoresOf(Values), CountersOK(stores'), Fewer,
         active' \in BOOLEAN, UNCHANGED <<up, edits, issued, redeemed>>
  PROVE  IInv'
<1> DEFINE r == [call[c] EXCEPT !.at = at]
<1>1. call' = [call EXCEPT ![c] = r]
  BY DEF Goes
<1>2. /\ r \in Records /\ r.at = at /\ r.kind = call[c].kind /\ r.p = call[c].p /\ r.looked = call[c].looked
      /\ r.before = call[c].before /\ r.cleared = call[c].cleared
  BY RecordsOK, AtOK
<1> HIDE DEF r
<1>3. Runs(r) /\ Looked(r)
  BY <1>2, RecordsOK DEF Runs, Looked
<1> QED BY <1>1, <1>2, <1>3, Moves

LEMMA EndsOK ==
  ASSUME IInv, NEW c \in Calls, call[c].at # "done", call' = [call EXCEPT ![c] = Gone],
         call[c].kind \notin Editing,
         stores' \in StoresOf(Values), CountersOK(stores'), Fewer,
         active' \in BOOLEAN, UNCHANGED <<up, edits, issued, redeemed>>
  PROVE  IInv'
  BY GoneOK, Moves DEF Looked

(* Steps that leave the stores alone.                                      *)
LEMMA Untouched ==
  ASSUME IInv, stores' = stores
  PROVE  stores' \in StoresOf(Values) /\ CountersOK(stores') /\ Fewer
  BY DEF IInv, TypeOK, Fewer

LEMMA NotRedeemed ==
  ASSUME IInv, NEW c \in Calls, call[c].at \notin {"consume", "done"}
  PROVE  redeemed[c] = 0
  BY RecordsOK DEF Redeemed

LEMMA ProtectStep == ASSUME IInv, NEW c \in Calls, Protect(c) PROVE IInv'
<1> DEFINE r(kind, p, n) == [Fresh EXCEPT !.at = FirstStep(kind), !.kind = kind, !.p = p, !.n = n]
<1>1. PICK kind \in Fields \cup {"verify", "logout", "profile", "deactivate"}, p \in Processes :
        \/ call' = [call EXCEPT ![c] = Gone]
        \/ call' = [call EXCEPT ![c] = r(kind, p, IF kind = "profile" THEN Len(edits) ELSE 0)]
  BY DEF Protect
<1> DEFINE n == IF kind = "profile" THEN Len(edits) ELSE 0
<1>2. n \in Nat
  BY DEF IInv, TypeOK
<1>3. /\ call[c].at = "idle" /\ call[c].kind = "none"
      /\ UNCHANGED <<stores, up, active, edits, issued, redeemed>> /\ active' \in BOOLEAN
  BY RecordsOK DEF Protect, history, IInv, TypeOK, Runs, Belongs
<1>4. CASE call' = [call EXCEPT ![c] = Gone]
  BY <1>3, <1>4, Untouched, EndsOK DEF Editing
<1>5. CASE call' = [call EXCEPT ![c] = r(kind, p, n)]
  <2>1. /\ FirstStep(kind) \in Places \ {"idle", "done", "reset"} /\ Belongs(FirstStep(kind), kind)
        /\ kind \in Kinds
    BY DEF FirstStep, Fields, Places, Belongs, Kinds
  <2>2. r(kind, p, n) \in Records
    BY <1>2, <2>1, FreshOK DEF Records
  <2>3. /\ r(kind, p, n).at = FirstStep(kind) /\ r(kind, p, n).kind = kind /\ r(kind, p, n).p = p
        /\ r(kind, p, n).before = {} /\ r(kind, p, n).cleared = {}
    BY FreshOK DEF Records
  <2> HIDE DEF r
  <2>4. Runs(r(kind, p, n)) /\ Looked(r(kind, p, n))
    BY <2>1, <2>3 DEF Runs, Looked
  <2>5. redeemed[c] = 0
    BY <1>3, NotRedeemed
  <2> QED BY <1>3, <1>5, <2>1, <2>2, <2>3, <2>4, <2>5, Untouched, Moves DEF Editing
<1> QED BY <1>1, <1>4, <1>5

LEMMA LoadStep == ASSUME IInv, NEW c \in Calls, LoadUser(c) PROVE IInv'
<1>1. /\ call[c].at = "load" /\ Goes(c, "save") /\ redeemed[c] = 0
      /\ UNCHANGED <<stores, up, active, edits, issued, redeemed>> /\ active' \in BOOLEAN
  BY NotRedeemed DEF LoadUser, history, IInv, TypeOK
<1>2. Belongs("save", call[c].kind) /\ "save" \in Places \ {"done", "reset"}
  BY <1>1, RecordsOK DEF Runs, Belongs, Places
<1> QED BY <1>1, <1>2, Untouched, MovesTo

LEMMA BlacklistStep == ASSUME IInv, NEW c \in Calls, Blacklist(c) PROVE IInv'
<1>1. /\ call[c].at = "blacklist" /\ call[c].kind \in {"logout", "deactivate"} /\ call[c].p \in Processes
      /\ redeemed[c] = 0 /\ UNCHANGED <<up, active, edits, issued, redeemed>> /\ active' \in BOOLEAN
  BY RecordsOK, NotRedeemed DEF Blacklist, Runs, Belongs, history, IInv, TypeOK
<1>2. "blacklist" \in AllKeys /\ "yes" \in Values /\ Write(c, "blacklist", "yes")
  BY DEF Blacklist, AllKeys, Values
<1>3. stores' \in StoresOf(Values) /\ CountersOK(stores') /\ Fewer
  BY <1>1, <1>2, WriteEffect DEF IInv, TypeOK, CountersOK, Fewer, AllKeys
<1>4. CASE call[c].kind = "logout"
  BY <1>1, <1>3, <1>4, EndsOK DEF Blacklist, Ends, Editing
<1>5. CASE call[c].kind # "logout"
  <2>1. Goes(c, "drop") /\ Belongs("drop", call[c].kind) /\ "drop" \in Places \ {"done", "reset"}
    BY <1>1, <1>5 DEF Blacklist, Belongs, Places
  <2> QED BY <1>1, <1>3, <2>1, MovesTo
<1> QED BY <1>4, <1>5

LEMMA ReadStep == ASSUME IInv, NEW c \in Calls, ReadProfile(c) PROVE IInv'
<1>1. /\ call[c].at = "cache" /\ call[c].kind = "profile" /\ redeemed[c] = 0
      /\ UNCHANGED <<stores, up, active, edits, issued, redeemed>> /\ active' \in BOOLEAN
  BY RecordsOK, NotRedeemed DEF ReadProfile, Runs, Belongs, history, IInv, TypeOK
<1>2. CASE Ends(c)
  BY <1>1, <1>2, Untouched, EndsOK DEF Ends, Editing
<1>3. CASE Goes(c, "fill")
  <2>1. Belongs("fill", call[c].kind) /\ "fill" \in Places \ {"done", "reset"}
    BY <1>1 DEF Belongs, Places
  <2> QED BY <1>1, <1>3, <2>1, Untouched, MovesTo
<1> QED BY <1>2, <1>3 DEF ReadProfile

LEMMA CheckLockStep == ASSUME IInv, NEW c \in Calls, CheckLock(c) PROVE IInv'
<1>1. /\ call[c].at = "lock?" /\ call[c].kind = "verify" /\ redeemed[c] = 0
      /\ UNCHANGED <<stores, up, active, edits, issued, redeemed>> /\ active' \in BOOLEAN
  BY RecordsOK, NotRedeemed DEF CheckLock, Runs, Belongs, IInv, TypeOK
<1>2. CASE Ends(c)
  BY <1>1, <1>2, Untouched, EndsOK DEF Ends, Editing
<1>3. CASE Goes(c, "compare")
  <2>1. Belongs("compare", call[c].kind) /\ "compare" \in Places \ {"done", "reset"}
    BY <1>1 DEF Belongs, Places
  <2> QED BY <1>1, <1>3, <2>1, Untouched, MovesTo
<1> QED BY <1>2, <1>3 DEF CheckLock

LEMMA WrongStep == ASSUME IInv, NEW c \in Calls, MpinWrong(c) PROVE IInv'
<1> DEFINE fails == IF Read(c, "fails") = NoEntry THEN 0 ELSE Read(c, "fails")
           n == fails + 1
           r == [call[c] EXCEPT !.at = "count", !.n = n]
<1>1. /\ call[c] \in Records /\ call[c].at = "compare" /\ call[c].kind = "verify" /\ redeemed[c] = 0
      /\ call[c].p \in Processes
      /\ UNCHANGED <<stores, up, active, edits, issued, redeemed>> /\ active' \in BOOLEAN
  BY RecordsOK, NotRedeemed DEF MpinWrong, Runs, Belongs, IInv, TypeOK
<1>2. n \in Nat
  <2>1. up[call[c].p] \in BOOLEAN /\ StoreOf(call[c].p) \in Stores
    BY <1>1 DEF IInv, TypeOK, StoreOf, Stores
  <2>2. Read(c, "fails") = In(stores, StoreOf(call[c].p), "fails")
    BY <1>1, <2>1, GetFinds DEF Read, StoreOf
  <2>3. Read(c, "fails") \in {NoEntry} \cup Nat
    BY <2>1, <2>2 DEF IInv, TypeOK, CountersOK
  <2> QED BY <2>3
<1>3. call' = [call EXCEPT ![c] = r]
  BY DEF MpinWrong
<1> HIDE DEF n
<1>4. r \in Records
  BY <1>1, <1>2 DEF Records, Places
<1>5. /\ r.at = "count" /\ r.kind = call[c].kind /\ r.p = call[c].p /\ r.looked = call[c].looked
      /\ r.before = call[c].before /\ r.cleared = call[c].cleared
  BY <1>1 DEF Records
<1> HIDE DEF r
<1>6. Runs(r) /\ Looked(r)
  BY <1>1, <1>5, RecordsOK DEF Runs, Belongs, Looked
<1> QED BY <1>1, <1>3, <1>4, <1>5, <1>6, Untouched, Moves

LEMMA CountStep == ASSUME IInv, NEW c \in Calls, RecordFailure(c) PROVE IInv'
<1>1. /\ call[c].at = "count" /\ call[c].kind = "verify" /\ call[c].p \in Processes /\ call[c].n \in Nat
      /\ redeemed[c] = 0 /\ UNCHANGED <<up, active, edits, issued, redeemed>> /\ active' \in BOOLEAN
  BY RecordsOK, NotRedeemed DEF RecordFailure, Runs, Belongs, IInv, TypeOK, Records
<1>2. "fails" \in AllKeys /\ call[c].n \in Values /\ Write(c, "fails", call[c].n)
  BY <1>1 DEF RecordFailure, AllKeys, Values
<1>3. stores' \in StoresOf(Values) /\ CountersOK(stores') /\ Fewer
  BY <1>1, <1>2, WriteEffect DEF IInv, TypeOK, CountersOK, Fewer, AllKeys
<1>4. CASE Ends(c)
  BY <1>1, <1>3, <1>4, EndsOK DEF Ends, Editing
<1>5. CASE Goes(c, "lock")
  <2>1. Belongs("lock", call[c].kind) /\ "lock" \in Places \ {"done", "reset"}
    BY <1>1 DEF Belongs, Places
  <2> QED BY <1>1, <1>3, <1>5, <2>1, MovesTo
<1> QED BY <1>4, <1>5 DEF RecordFailure

LEMMA LockStep == ASSUME IInv, NEW c \in Calls, LockAccount(c) PROVE IInv'
<1>1. /\ call[c].at = "lock" /\ call[c].kind = "verify" /\ call[c].p \in Processes
      /\ redeemed[c] = 0 /\ UNCHANGED <<up, active, edits, issued, redeemed>> /\ active' \in BOOLEAN
  BY RecordsOK, NotRedeemed DEF LockAccount, Runs, Belongs, IInv, TypeOK
<1>2. "locked" \in AllKeys /\ "yes" \in Values /\ Write(c, "locked", "yes")
  BY DEF LockAccount, AllKeys, Values
<1>3. stores' \in StoresOf(Values) /\ CountersOK(stores') /\ Fewer
  BY <1>1, <1>2, WriteEffect DEF IInv, TypeOK, CountersOK, Fewer, AllKeys
<1>4. Goes(c, "unfail") /\ Belongs("unfail", call[c].kind) /\ "unfail" \in Places \ {"done", "reset"}
  BY <1>1 DEF LockAccount, Belongs, Places
<1> QED BY <1>1, <1>3, <1>4, MovesTo

LEMMA DropFailsStep == ASSUME IInv, NEW c \in Calls, DropFails(c) PROVE IInv'
<1>1. /\ call[c].at = "unfail" /\ call[c].kind = "verify" /\ call[c].p \in Processes
      /\ UNCHANGED <<up, active, edits, issued, redeemed>> /\ active' \in BOOLEAN
  BY RecordsOK DEF DropFails, Runs, Belongs, IInv, TypeOK
<1>2. stores' \in StoresOf(Values) /\ CountersOK(stores') /\ Fewer
  <2>1. Delete(c, {"fails"})
    BY DEF DropFails
  <2> QED BY <1>1, <2>1, DropEffect DEF IInv, TypeOK, CountersOK, Fewer, AllKeys
<1>3. call' = [call EXCEPT ![c] = Gone]
  BY DEF DropFails, Ends
<1> QED BY <1>1, <1>2, <1>3, EndsOK DEF Editing

LEMMA ClearFailsStep == ASSUME IInv, NEW c \in Calls, ClearFails(c) PROVE IInv'
<1>1. /\ call[c].at \in {"compare", "unlock"} /\ call[c].kind \in {"verify", "mpin"}
      /\ call[c].p \in Processes /\ redeemed[c] = 0
      /\ UNCHANGED <<up, active, edits, issued, redeemed>> /\ active' \in BOOLEAN
  BY RecordsOK, NotRedeemed DEF ClearFails, Runs, Belongs, IInv, TypeOK
<1>2. stores' \in StoresOf(Values) /\ CountersOK(stores') /\ Fewer
  <2>1. Delete(c, {"fails"})
    BY DEF ClearFails
  <2> QED BY <1>1, <2>1, DropEffect DEF IInv, TypeOK, CountersOK, Fewer, AllKeys
<1>3. Goes(c, "open") /\ Belongs("open", call[c].kind) /\ "open" \in Places \ {"done", "reset"}
  BY <1>1 DEF ClearFails, Belongs, Places
<1> QED BY <1>1, <1>2, <1>3, MovesTo

LEMMA ClearLockStep == ASSUME IInv, NEW c \in Calls, ClearLock(c) PROVE IInv'
<1>1. /\ call[c].at = "open" /\ call[c].kind \in {"verify", "mpin"} /\ call[c].p \in Processes
      /\ redeemed[c] = 0 /\ UNCHANGED <<up, active, edits, issued, redeemed>> /\ active' \in BOOLEAN
  BY RecordsOK, NotRedeemed DEF ClearLock, Runs, Belongs, IInv, TypeOK
<1>2. stores' \in StoresOf(Values) /\ CountersOK(stores') /\ Fewer
  <2>1. Delete(c, {"locked"})
    BY DEF ClearLock
  <2> QED BY <1>1, <2>1, DropEffect DEF IInv, TypeOK, CountersOK, Fewer, AllKeys
<1>3. CASE call[c].kind = "verify"
  <2>1. call' = [call EXCEPT ![c] = Gone]
    BY <1>3 DEF ClearLock
  <2> QED BY <1>1, <1>2, <1>3, <2>1, EndsOK DEF Editing
<1>4. CASE call[c].kind # "verify"
  <2>1. call' = [call EXCEPT ![c] = Over(call[c])]
    BY <1>4 DEF ClearLock
  <2>2. /\ Over(call[c]) \in Records /\ Over(call[c]).at = "done" /\ Over(call[c]).kind = call[c].kind
        /\ Over(call[c]).p = "nobody" /\ Over(call[c]).looked = call[c].looked
        /\ Over(call[c]).before = call[c].before /\ Over(call[c]).cleared = call[c].cleared
    BY OverOK, RecordsOK
  <2>3. Runs(Over(call[c])) /\ Looked(Over(call[c]))
    BY <2>2, RecordsOK DEF Runs, Belongs, Looked
  <2> QED BY <1>1, <1>2, <2>1, <2>2, <2>3, Moves
<1> QED BY <1>3, <1>4

LEMMA CheckOtpStep == ASSUME IInv, NEW c \in Calls, CheckOtp(c) PROVE IInv'
<1> DEFINE before(o) == {d \in Calls : redeemed[d] = o /\ call[d].cleared # {}}
           r(p, o) == [Fresh EXCEPT !.at = "reset", !.kind = "reset", !.p = p, !.n = o,
                                    !.looked = StoreOf(p), !.before = before(o)]
<1>1. PICK p \in Processes, o \in 1 .. issued :
        call' = [call EXCEPT ![c] = IF GetCache(stores, p, "otp", up[p]) = o THEN r(p, o) ELSE Gone]
  BY DEF CheckOtp
<1>2. /\ call[c].at = "idle" /\ call[c].kind = "none" /\ redeemed[c] = 0
      /\ UNCHANGED <<stores, up, active, edits, issued, redeemed>> /\ active' \in BOOLEAN
  BY RecordsOK, NotRedeemed DEF CheckOtp, history, IInv, TypeOK, Runs, Belongs
<1>3. CASE GetCache(stores, p, "otp", up[p]) # o
  <2>1. call' = [call EXCEPT ![c] = Gone]
    BY <1>1, <1>3
  <2> QED BY <1>2, <2>1, Untouched, EndsOK DEF Editing
<1>4. CASE GetCache(stores, p, "otp", up[p]) = o
  <2>1. call' = [call EXCEPT ![c] = r(p, o)]
    BY <1>1, <1>4
  <2>2. StoreOf(p) \in Stores /\ up[p] \in BOOLEAN /\ o \in Nat /\ before(o) \subseteq Calls
    BY DEF IInv, TypeOK, StoreOf, Stores
  <2>3. In(stores, StoreOf(p), "otp") = o
    BY <1>4, <2>2, GetFinds DEF StoreOf
  <2>4. ASSUME NEW d \in before(o) PROVE call[d].at = "done" /\ StoreOf(p) \notin call[d].cleared
    <3>1. d \in Calls /\ redeemed[d] = o /\ redeemed[d] # 0 /\ call[d].cleared # {}
      OBVIOUS
    <3>2. Redeemed(d) /\ Runs(call[d])
      BY <3>1, RecordsOK
    <3> QED BY <2>3, <3>1, <3>2 DEF Redeemed, Runs
  <2> HIDE DEF before
  <2>5. r(p, o) \in Records
    BY <2>2, FreshOK DEF Records, Places, Kinds
  <2>6. /\ r(p, o).at = "reset" /\ r(p, o).kind = "reset" /\ r(p, o).p = p /\ r(p, o).n = o
        /\ r(p, o).looked = StoreOf(p) /\ r(p, o).before = before(o) /\ r(p, o).cleared = {}
    BY FreshOK DEF Records
  <2> HIDE DEF r
  <2>7. Runs(r(p, o)) /\ Looked(r(p, o))
    BY <2>4, <2>6 DEF Runs, Belongs, Looked
  <2> QED BY <1>2, <2>1, <2>5, <2>6, <2>7, Untouched, Moves DEF Editing
<1> QED BY <1>3, <1>4

LEMMA ConsumeStep == ASSUME IInv, NEW c \in Calls, ConsumeOtp(c) PROVE IInv'
<1> DEFINE o == Over(call[c])
           r == [o EXCEPT !.cleared = Cleared(c)]
<1>1. /\ call[c].at = "consume" /\ call[c].kind = "reset" /\ call[c].p \in Processes
      /\ UNCHANGED <<up, active, edits, issued, redeemed>> /\ active' \in BOOLEAN
  BY RecordsOK DEF ConsumeOtp, Runs, Belongs, history, IInv, TypeOK
<1>2. Cleared(c) \in SUBSET Stores
  BY <1>1 DEF Cleared, StoreOf, Stores
<1>3. /\ o \in Records /\ o.at = "done" /\ o.kind = call[c].kind /\ o.p = "nobody"
      /\ o.looked = call[c].looked /\ o.before = call[c].before
  BY OverOK, RecordsOK
<1>4. call' = [call EXCEPT ![c] = r] /\ Delete(c, {"otp"})
  BY DEF ConsumeOtp
<1> HIDE DEF o
<1>5. /\ r \in Records /\ r.at = "done" /\ r.kind = call[c].kind /\ r.p = "nobody"
      /\ r.looked = call[c].looked /\ r.before = call[c].before /\ r.cleared = Cleared(c)
  BY <1>2, <1>3, ClearedOK
<1> HIDE DEF r
<1>6. Runs(r) /\ Looked(r)
  BY <1>5, RecordsOK DEF Runs, Belongs, Looked
<1>7. /\ stores' \in StoresOf(Values) /\ CountersOK(stores') /\ Fewer
      /\ \A s \in Cleared(c) : In(stores', s, "otp") = NoEntry
  BY <1>1, <1>2, <1>4, DropEffect DEF IInv, TypeOK, CountersOK, Fewer, AllKeys
<1>8. /\ call[c].at # "done" /\ r.kind \notin Editing
      /\ r.at \in {"consume", "done"} /\ r.at # "reset"
      /\ \A s \in r.cleared : In(stores', s, "otp") = NoEntry
  BY <1>1, <1>5, <1>7 DEF Editing
<1> QED BY <1>1, <1>4, <1>5, <1>6, <1>7, <1>8, Moves

LEMMA DropProfileStep == ASSUME IInv, NEW c \in Calls, DropProfile(c) PROVE IInv'
<1>1. /\ call[c] \in Records /\ call[c].at = "drop" /\ call[c].kind \in {"mpin", "name", "deactivate"}
      /\ call[c].p \in Processes /\ redeemed[c] = 0
      /\ UNCHANGED <<up, active, edits, issued, redeemed>> /\ active' \in BOOLEAN
  BY RecordsOK, NotRedeemed DEF DropProfile, Runs, Belongs, Editing, history, IInv, TypeOK
<1>2. Cleared(c) \in SUBSET Stores
  BY <1>1 DEF Cleared, StoreOf, Stores
<1>3. /\ stores' \in StoresOf(Values) /\ CountersOK(stores') /\ Fewer
      /\ \A s \in Cleared(c) : In(stores', s, "profile") = NoEntry
  <2>1. Delete(c, {"profile"})
    BY DEF DropProfile
  <2> QED BY <1>1, <1>2, <2>1, DropEffect DEF IInv, TypeOK, CountersOK, Fewer, AllKeys
<1>4. CASE call[c].kind = "deactivate"
  <2>1. call' = [call EXCEPT ![c] = Gone]
    BY <1>4 DEF DropProfile
  <2> QED BY <1>1, <1>3, <1>4, <2>1, EndsOK DEF Editing
<1>5. CASE call[c].kind = "name"
  <2> DEFINE o == Over(call[c])
             r == [o EXCEPT !.cleared = Cleared(c)]
  <2>1. call' = [call EXCEPT ![c] = r]
    BY <1>5 DEF DropProfile
  <2>2. /\ o \in Records /\ o.at = "done" /\ o.kind = call[c].kind /\ o.p = "nobody"
        /\ o.looked = call[c].looked /\ o.before = call[c].before
    BY <1>1, OverOK
  <2> HIDE DEF o
  <2>3. /\ r \in Records /\ r.at = "done" /\ r.kind = call[c].kind /\ r.p = "nobody"
        /\ r.looked = call[c].looked /\ r.before = call[c].before /\ r.cleared = Cleared(c)
    BY <1>2, <2>2, ClearedOK
  <2> HIDE DEF r
  <2>4. Runs(r) /\ Looked(r)
    BY <2>3, RecordsOK DEF Runs, Belongs, Looked
  <2> QED BY <1>1, <1>3, <2>1, <2>3, <2>4, Moves
<1>6. CASE call[c].kind = "mpin"
  <2> DEFINE o == [call[c] EXCEPT !.at = "unlock"]
             r == [o EXCEPT !.cleared = Cleared(c)]
  <2>1. call' = [call EXCEPT ![c] = r]
    BY <1>6 DEF DropProfile
  <2>2. /\ o \in Records /\ o.at = "unlock" /\ o.kind = call[c].kind /\ o.p = call[c].p
        /\ o.looked = call[c].looked /\ o.before = call[c].before
    <3>1. "unlock" \in Places
      BY DEF Places
    <3> QED BY <1>1, <3>1, AtOK
  <2> HIDE DEF o
  <2>3. /\ r \in Records /\ r.at = "unlock" /\ r.kind = call[c].kind /\ r.p = call[c].p
        /\ r.looked = call[c].looked /\ r.before = call[c].before /\ r.cleared = Cleared(c)
    BY <1>2, <2>2, ClearedOK
  <2> HIDE DEF r
  <2>4. Runs(r) /\ Looked(r)
    BY <1>1, <1>6, <2>3, RecordsOK DEF Runs, Belongs, Looked
  <2> QED BY <1>1, <1>3, <2>1, <2>3, <2>4, Moves
<1> QED BY <1>1, <1>4, <1>5, <1>6

(* The calls of an editor keep the kind, and it has cleared nothing yet    *)
(* when it edits.                                                          *)
LEMMA SaveStep == ASSUME IInv, NEW c \in Calls, Save(c) PROVE IInv'
<1>1. /\ call[c].at = "save" /\ call[c].kind \in Fields \cup {"deactivate"} /\ call[c].p \in Processes
      /\ call[c].cleared = {} /\ redeemed[c] = 0
      /\ UNCHANGED <<stores, up, issued, redeemed>> /\ active' \in BOOLEAN
  BY RecordsOK, NotRedeemed DEF Save, Runs, Belongs, history, IInv, TypeOK
<1>2. CASE call[c].kind \in {"password", "deactivate"}
  <2>1. edits' = edits
    BY <1>2 DEF Save
  <2>2. CASE call[c].kind = "password"
    BY <1>1, <2>1, <2>2, Untouched, EndsOK DEF Save, Ends, Editing
  <2>3. CASE call[c].kind = "deactivate"
    <3>1. Goes(c, "blacklist") /\ Belongs("blacklist", call[c].kind) /\ "blacklist" \in Places \ {"done", "reset"}
      BY <2>3 DEF Save, Belongs, Places
    <3> QED BY <1>1, <2>1, <3>1, Untouched, MovesTo
  <2> QED BY <1>2, <2>2, <2>3
<1>3. CASE call[c].kind \in Editing
  <2> DEFINE r == [call[c] EXCEPT !.at = "drop"]
  <2>1. edits' = Append(edits, c) /\ call' = [call EXCEPT ![c] = r]
    BY <1>3 DEF Save, Goes, Editing
  <2>2. /\ r \in Records /\ r.at = "drop" /\ r.kind = call[c].kind /\ r.p = call[c].p /\ r.looked = call[c].looked
        /\ r.before = call[c].before /\ r.cleared = {}
    <3>1. "drop" \in Places
      BY DEF Places
    <3> QED BY <1>1, <3>1, RecordsOK, AtOK
  <2> HIDE DEF r
  <2>3. Runs(r) /\ Looked(r)
    BY <1>1, <1>3, <2>2, RecordsOK DEF Runs, Belongs, Looked
  <2>4. /\ call' \in [Calls -> Records] /\ call'[c] = r /\ \A d \in Calls \ {c} : call'[d] = call[d]
        /\ edits \in Seq(Calls) /\ edits' \in Seq(Calls)
    BY <2>1, <2>2 DEF IInv, TypeOK
  <2>5. TypeOK'
    BY <1>1, <2>4 DEF IInv, TypeOK, CountersOK, In
  <2>6. CallsOK'
    <3> SUFFICES ASSUME NEW d \in Calls PROVE Runs(call'[d]) /\ Looked(call[d])'
      BY DEF CallsOK, Runs, Belongs
    <3>1. \A e \in call'[d].before : e \in Calls /\ e # c /\ call[e].at = "done" /\ call'[d].looked \notin call[e].cleared
      BY <1>1, <2>2, <2>3, <2>4, RecordsOK DEF Looked, Records
    <3>2. Looked(call[d])'
      BY <2>4, <3>1 DEF Looked
    <3>3. Runs(call'[d])
      BY <2>3, <2>4, RecordsOK
    <3> QED BY <3>2, <3>3
  <2>7. OtpsOK'
    <3>1. ASSUME NEW d \in Calls PROVE Redeemed(d)'
      BY <1>1, <2>2, <2>4, RecordsOK DEF Redeemed, In
    <3> QED BY <1>1, <3>1 DEF IInv, OtpsOK, In
  <2>8. ProfilesOK'
    <3>1. ASSUME NEW i \in 1 .. Len(edits')
          PROVE  edits'[i] = c \/ (i \in 1 .. Len(edits) /\ edits'[i] = edits[i] /\ edits[i] \in Calls)
      BY <2>1, <2>4
    <3>2. \A i \in 1 .. Len(edits') : call'[edits'[i]].kind \in Editing
      BY <1>3, <2>2, <2>4, <3>1 DEF IInv, ProfilesOK
    <3>3. ASSUME NEW s \in Stores, In(stores, s, "profile") # NoEntry,
                 NEW i \in In(stores, s, "profile").upTo + 1 .. Len(edits')
          PROVE  s \notin call'[edits'[i]].cleared \/ edits'[i] \in In(stores, s, "profile").late
      <4>1. In(stores, s, "profile").upTo \in Nat
        BY <3>3 DEF IInv, TypeOK, Entries
      <4>2. CASE edits'[i] = c
        BY <2>2, <2>4, <4>2
      <4>3. CASE edits'[i] # c
        <5>1. i \in In(stores, s, "profile").upTo + 1 .. Len(edits) /\ edits'[i] = edits[i] /\ edits[i] \in Calls
          BY <3>1, <4>1, <4>3, <2>4
        <5>2. s \notin call[edits[i]].cleared \/ edits[i] \in In(stores, s, "profile").late
          BY <3>3, <5>1 DEF IInv, ProfilesOK, Explained
        <5> QED BY <2>4, <4>3, <5>1, <5>2
      <4> QED BY <4>2, <4>3
    <3> QED BY <1>1, <3>2, <3>3 DEF ProfilesOK, Explained, In
  <2> QED BY <2>5, <2>6, <2>7, <2>8 DEF IInv
<1> QED BY <1>1, <1>2, <1>3 DEF Fields, Editing

LEMMA FillStep == ASSUME IInv, NEW c \in Calls, FillProfile(c) PROVE IInv'
<1> DEFINE p == call[c].p
           upTo == call[c].n
           late == {d \in {edits[i] : i \in upTo + 1 .. Len(edits)} : call[d].cleared # {}}
           entry == [upTo |-> upTo, late |-> late]
<1>1. /\ call[c].at = "fill" /\ call[c].kind = "profile" /\ p \in Processes /\ upTo \in Nat
      /\ redeemed[c] = 0 /\ UNCHANGED <<up, active, edits, issued, redeemed>> /\ active' \in BOOLEAN
  BY RecordsOK, NotRedeemed DEF FillProfile, Runs, Belongs, history, IInv, TypeOK, Records
<1>2. Write(c, "profile", entry) /\ call' = [call EXCEPT ![c] = Gone]
  BY DEF FillProfile, Ends
<1>3. \A i \in upTo + 1 .. Len(edits) : edits[i] \in Calls
  BY <1>1 DEF IInv, TypeOK
<1>4. late \subseteq Calls
  BY <1>3
<1>5. \A i \in upTo + 1 .. Len(edits) : call[edits[i]].cleared = {} \/ edits[i] \in late
  OBVIOUS
<1>6. entry \in Entries /\ entry.upTo = upTo /\ entry.late = late
  BY <1>1, <1>4 DEF Entries
<1> HIDE DEF entry, late
<1>7. /\ stores' \in StoresOf(Values)
      /\ \A s \in Stores, j \in AllKeys :
           In(stores', s, j) = IF s = StoreOf(p) /\ j = "profile" THEN entry ELSE In(stores, s, j)
  <2>1. entry \in Values /\ "profile" \in AllKeys
    BY <1>6 DEF Values, AllKeys
  <2> QED BY <1>1, <1>2, <2>1, WriteEffect DEF IInv
<1>8. \A s \in Stores : /\ In(stores', s, "profile") = IF s = StoreOf(p) THEN entry ELSE In(stores, s, "profile")
                        /\ In(stores', s, "otp") = In(stores, s, "otp")
                        /\ In(stores', s, "fails") = In(stores, s, "fails")
  BY <1>7 DEF AllKeys
<1>9. /\ call' \in [Calls -> Records] /\ call'[c] = Gone /\ \A d \in Calls \ {c} : call'[d] = call[d]
      /\ edits \in Seq(Calls) /\ call[c].cleared = {}
  BY <1>1, <1>2, GoneOK, RecordsOK DEF IInv, TypeOK, Runs
<1>10. TypeOK'
  <2>1. \A s \in Stores : In(stores', s, "profile") \in {NoEntry} \cup Entries
    BY <1>6, <1>8 DEF IInv, TypeOK
  <2>2. CountersOK(stores')
    BY <1>8 DEF IInv, TypeOK, CountersOK
  <2> QED BY <1>1, <1>7, <1>9, <2>1, <2>2 DEF IInv, TypeOK, CountersOK, In
<1>11. CallsOK'
  <2> SUFFICES ASSUME NEW d \in Calls PROVE Runs(call'[d]) /\ Looked(call[d])'
    BY DEF CallsOK, Runs, Belongs
  <2>1. \A e \in call'[d].before : e \in Calls /\ e # c /\ call[e].at = "done" /\ call'[d].looked \notin call[e].cleared
    BY <1>1, <1>9, GoneOK, RecordsOK DEF Looked, Records
  <2>2. Looked(call[d])'
    BY <1>9, <2>1 DEF Looked
  <2>3. Runs(call'[d])
    BY <1>9, GoneOK, RecordsOK
  <2> QED BY <2>2, <2>3
<1>12. OtpsOK'
  <2>1. ASSUME NEW d \in Calls PROVE Redeemed(d)'
    <3>1. CASE d = c
      BY <1>1, <1>9, <3>1, GoneOK DEF Redeemed, IInv, TypeOK
    <3>2. CASE d # c
      <4>1. call'[d] = call[d] /\ Redeemed(d) /\ call[d] \in Records
        BY <1>9, <3>2, RecordsOK
      <4>2. \A s \in call[d].cleared : In(stores', s, "otp") = In(stores, s, "otp")
        BY <1>8, <4>1 DEF Records
      <4> QED BY <1>1, <4>1, <4>2 DEF Redeemed, In
    <3> QED BY <3>1, <3>2
  <2>2. \A s \in Stores : In(stores', s, "otp") \in {NoEntry} \cup 0 .. issued
    BY <1>8 DEF IInv, OtpsOK
  <2>3. redeemed \in [Calls -> Nat]
    BY DEF IInv, OtpsOK
  <2> QED BY <1>1, <2>1, <2>2, <2>3 DEF OtpsOK, In
<1>13. ProfilesOK'
  <2>1. \A i \in 1 .. Len(edits) : edits[i] \in Calls /\ edits[i] # c /\ call[edits[i]].kind \in Editing
    BY <1>1, <1>9 DEF IInv, ProfilesOK, Editing
  <2>2. \A i \in 1 .. Len(edits) : call'[edits[i]] = call[edits[i]]
    BY <1>9, <2>1
  <2>3. ASSUME NEW s \in Stores, In(stores', s, "profile") # NoEntry,
               NEW i \in In(stores', s, "profile").upTo + 1 .. Len(edits)
        PROVE  s \notin call'[edits[i]].cleared \/ edits[i] \in In(stores', s, "profile").late
    <3>1. CASE s = StoreOf(p)
      <4>1. In(stores', s, "profile") = entry /\ i \in upTo + 1 .. Len(edits) /\ i \in 1 .. Len(edits)
        BY <1>1, <1>6, <1>8, <1>9, <2>3, <3>1
      <4> QED BY <1>5, <1>6, <2>2, <4>1
    <3>2. CASE s # StoreOf(p)
      <4>1. In(stores', s, "profile") = In(stores, s, "profile") /\ In(stores, s, "profile").upTo \in Nat
        BY <1>8, <2>3, <3>2 DEF IInv, TypeOK, Entries
      <4>2. s \notin call[edits[i]].cleared \/ edits[i] \in In(stores, s, "profile").late
        BY <2>3, <4>1 DEF IInv, ProfilesOK, Explained
      <4>3. i \in 1 .. Len(edits)
        BY <1>9, <2>3, <4>1
      <4> QED BY <2>2, <4>1, <4>2, <4>3
    <3> QED BY <3>1, <3>2
  <2> QED BY <1>1, <2>1, <2>2, <2>3 DEF ProfilesOK, Explained, In
<1> QED BY <1>10, <1>11, <1>12, <1>13 DEF IInv

LEMMA SavePasswordStep == ASSUME IInv, NEW c \in Calls, SavePassword(c) PROVE IInv'
<1> DEFINE r == [call[c] EXCEPT !.at = "consume"]
<1>1. /\ call[c].at = "reset" /\ call[c].kind = "reset" /\ call[c].n \in 1 .. issued /\ call[c].cleared = {}
      /\ call[c].p \in Processes /\ redeemed' = [redeemed EXCEPT ![c] = call[c].n]
      /\ UNCHANGED <<stores, up, active, edits, issued>> /\ call' = [call EXCEPT ![c] = r]
  BY RecordsOK DEF SavePassword, Goes, Runs, Belongs, Redeemed
<1>2. /\ r \in Records /\ r.at = "consume" /\ r.kind = "reset" /\ r.p = call[c].p /\ r.looked = call[c].looked
      /\ r.before = call[c].before /\ r.cleared = {}
  <2>1. "consume" \in Places
    BY DEF Places
  <2> QED BY <1>1, <2>1, RecordsOK, AtOK
<1> HIDE DEF r
<1>3. Runs(r) /\ Looked(r)
  BY <1>1, <1>2, RecordsOK DEF Runs, Belongs, Looked
<1>4. /\ call' \in [Calls -> Records] /\ call'[c] = r /\ \A d \in Calls \ {c} : call'[d] = call[d]
      /\ edits \in Seq(Calls) /\ issued \in Nat
  BY <1>1, <1>2 DEF IInv, TypeOK
<1>5. /\ redeemed' \in [Calls -> Nat] /\ redeemed'[c] = call[c].n
      /\ \A d \in Calls \ {c} : redeemed'[d] = redeemed[d]
  <2>1. redeemed \in [Calls -> Nat] /\ call[c].n \in Nat
    BY <1>1, <1>4 DEF IInv, OtpsOK
  <2> QED BY <1>1, <2>1
<1>6. TypeOK'
  BY <1>1, <1>4 DEF IInv, TypeOK, CountersOK, In
<1>7. CallsOK'
  <2> SUFFICES ASSUME NEW d \in Calls PROVE Runs(call'[d]) /\ Looked(call[d])'
    BY DEF CallsOK, Runs, Belongs
  <2>1. \A e \in call'[d].before : e \in Calls /\ e # c /\ call[e].at = "done" /\ call'[d].looked \notin call[e].cleared
    BY <1>1, <1>2, <1>3, <1>4, RecordsOK DEF Looked, Records
  <2>2. Looked(call[d])'
    BY <1>4, <2>1 DEF Looked
  <2>3. Runs(call'[d])
    BY <1>3, <1>4, RecordsOK
  <2> QED BY <2>2, <2>3
<1>8. OtpsOK'
  <2>1. ASSUME NEW d \in Calls PROVE Redeemed(d)'
    <3>1. CASE d = c
      BY <1>1, <1>2, <1>4, <1>5, <3>1 DEF Redeemed
    <3>2. CASE d # c
      BY <1>1, <1>4, <1>5, <3>2, RecordsOK DEF Redeemed, In
    <3> QED BY <3>1, <3>2
  <2> QED BY <1>1, <1>5, <2>1 DEF IInv, OtpsOK, In
<1>9. ProfilesOK'
  <2>1. \A i \in 1 .. Len(edits) : edits[i] \in Calls /\ edits[i] # c /\ call[edits[i]].kind \in Editing
    BY <1>1, <1>4 DEF IInv, ProfilesOK, Editing
  <2>2. \A i \in 1 .. Len(edits) : call'[edits[i]] = call[edits[i]]
    BY <1>4, <2>1
  <2>3. ASSUME NEW s \in Stores, In(stores, s, "profile") # NoEntry,
               NEW i \in In(stores, s, "profile").upTo + 1 .. Len(edits)
        PROVE  s \notin call'[edits[i]].cleared \/ edits[i] \in In(stores, s, "profile").late
    <3>1. i \in 1 .. Len(edits)
      BY <1>4, <2>3 DEF IInv, TypeOK, Entries
    <3>2. s \notin call[edits[i]].cleared \/ edits[i] \in In(stores, s, "profile").late
      BY <2>3 DEF IInv, ProfilesOK, Explained
    <3> QED BY <2>2, <3>1, <3>2
  <2> QED BY <1>1, <2>1, <2>2, <2>3 DEF ProfilesOK, Explained, In
<1> QED BY <1>6, <1>7, <1>8, <1>9 DEF IInv

LEMMA ForgotStep == ASSUME IInv, ForgotPassword PROVE IInv'
<1>1. PICK p \in Processes : stores' = SetCache(stores, p, "otp", issued + 1, up[p])
  BY DEF ForgotPassword
<1>2. /\ issued' = issued + 1 /\ issued \in Nat
      /\ UNCHANGED <<up, call, active, edits, redeemed>>
  BY DEF ForgotPassword, history, IInv, TypeOK
<1>3. /\ stores' \in StoresOf(Values)
      /\ \A s \in Stores, j \in AllKeys :
           In(stores', s, j) = IF s = StoreOf(p) /\ j = "otp" THEN issued + 1 ELSE In(stores, s, j)
  <2>1. stores \in StoresOf(Values) /\ up[p] \in BOOLEAN
    BY DEF IInv, TypeOK
  <2>2. issued + 1 \in Nat
    BY <1>2
  <2>3. issued + 1 \in Values /\ "otp" \in AllKeys
    BY <2>2 DEF Values, AllKeys
  <2> QED BY <1>1, <2>1, <2>3, SetEffect DEF StoreOf
<1>4. \A s \in Stores : /\ In(stores', s, "profile") = In(stores, s, "profile")
                        /\ In(stores', s, "fails") = In(stores, s, "fails")
                        /\ In(stores', s, "otp") \in {issued + 1, In(stores, s, "otp")}
  BY <1>3 DEF AllKeys
<1>5. TypeOK'
  BY <1>2, <1>3, <1>4 DEF IInv, TypeOK, CountersOK, In
<1>6. CallsOK'
  BY <1>2 DEF IInv, CallsOK, Looked, Runs, Belongs
<1>7. OtpsOK'
  <2>1. ASSUME NEW d \in Calls PROVE Redeemed(d)'
    <3>1. \A s \in call[d].cleared : s \in Stores
      BY RecordsOK DEF Records
    <3>2. redeemed[d] \in 0 .. issued /\ redeemed[d] # issued + 1
      BY <1>2, RecordsOK DEF Redeemed
    <3>3. redeemed[d] \in 0 .. issued'
      BY <1>2, <3>2
    <3>4. call[d].at = "reset" => call[d].n \in 1 .. issued'
      BY <1>2, RecordsOK DEF Redeemed
    <3>5. redeemed[d] # 0 =>
            call[d].at \in {"consume", "done"} /\ \A s \in call[d].cleared : In(stores', s, "otp") # redeemed[d]
      BY <1>4, <3>1, <3>2, RecordsOK DEF Redeemed
    <3> QED BY <1>2, <3>3, <3>4, <3>5 DEF Redeemed, In
  <2>2. \A s \in Stores : In(stores', s, "otp") \in {NoEntry} \cup 0 .. issued'
    BY <1>2, <1>4 DEF IInv, OtpsOK
  <2> QED BY <1>2, <2>1, <2>2 DEF IInv, OtpsOK, In
<1>8. ProfilesOK'
  BY <1>2, <1>4 DEF IInv, ProfilesOK, Explained, In
<1> QED BY <1>5, <1>6, <1>7, <1>8 DEF IInv

(* Redis, expiries and rest: the calls stay, and no store gains anything.  *)
LEMMA QuietStep ==
  ASSUME IInv, up' \in [Processes -> BOOLEAN], stores' \in StoresOf(Values), CountersOK(stores'), Fewer,
         UNCHANGED <<call, active, edits, issued, redeemed>>
  PROVE  IInv'
<1>1. TypeOK'
  BY DEF IInv, TypeOK, Fewer, CountersOK, In
<1>2. CallsOK'
  BY DEF IInv, CallsOK, Looked, Runs, Belongs
<1>3. OtpsOK'
  <2>1. ASSUME NEW d \in Calls PROVE Redeemed(d)'
    <3>1. \A s \in call[d].cleared : s \in Stores
      BY RecordsOK DEF Records
    <3>2. redeemed[d] # NoEntry
      BY NamesAssumption DEF IInv, OtpsOK
    <3>3. redeemed[d] # 0 => \A s \in call[d].cleared : In(stores', s, "otp") # redeemed[d]
      BY <3>1, <3>2, RecordsOK DEF Redeemed, Fewer
    <3> QED BY <3>3, RecordsOK DEF Redeemed, In
  <2>2. \A s \in Stores : In(stores', s, "otp") \in {NoEntry} \cup 0 .. issued
    BY DEF IInv, OtpsOK, Fewer
  <2> QED BY <2>1, <2>2 DEF IInv, OtpsOK, In
<1>4. ProfilesOK'
  BY DEF IInv, ProfilesOK, Explained, Fewer, In
<1> QED BY <1>1, <1>2, <1>3, <1>4 DEF IInv

LEMMA ExpireStep == ASSUME IInv, Expire PROVE IInv'
<1>1. PICK k \in {"fails", "locked"} : stores' \in Expired(stores, k)
  BY DEF Expire
<1>2. UNCHANGED <<up, call, active, edits, issued, redeemed>> /\ up \in [Processes -> BOOLEAN]
  BY DEF Expire, IInv, TypeOK
<1>3. stores \in StoresOf(Values) /\ NoEntry \in Values /\ k \in AllKeys
  BY DEF IInv, TypeOK, Values, AllKeys
<1>4. /\ stores' \in StoresOf(Values)
      /\ \A s \in Stores, j \in AllKeys : In(stores', s, j) \in {In(stores, s, j), NoEntry} /\ (j # k => In(stores', s, j) = In(stores, s, j))
  <2>1. CASE stores' = [stores EXCEPT !.redis[k] = NoEntry]
    <3>1. stores' \in StoresOf(Values)
      BY <1>3, <2>1 DEF StoresOf
    <3>2. \A s \in Stores, j \in AllKeys :
            In(stores', s, j) = IF s = "redis" /\ j = k THEN NoEntry ELSE In(stores, s, j)
      BY <1>3, <2>1, NamesAssumption DEF In, Stores, StoresOf
    <3> QED BY <3>1, <3>2
  <2>2. ASSUME NEW p \in Processes, stores' = [stores EXCEPT !.memory[p][k] = NoEntry]
        PROVE  /\ stores' \in StoresOf(Values)
               /\ \A s \in Stores, j \in AllKeys :
                    In(stores', s, j) = IF s = p /\ j = k THEN NoEntry ELSE In(stores, s, j)
    <3>1. stores' \in StoresOf(Values)
      BY <1>3, <2>2 DEF StoresOf
    <3>2. \A s \in Stores, j \in AllKeys :
            In(stores', s, j) = IF s = p /\ j = k THEN NoEntry ELSE In(stores, s, j)
      BY <1>3, <2>2, NamesAssumption DEF In, Stores, StoresOf
    <3> QED BY <3>1, <3>2
  <2> QED BY <1>1, <2>1, <2>2 DEF Expired
<1>5. CountersOK(stores') /\ Fewer
  BY <1>3, <1>4 DEF IInv, TypeOK, CountersOK, Fewer, AllKeys
<1> QED BY <1>2, <1>4, <1>5, QuietStep

LEMMA CrashStep == ASSUME IInv, Crash PROVE IInv'
<1> DEFINE keeps(c) == c \in Range(edits) \/ redeemed[c] # 0
           after(p, c) == IF call[c].p # p THEN call[c] ELSE IF keeps(c) THEN Over(call[c]) ELSE Gone
<1>1. PICK p \in Processes : stores' = Restarted(stores, p) /\ call' = [c \in Calls |-> after(p, c)]
  BY DEF Crash
<1>2. UNCHANGED <<up, active, edits, issued, redeemed>> /\ edits \in Seq(Calls)
  BY DEF Crash, IInv, TypeOK
<1>3. /\ stores' \in StoresOf(Values)
      /\ \A s \in Stores, j \in AllKeys :
           In(stores', s, j) = IF s = p THEN NoEntry ELSE In(stores, s, j)
  <2>1. stores \in StoresOf(Values) /\ NoEntry \in Values
    BY DEF IInv, TypeOK, Values
  <2> QED BY <1>1, <2>1, RestartEffect
<1>4. Fewer /\ CountersOK(stores')
  BY <1>3 DEF Fewer, CountersOK, IInv, TypeOK, AllKeys
<1>5. ASSUME NEW c \in Calls
      PROVE  /\ call'[c] \in Records /\ Runs(call'[c])
             /\ call'[c].before = {} \/ (call'[c].before = call[c].before /\ call'[c].looked = call[c].looked)
             /\ call'[c].cleared \subseteq call[c].cleared
             /\ call[c].at = "done" => call'[c] = call[c]
             /\ call'[c] = call[c] \/ call'[c].at = "done"
             /\ keeps(c) => call'[c].kind = call[c].kind
  <2>1. call[c] \in Records /\ Runs(call[c]) /\ call'[c] = after(p, c)
    BY <1>1, RecordsOK
  <2>2. CASE call[c].p # p
    <3>1. call'[c] = call[c]
      BY <2>1, <2>2
    <3> QED BY <2>1, <3>1
  <2>3. CASE call[c].p = p
    <3>1. call[c].at # "done"
      BY <2>1, <2>3, NamesAssumption DEF Runs
    <3>2. CASE keeps(c)
      <4>1. call'[c] = Over(call[c])
        BY <2>1, <2>3, <3>2
      <4>2. /\ Over(call[c]) \in Records /\ Over(call[c]).at = "done" /\ Over(call[c]).kind = call[c].kind
            /\ Over(call[c]).p = "nobody" /\ Over(call[c]).looked = call[c].looked
            /\ Over(call[c]).before = call[c].before /\ Over(call[c]).cleared = call[c].cleared
        BY <2>1, OverOK
      <4> QED BY <3>1, <4>1, <4>2 DEF Runs, Belongs
    <3>3. CASE ~keeps(c)
      <4>1. call'[c] = Gone
        BY <2>1, <2>3, <3>3
      <4> HIDE DEF keeps
      <4> QED BY <3>1, <3>3, <4>1, GoneOK
    <3> QED BY <3>2, <3>3
  <2> QED BY <2>2, <2>3
<1>6. call' \in [Calls -> Records]
  BY <1>1, <1>5
<1>7. TypeOK'
  BY <1>2, <1>3, <1>4, <1>6 DEF IInv, TypeOK, Fewer, CountersOK, In
<1>8. CallsOK'
  <2> SUFFICES ASSUME NEW c \in Calls PROVE Runs(call'[c]) /\ Looked(call[c])'
    BY DEF CallsOK, Runs, Belongs
  <2>1. ASSUME NEW d \in call'[c].before PROVE call'[d].at = "done" /\ call'[c].looked \notin call'[d].cleared
    <3>1. d \in call[c].before /\ call'[c].looked = call[c].looked /\ d \in Calls
      BY <1>5, RecordsOK DEF Records
    <3>2. call[d].at = "done" /\ call[c].looked \notin call[d].cleared
      BY <3>1, RecordsOK DEF Looked
    <3> QED BY <1>5, <3>1, <3>2
  <2> QED BY <1>5, <2>1 DEF Looked
<1>9. OtpsOK'
  <2>1. ASSUME NEW c \in Calls PROVE Redeemed(c)'
    <3>1. \A s \in call'[c].cleared : s \in call[c].cleared /\ s \in Stores
      BY <1>5, RecordsOK DEF Records
    <3>2. redeemed[c] # NoEntry
      BY NamesAssumption DEF IInv, OtpsOK
    <3>3. redeemed[c] # 0 =>
            /\ call'[c].at \in {"consume", "done"}
            /\ \A s \in call'[c].cleared : In(stores', s, "otp") # redeemed[c]
      BY <1>4, <1>5, <3>1, <3>2, RecordsOK DEF Redeemed, Fewer
    <3>4. call'[c].at = "reset" => call'[c].n \in 1 .. issued
      BY <1>5, RecordsOK DEF Redeemed
    <3>5. redeemed[c] \in 0 .. issued
      BY RecordsOK DEF Redeemed
    <3> QED BY <1>2, <3>3, <3>4, <3>5 DEF Redeemed, In
  <2>2. \A s \in Stores : In(stores', s, "otp") \in {NoEntry} \cup 0 .. issued
    BY <1>4 DEF IInv, OtpsOK, Fewer
  <2> QED BY <1>2, <2>1, <2>2 DEF IInv, OtpsOK, In
<1>10. ProfilesOK'
  <2>1. \A i \in 1 .. Len(edits) : edits[i] \in Calls /\ keeps(edits[i])
    BY <1>2 DEF Range
  <2> HIDE DEF keeps
  <2>2. \A i \in 1 .. Len(edits) : call'[edits[i]].kind \in Editing
    BY <1>5, <2>1 DEF IInv, ProfilesOK
  <2>3. ASSUME NEW s \in Stores, In(stores', s, "profile") # NoEntry,
               NEW i \in In(stores', s, "profile").upTo + 1 .. Len(edits)
        PROVE  s \notin call'[edits[i]].cleared \/ edits[i] \in In(stores', s, "profile").late
    <3>1. In(stores', s, "profile") = In(stores, s, "profile") /\ In(stores, s, "profile").upTo \in Nat
      BY <1>4, <2>3 DEF Fewer, IInv, TypeOK, Entries
    <3>2. s \notin call[edits[i]].cleared \/ edits[i] \in In(stores, s, "profile").late
      BY <2>3, <3>1 DEF IInv, ProfilesOK, Explained
    <3>3. edits[i] \in Calls
      BY <2>1, <3>1
    <3> QED BY <1>5, <3>1, <3>2, <3>3
  <2> QED BY <1>2, <2>2, <2>3 DEF ProfilesOK, Explained, In
<1> QED BY <1>7, <1>8, <1>9, <1>10 DEF IInv

LEMMA NextIInv == IInv /\ [Next]_vars => IInv'
<1> SUFFICES ASSUME IInv, [Next]_vars PROVE IInv'
  OBVIOUS
<1>1. ASSUME NEW c \in Calls, Step(c) PROVE IInv'
  BY <1>1, ProtectStep, LoadStep, SaveStep, BlacklistStep, DropProfileStep, ReadStep, FillStep,
     CheckLockStep, WrongStep, CountStep, LockStep, DropFailsStep, ClearFailsStep, ClearLockStep,
     CheckOtpStep, SavePasswordStep, ConsumeStep DEF Step
<1>2. up \in [Processes -> BOOLEAN]
  BY DEF IInv, TypeOK
<1>3. CASE RedisChanges
  <2>1. PICK p \in Processes : up' = [up EXCEPT ![p] = ~@]
    BY <1>3 DEF RedisChanges
  <2>2. up' \in [Processes -> BOOLEAN]
    BY <1>2, <2>1
  <2>3. UNCHANGED <<stores, call, active, edits, issued, redeemed>>
    BY <1>3 DEF RedisChanges, history
  <2> QED BY <2>2, <2>3, Untouched, QuietStep
<1>4. CASE UNCHANGED vars
  BY <1>2, <1>4, Untouched, QuietStep DEF vars, history
<1> QED BY <1>1, <1>3, <1>4, ForgotStep, CrashStep, ExpireStep DEF Next, Rest

-------------------------------------------------------------------------------
(* LockoutIsExact, store by store and verification by verification.        *)
Counter(s) == IF In(stores, s, "fails") = NoEntry THEN 0 ELSE In(stores, s, "fails")
Locked(s) == In(stores, s, "locked") # NoEntry

AtRest(s) ==
  \/ Locked(s) /\ Counter(s) = 0 /\ wrong = MpinMaxAttempts
  \/ ~Locked(s) /\ Counter(s) = wrong /\ wrong < MpinMaxAttempts

(* What c has found in s so far, and what is there.                        *)
Midway(c, s) ==
  /\ call[c].at = "compare" => ~Locked(s) /\ Counter(s) = wrong /\ wrong < MpinMaxAttempts
  /\ call[c].at = "count" =>
       ~Locked(s) /\ call[c].n = wrong /\ Counter(s) + 1 = wrong /\ wrong =< MpinMaxAttempts
  /\ call[c].at = "lock" => ~Locked(s) /\ Counter(s) = wrong /\ wrong = MpinMaxAttempts
  /\ call[c].at = "unfail" => Locked(s) /\ wrong = MpinMaxAttempts
  /\ call[c].at = "open" => Counter(s) = 0 /\ wrong = 0

(* Nothing is counted or locked where nobody has been.                     *)
Traces ==
  /\ used \subseteq Stores \cup {"lost"}
  /\ "lost" \in used => \E p \in Processes : p \in used
  /\ \A s \in Stores : Counter(s) # 0 \/ Locked(s) => s \in used
  /\ \A s \in Stores : In(stores, s, "fails") # 0
  /\ \A c \in Calls : call[c].at = "count" => call[c].n # 0
  /\ wrong \in Nat

Counts ==
  ~lapped =>
    /\ \A c, d \in Calls : Trying(c) /\ Trying(d) => c = d
    /\ \A s \in Stores : used \subseteq {s} =>
         /\ \A c \in Calls : Trying(c) => Midway(c, s)
         /\ (\A c \in Calls : ~Trying(c)) => AtRest(s)

LockInv == Traces /\ Counts

LEMMA InitLockInv == Init => LockInv
<1> SUFFICES ASSUME Init PROVE LockInv
  OBVIOUS
<1>1. /\ \A s \in Stores, k \in AllKeys : In(EmptyStores, s, k) = NoEntry
      /\ stores = EmptyStores /\ wrong = 0 /\ used = {} /\ \A c \in Calls : call[c] = Fresh
  BY NamesAssumption DEF Init, EmptyStores, In, Stores, AllKeys
<1>2. \A s \in Stores : Counter(s) = 0 /\ ~Locked(s) /\ In(stores, s, "fails") # 0
  BY <1>1, NamesAssumption DEF Counter, Locked, AllKeys
<1>3. \A c \in Calls : ~Trying(c) /\ call[c].at # "count"
  BY <1>1, FreshOK DEF Trying
<1>4. Traces
  BY <1>1, <1>2, <1>3 DEF Traces
<1>5. Counts
  BY <1>1, <1>2, <1>3, AttemptsAssumption DEF Counts, AtRest
<1> QED BY <1>4, <1>5 DEF LockInv

(* Steps that are no part of a verification.                               *)
LEMMA Aside ==
  ASSUME LockInv, UNCHANGED <<wrong, used, lapped>>,
         \A s \in Stores : /\ In(stores', s, "fails") = In(stores, s, "fails")
                           /\ In(stores', s, "locked") = In(stores, s, "locked"),
         \A c \in Calls : call'[c] = call[c] \/ (~Trying(c) /\ ~Trying(c)')
  PROVE  LockInv'
<1>1. \A s \in Stores : Counter(s)' = Counter(s) /\ Locked(s)' = Locked(s) /\ AtRest(s)' = AtRest(s)
  BY DEF Counter, Locked, AtRest, In
<1>2. \A c \in Calls : Trying(c)' = Trying(c) /\ (Trying(c) => call'[c] = call[c])
  BY DEF Trying
<1>3. \A c \in Calls : call'[c].at = "count" => call[c].at = "count" /\ call'[c].n = call[c].n
  BY <1>2 DEF Trying
<1>4. Traces'
  BY <1>1, <1>3 DEF LockInv, Traces, In, Counter, Locked
<1>5. \A s \in Stores, c \in Calls : Trying(c) /\ Midway(c, s) => Midway(c, s)'
  BY <1>1, <1>2 DEF Midway
<1>6. Counts'
  BY <1>1, <1>2, <1>5 DEF LockInv, Counts
<1> QED BY <1>4, <1>6 DEF LockInv

(* A step of the verification c, in the store s0.                          *)
LEMMA Tries ==
  ASSUME LockInv, NEW c \in Calls, NEW s0 \in Stores, used' = used \cup {s0},
         \A d \in Calls \ {c} : call'[d] = call[d],
         call'[c].at = "count" => call'[c].n # 0,
         wrong' \in Nat,
         \A s \in Stores : In(stores', s, "fails") # 0,
         \A s \in Stores \ {s0} : (Counter(s)' # 0 => Counter(s) # 0) /\ (Locked(s)' => Locked(s)),
         ~lapped' => ~lapped /\ ~SomeoneElseTries(c),
         ~lapped' /\ used \subseteq {s0} => (Trying(c)' => Midway(c, s0)') /\ (~Trying(c)' => AtRest(s0)')
  PROVE  LockInv'
<1>1. Traces'
  <2>1. used' \subseteq Stores \cup {"lost"} /\ ("lost" \in used' => \E p \in Processes : p \in used')
    BY NamesAssumption DEF LockInv, Traces, Stores
  <2>2. \A s \in Stores : Counter(s)' # 0 \/ Locked(s)' => s \in used'
    BY DEF LockInv, Traces
  <2>3. \A d \in Calls : call'[d].at = "count" => call'[d].n # 0
    BY DEF LockInv, Traces
  <2> QED BY <2>1, <2>2, <2>3 DEF Traces, In, Counter, Locked
<1>2. Counts'
  <2> SUFFICES ASSUME ~lapped'
               PROVE  /\ \A d, e \in Calls : Trying(d)' /\ Trying(e)' => d = e
                      /\ \A s \in Stores : used' \subseteq {s} =>
                           /\ \A d \in Calls : Trying(d)' => Midway(d, s)'
                           /\ (\A d \in Calls : ~Trying(d)') => AtRest(s)'
    BY DEF Counts
  <2>1. \A d \in Calls : Trying(d)' => d = c
    BY DEF SomeoneElseTries, Trying
  <2>2. ASSUME NEW s \in Stores, used' \subseteq {s} PROVE s = s0 /\ used \subseteq {s0}
    BY <2>2
  <2> QED BY <2>1, <2>2
<1> QED BY <1>1, <1>2 DEF LockInv

(* ... which finds the store as the rules say, while none has lapped.      *)
LEMMA Before ==
  ASSUME LockInv, NEW c \in Calls, NEW s \in Stores, ~lapped, used \subseteq {s}
  PROVE  /\ Trying(c) => Midway(c, s) /\ ~SomeoneElseTries(c)
         /\ ~Trying(c) /\ ~SomeoneElseTries(c) => AtRest(s)
  BY DEF LockInv, Counts, SomeoneElseTries

LEMMA NoOneElse ==
  ASSUME LockInv, NEW c \in Calls, ~lapped, Trying(c)
  PROVE  ~SomeoneElseTries(c)
  BY DEF LockInv, Counts, SomeoneElseTries

LEMMA Running ==
  ASSUME IInv, NEW c \in Calls, call[c].at \notin {"idle", "done"}
  PROVE  /\ call[c].p \in Processes /\ StoreOf(call[c].p) \in Stores /\ StoreOf(call[c].p) \in Cleared(c)
         /\ Cleared(c) \subseteq Stores /\ up[call[c].p] \in BOOLEAN
         /\ \A k : Read(c, k) = In(stores, StoreOf(call[c].p), k)
<1>1. call[c].p \in Processes /\ up[call[c].p] \in BOOLEAN
  BY RecordsOK DEF IInv, TypeOK
<1>2. \A k : Read(c, k) = In(stores, StoreOf(call[c].p), k)
  BY <1>1, GetFinds DEF Read, StoreOf
<1> QED BY <1>1, <1>2 DEF StoreOf, Stores, Cleared

LEMMA CounterIsNat == ASSUME IInv, NEW s \in Stores PROVE Counter(s) \in Nat
  BY DEF IInv, TypeOK, CountersOK, Counter

LEMMA CheckLockCounts == ASSUME IInv, LockInv, NEW c \in Calls, CheckLock(c) PROVE LockInv'
<1>0. PICK s0 \in Stores : s0 = StoreOf(call[c].p)
  BY Running DEF CheckLock
<1>1. /\ call[c].at = "lock?" /\ s0 \in Stores /\ used' = used \cup {s0}
      /\ stores' = stores /\ wrong' = wrong /\ lapped' = (lapped \/ SomeoneElseTries(c)) /\ ~Trying(c)
      /\ Read(c, "locked") = In(stores, s0, "locked")
  BY <1>0, Running DEF CheckLock, Trying
<1>2. /\ \A d \in Calls \ {c} : call'[d] = call[d]
      /\ call'[c].at = IF Locked(s0) THEN "done" ELSE "compare"
  <2>1. CASE Locked(s0)
    BY <1>1, <2>1, GoneOK DEF CheckLock, Locked, Ends, IInv, TypeOK
  <2>2. CASE ~Locked(s0)
    BY <1>1, <2>2, RecordsOK DEF CheckLock, Locked, Goes, IInv, TypeOK, Records
  <2> QED BY <2>1, <2>2
<1>3. /\ \A s \in Stores : Counter(s)' = Counter(s) /\ Locked(s)' = Locked(s) /\ AtRest(s)' = AtRest(s)
      /\ \A s \in Stores : In(stores', s, "fails") # 0
  BY <1>1 DEF Counter, Locked, AtRest, In, LockInv, Traces
<1>4. ASSUME ~lapped', used \subseteq {s0}
      PROVE  (Trying(c)' => Midway(c, s0)') /\ (~Trying(c)' => AtRest(s0)')
  <2>1. AtRest(s0)
    BY <1>1, <1>4, Before
  <2> QED BY <1>1, <1>2, <1>3, <2>1 DEF Trying, Midway, AtRest
<1> QED BY <1>1, <1>2, <1>3, <1>4, Tries DEF LockInv, Traces

LEMMA WrongCounts == ASSUME IInv, LockInv, NEW c \in Calls, MpinWrong(c) PROVE LockInv'
<1>0. PICK s0 \in Stores, n \in Nat : s0 = StoreOf(call[c].p) /\ n = Counter(s0) + 1
  BY Running, CounterIsNat DEF MpinWrong
<1>1. /\ call[c].at = "compare" /\ s0 \in Stores /\ used' = used \cup {s0} /\ Trying(c)
      /\ stores' = stores /\ wrong' = wrong + 1 /\ lapped' = lapped
      /\ Read(c, "fails") = In(stores, s0, "fails")
  BY <1>0, Running DEF MpinWrong, Trying
<1>2. Counter(s0) \in Nat /\ wrong \in Nat
  BY <1>1, CounterIsNat DEF LockInv, Traces
<1>3. call' = [call EXCEPT ![c] = [call[c] EXCEPT !.at = "count", !.n = n]]
  BY <1>0, <1>1 DEF MpinWrong, Counter
<1>4. call[c] \in Records
  BY RecordsOK
<1>5. [call[c] EXCEPT !.at = "count", !.n = n].at = "count" /\ [call[c] EXCEPT !.at = "count", !.n = n].n = n
  BY <1>4 DEF Records
<1>6. call'[c].at = "count" /\ call'[c].n = n /\ \A d \in Calls \ {c} : call'[d] = call[d]
  BY <1>3, <1>5 DEF IInv, TypeOK
<1>7. /\ \A s \in Stores : Counter(s)' = Counter(s) /\ Locked(s)' = Locked(s)
      /\ \A s \in Stores : In(stores', s, "fails") # 0
  BY <1>1 DEF Counter, Locked, In, LockInv, Traces
<1>9. ASSUME ~lapped', used \subseteq {s0}
      PROVE  Trying(c)' /\ Midway(c, s0)'
  <2>1. ~Locked(s0) /\ Counter(s0) = wrong /\ wrong < MpinMaxAttempts
    BY <1>1, <1>9, Before DEF Midway
  <2>2. n = wrong' /\ Counter(s0)' + 1 = wrong' /\ wrong' =< MpinMaxAttempts
    BY <1>1, <1>2, <1>7, <1>0, <2>1, AttemptsAssumption
  <2> QED BY <1>6, <1>7, <2>1, <2>2, <1>1 DEF Trying, Midway
<1>10. ~lapped' => ~lapped /\ ~SomeoneElseTries(c)
  BY <1>1, NoOneElse
<1>11. n # 0 /\ wrong' \in Nat
  BY <1>1, <1>2, <1>0
<1> QED BY <1>1, <1>6, <1>7, <1>9, <1>10, <1>11, Tries

LEMMA CountCounts == ASSUME IInv, LockInv, NEW c \in Calls, RecordFailure(c) PROVE LockInv'
<1>0. PICK s0 \in Stores, n \in Nat : s0 = StoreOf(call[c].p) /\ n = call[c].n
  BY RecordsOK, Running DEF RecordFailure, Records
<1>1. /\ call[c].at = "count" /\ s0 \in Stores /\ used' = used \cup {s0} /\ Trying(c)
      /\ wrong' = wrong /\ lapped' = lapped /\ n \in Nat /\ n # 0 /\ wrong \in Nat
  BY <1>0, Running, RecordsOK DEF RecordFailure, Trying, Records, LockInv, Traces
<1>2. \A s \in Stores, j \in AllKeys :
        In(stores', s, j) = IF s = s0 /\ j = "fails" THEN n ELSE In(stores, s, j)
  <2>1. "fails" \in AllKeys /\ n \in Values /\ Write(c, "fails", n)
    BY <1>0, <1>1 DEF RecordFailure, AllKeys, Values
  <2> QED BY <1>1, <2>1, Running, <1>0, WriteEffect DEF IInv
<1>3. /\ \A s \in Stores : In(stores', s, "fails") = IF s = s0 THEN n ELSE In(stores, s, "fails")
      /\ \A s \in Stores : In(stores', s, "locked") = In(stores, s, "locked")
  BY <1>2 DEF AllKeys
<1>4. /\ call'[c].at = IF n >= MpinMaxAttempts THEN "lock" ELSE "done"
      /\ \A d \in Calls \ {c} : call'[d] = call[d]
  <2>1. CASE Locks(n)
    BY <1>0, <1>1, <2>1, RecordsOK DEF RecordFailure, Goes, IInv, TypeOK, Records, Locks
  <2>2. CASE ~Locks(n)
    BY <1>0, <1>1, <2>2, GoneOK DEF RecordFailure, Ends, IInv, TypeOK, Locks
  <2> QED BY <2>1, <2>2
<1>5. /\ \A s \in Stores : Counter(s)' = (IF s = s0 THEN n ELSE Counter(s)) /\ Locked(s)' = Locked(s)
      /\ \A s \in Stores : In(stores', s, "fails") # 0
  BY <1>1, <1>3, NamesAssumption DEF Counter, Locked, LockInv, Traces, In
<1>6. ASSUME ~lapped', used \subseteq {s0}
      PROVE  (Trying(c)' => Midway(c, s0)') /\ (~Trying(c)' => AtRest(s0)')
  <2>1. ~Locked(s0) /\ n = wrong /\ wrong =< MpinMaxAttempts
    BY <1>0, <1>1, <1>6, Before DEF Midway
  <2>2. n >= MpinMaxAttempts => wrong = MpinMaxAttempts
    BY <1>1, <2>1, AttemptsAssumption
  <2>3. ~(n >= MpinMaxAttempts) => wrong < MpinMaxAttempts
    BY <1>1, <2>1, AttemptsAssumption
  <2> QED BY <1>1, <1>4, <1>5, <2>1, <2>2, <2>3 DEF Trying, Midway, AtRest
<1>7. ~lapped' => ~lapped /\ ~SomeoneElseTries(c)
  BY <1>1, NoOneElse
<1> QED BY <1>1, <1>4, <1>5, <1>6, <1>7, Tries

LEMMA LockCounts == ASSUME IInv, LockInv, NEW c \in Calls, LockAccount(c) PROVE LockInv'
<1>0. PICK s0 \in Stores : s0 = StoreOf(call[c].p)
  BY Running DEF LockAccount
<1>1. /\ call[c].at = "lock" /\ s0 \in Stores /\ used' = used \cup {s0} /\ Trying(c)
      /\ wrong' = wrong /\ lapped' = lapped /\ wrong \in Nat
  BY <1>0, Running DEF LockAccount, Trying, LockInv, Traces
<1>2. \A s \in Stores, j \in AllKeys :
        In(stores', s, j) = IF s = s0 /\ j = "locked" THEN "yes" ELSE In(stores, s, j)
  <2>1. "locked" \in AllKeys /\ "yes" \in Values /\ Write(c, "locked", "yes")
    BY DEF LockAccount, AllKeys, Values
  <2> QED BY <1>1, <2>1, Running, <1>0, WriteEffect DEF IInv
<1>3. /\ \A s \in Stores : In(stores', s, "fails") = In(stores, s, "fails")
      /\ \A s \in Stores : In(stores', s, "locked") = IF s = s0 THEN "yes" ELSE In(stores, s, "locked")
  BY <1>2 DEF AllKeys
<1>4. call'[c].at = "unfail" /\ \A d \in Calls \ {c} : call'[d] = call[d]
  BY RecordsOK DEF LockAccount, Goes, IInv, TypeOK, Records
<1>5. /\ \A s \in Stores : Counter(s)' = Counter(s) /\ In(stores', s, "fails") # 0
      /\ \A s \in Stores \ {s0} : Locked(s)' = Locked(s)
      /\ Locked(s0)'
  BY <1>1, <1>3, NamesAssumption DEF Counter, Locked, LockInv, Traces, In
<1>6. ASSUME ~lapped', used \subseteq {s0} PROVE Trying(c)' /\ Midway(c, s0)'
  <2>1. wrong = MpinMaxAttempts
    BY <1>1, <1>6, Before DEF Midway
  <2> QED BY <1>1, <1>4, <1>5, <2>1 DEF Trying, Midway
<1>7. ~lapped' => ~lapped /\ ~SomeoneElseTries(c)
  BY <1>1, NoOneElse
<1> QED BY <1>1, <1>4, <1>5, <1>6, <1>7, Tries

LEMMA DropFailsCounts == ASSUME IInv, LockInv, NEW c \in Calls, DropFails(c) PROVE LockInv'
<1>0. PICK s0 \in Stores : s0 = StoreOf(call[c].p)
  BY Running DEF DropFails
<1>1. /\ call[c].at = "unfail" /\ used' = used \cup {s0} /\ Trying(c) /\ s0 \in Cleared(c)
      /\ wrong' = wrong /\ lapped' = lapped /\ wrong \in Nat
  BY <1>0, Running DEF DropFails, Trying, LockInv, Traces
<1>2. \A s \in Stores, j \in AllKeys :
        In(stores', s, j) = IF j \in {"fails"} /\ s \in Cleared(c) THEN NoEntry ELSE In(stores, s, j)
  <2>1. Delete(c, {"fails"})
    BY DEF DropFails
  <2> QED BY <1>1, <2>1, Running, DropEffect DEF IInv
<1>3. /\ \A s \in Stores : In(stores', s, "fails") = IF s \in Cleared(c) THEN NoEntry ELSE In(stores, s, "fails")
      /\ \A s \in Stores : In(stores', s, "locked") = In(stores, s, "locked")
  BY <1>2 DEF AllKeys
<1>4. call'[c].at = "done" /\ \A d \in Calls \ {c} : call'[d] = call[d]
  BY GoneOK DEF DropFails, Ends, IInv, TypeOK
<1>5. /\ \A s \in Stores : /\ Counter(s)' # 0 => Counter(s) # 0
                           /\ In(stores', s, "fails") # 0 /\ Locked(s)' = Locked(s)
      /\ Counter(s0)' = 0
  BY <1>1, <1>3, NamesAssumption DEF Counter, Locked, LockInv, Traces, In
<1>6. ASSUME ~lapped', used \subseteq {s0} PROVE ~Trying(c)' /\ AtRest(s0)'
  <2>1. Locked(s0) /\ wrong = MpinMaxAttempts
    BY <1>1, <1>6, Before DEF Midway
  <2> QED BY <1>1, <1>4, <1>5, <2>1 DEF Trying, AtRest
<1>7. ~lapped' => ~lapped /\ ~SomeoneElseTries(c)
  BY <1>1, NoOneElse
<1> QED BY <1>1, <1>4, <1>5, <1>6, <1>7, Tries

LEMMA ClearFailsCounts == ASSUME IInv, LockInv, NEW c \in Calls, ClearFails(c) PROVE LockInv'
<1>0. PICK s0 \in Stores : s0 = StoreOf(call[c].p)
  BY Running DEF ClearFails
<1>1. /\ call[c].at \in {"compare", "unlock"} /\ used' = used \cup {s0} /\ s0 \in Cleared(c)
      /\ wrong' = 0 /\ lapped' = (lapped \/ SomeoneElseTries(c))
  BY <1>0, Running DEF ClearFails
<1>2. \A s \in Stores, j \in AllKeys :
        In(stores', s, j) = IF j \in {"fails"} /\ s \in Cleared(c) THEN NoEntry ELSE In(stores, s, j)
  <2>1. Delete(c, {"fails"})
    BY DEF ClearFails
  <2> QED BY <1>1, <2>1, Running, DropEffect DEF IInv
<1>3. /\ \A s \in Stores : In(stores', s, "fails") = IF s \in Cleared(c) THEN NoEntry ELSE In(stores, s, "fails")
      /\ \A s \in Stores : In(stores', s, "locked") = In(stores, s, "locked")
  BY <1>2 DEF AllKeys
<1>4. call'[c].at = "open" /\ \A d \in Calls \ {c} : call'[d] = call[d]
  BY RecordsOK DEF ClearFails, Goes, IInv, TypeOK, Records
<1>5. /\ \A s \in Stores : /\ Counter(s)' # 0 => Counter(s) # 0
                           /\ In(stores', s, "fails") # 0 /\ Locked(s)' = Locked(s)
      /\ Counter(s0)' = 0
  BY <1>1, <1>3, NamesAssumption DEF Counter, Locked, LockInv, Traces, In
<1>6. Trying(c)' /\ Midway(c, s0)'
  BY <1>1, <1>4, <1>5 DEF Trying, Midway
<1> QED BY <1>1, <1>4, <1>5, <1>6, Tries

LEMMA ClearLockCounts == ASSUME IInv, LockInv, NEW c \in Calls, ClearLock(c) PROVE LockInv'
<1>0. PICK s0 \in Stores : s0 = StoreOf(call[c].p)
  BY Running DEF ClearLock
<1>1. /\ call[c].at = "open" /\ used' = used \cup {s0} /\ s0 \in Cleared(c) /\ Trying(c)
      /\ wrong' = wrong /\ wrong \in Nat /\ lapped' = (lapped \/ SomeoneElseTries(c))
  BY <1>0, Running DEF ClearLock, Trying, LockInv, Traces
<1>2. \A s \in Stores, j \in AllKeys :
        In(stores', s, j) = IF j \in {"locked"} /\ s \in Cleared(c) THEN NoEntry ELSE In(stores, s, j)
  <2>1. Delete(c, {"locked"})
    BY DEF ClearLock
  <2> QED BY <1>1, <2>1, Running, DropEffect DEF IInv
<1>3. /\ \A s \in Stores : In(stores', s, "locked") = IF s \in Cleared(c) THEN NoEntry ELSE In(stores, s, "locked")
      /\ \A s \in Stores : In(stores', s, "fails") = In(stores, s, "fails")
  BY <1>2 DEF AllKeys
<1>4. call'[c].at = "done" /\ \A d \in Calls \ {c} : call'[d] = call[d]
  <2>1. PICK r \in {Gone, Over(call[c])} : call' = [call EXCEPT ![c] = r]
    BY DEF ClearLock
  <2>2. r.at = "done"
    BY <2>1, GoneOK, OverOK, RecordsOK
  <2> QED BY <2>1, <2>2 DEF IInv, TypeOK
<1>5. /\ \A s \in Stores : /\ Counter(s)' = Counter(s) /\ In(stores', s, "fails") # 0
                           /\ Locked(s)' => Locked(s)
      /\ ~Locked(s0)'
  BY <1>1, <1>3 DEF Counter, Locked, LockInv, Traces, In
<1>6. ASSUME ~lapped', used \subseteq {s0} PROVE ~Trying(c)' /\ AtRest(s0)'
  <2>1. Counter(s0) = 0 /\ wrong = 0
    BY <1>1, <1>6, Before DEF Midway
  <2>2. 0 < MpinMaxAttempts
    BY AttemptsAssumption
  <2> QED BY <1>1, <1>4, <1>5, <2>1, <2>2 DEF Trying, AtRest
<1> QED BY <1>1, <1>4, <1>5, <1>6, Tries

(* A counter or a lock that runs out was in a store where someone had been.*)
LEMMA ExpireCounts == ASSUME IInv, LockInv, Expire PROVE LockInv'
<1>1. PICK k \in {"fails", "locked"} : stores' \in Expired(stores, k) /\ stores' # stores
  BY DEF Expire
<1>2. /\ call' = call /\ used' = used /\ wrong' = 0 /\ lapped' = (lapped \/ \E c \in Calls : Trying(c))
  BY DEF Expire
<1>3. stores \in StoresOf(Values) /\ k \in AllKeys
  BY DEF IInv, TypeOK, AllKeys
<1>4. PICK t \in Stores :
        /\ In(stores, t, k) # NoEntry
        /\ \A s \in Stores, j \in AllKeys :
             In(stores', s, j) = IF s = t /\ j = k THEN NoEntry ELSE In(stores, s, j)
  <2>1. CASE stores' = [stores EXCEPT !.redis[k] = NoEntry]
    <3>1. \A s \in Stores, j \in AllKeys :
            In(stores', s, j) = IF s = "redis" /\ j = k THEN NoEntry ELSE In(stores, s, j)
      BY <1>3, <2>1, NamesAssumption DEF In, Stores, StoresOf
    <3>2. In(stores, "redis", k) # NoEntry
      <4> SUFFICES ASSUME stores.redis[k] = NoEntry PROVE stores' = stores
        BY <1>1 DEF In
      <4>1. [stores.redis EXCEPT ![k] = NoEntry] = stores.redis
        BY <1>3 DEF StoresOf
      <4> QED BY <1>3, <2>1, <4>1 DEF StoresOf
    <3> QED BY <3>1, <3>2 DEF Stores
  <2>2. ASSUME NEW p \in Processes, stores' = [stores EXCEPT !.memory[p][k] = NoEntry]
        PROVE  /\ \A s \in Stores, j \in AllKeys :
                    In(stores', s, j) = IF s = p /\ j = k THEN NoEntry ELSE In(stores, s, j)
               /\ In(stores, p, k) # NoEntry
    <3>1. \A s \in Stores, j \in AllKeys :
            In(stores', s, j) = IF s = p /\ j = k THEN NoEntry ELSE In(stores, s, j)
      BY <1>3, <2>2, NamesAssumption DEF In, Stores, StoresOf
    <3>2. In(stores, p, k) # NoEntry
      <4> SUFFICES ASSUME stores.memory[p][k] = NoEntry PROVE stores' = stores
        BY <1>1, NamesAssumption DEF In
      <4>1. [stores.memory[p] EXCEPT ![k] = NoEntry] = stores.memory[p]
        BY <1>3 DEF StoresOf
      <4>2. [stores.memory EXCEPT ![p] = [stores.memory[p] EXCEPT ![k] = NoEntry]] = stores.memory
        BY <1>3, <4>1 DEF StoresOf
      <4> QED BY <1>3, <2>2, <4>2 DEF StoresOf
    <3> QED BY <3>1, <3>2
  <2> QED BY <1>1, <2>1, <2>2 DEF Expired, Stores
<1>5. \A s \in Stores :
        /\ In(stores', s, "fails") = IF s = t /\ k = "fails" THEN NoEntry ELSE In(stores, s, "fails")
        /\ In(stores', s, "locked") = IF s = t /\ k = "locked" THEN NoEntry ELSE In(stores, s, "locked")
  BY <1>4 DEF AllKeys
<1>6. \A s \in Stores : /\ Counter(s)' = IF s = t /\ k = "fails" THEN 0 ELSE Counter(s)
                        /\ Locked(s)' = (~(s = t /\ k = "locked") /\ Locked(s))
                        /\ In(stores', s, "fails") # 0
  BY <1>5, NamesAssumption DEF Counter, Locked, LockInv, Traces, In
<1>7. IF k = "fails" THEN Counter(t) # 0 ELSE Locked(t)
  BY <1>4 DEF Counter, Locked, LockInv, Traces
<1>8. Traces'
  BY <1>2, <1>6 DEF LockInv, Traces, In, Counter, Locked
<1>9. Counts'
  <2> SUFFICES ASSUME ~lapped'
               PROVE  /\ \A d, e \in Calls : Trying(d)' /\ Trying(e)' => d = e
                      /\ \A s \in Stores : used' \subseteq {s} =>
                           /\ \A d \in Calls : Trying(d)' => Midway(d, s)'
                           /\ (\A d \in Calls : ~Trying(d)') => AtRest(s)'
    BY DEF Counts
  <2>1. ~lapped /\ \A d \in Calls : ~Trying(d) /\ ~Trying(d)'
    BY <1>2 DEF Trying
  <2>2. ASSUME NEW s \in Stores, used' \subseteq {s} PROVE AtRest(s)'
    <3>1. AtRest(s) /\ used \subseteq {s}
      BY <1>2, <2>1, <2>2 DEF LockInv, Counts
    <3>2. t = s
      BY <1>7, <3>1 DEF LockInv, Traces
    <3>3. 0 < MpinMaxAttempts
      BY AttemptsAssumption
    <3> QED BY <1>1, <1>2, <1>6, <1>7, <3>1, <3>2, <3>3 DEF AtRest
  <2> QED BY <2>1, <2>2
<1> QED BY <1>8, <1>9 DEF LockInv

LEMMA CrashCounts == ASSUME IInv, LockInv, Crash PROVE LockInv'
<1>1. PICK p \in Processes :
        /\ stores' = Restarted(stores, p)
        /\ \A c \in Calls : call'[c] = IF call[c].p # p THEN call[c]
                                       ELSE IF c \in Range(edits) \/ redeemed[c] # 0 THEN Over(call[c])
                                       ELSE Gone
        /\ used' = IF p \in used THEN used \cup {"lost"} ELSE used
        /\ lapped' = (lapped \/ \E c \in Calls : Trying(c) /\ call[c].p = p)
        /\ wrong' = wrong
  BY DEF Crash
<1>2. \A c \in Calls : call'[c] = call[c] \/ (call'[c].at = "done" /\ call[c].p = p)
  BY <1>1, GoneOK, OverOK, RecordsOK
<1>3. \A s \in Stores, j \in AllKeys : In(stores', s, j) = IF s = p THEN NoEntry ELSE In(stores, s, j)
  <2>1. stores \in StoresOf(Values) /\ NoEntry \in Values
    BY DEF IInv, TypeOK, Values
  <2> QED BY <1>1, <2>1, RestartEffect
<1>4. \A s \in Stores : /\ Counter(s)' = IF s = p THEN 0 ELSE Counter(s)
                        /\ Locked(s)' <=> s # p /\ Locked(s)
                        /\ In(stores', s, "fails") # 0
  BY <1>3, NamesAssumption DEF Counter, Locked, LockInv, Traces, In, AllKeys
<1>5. Traces'
  <2>1. used' \subseteq Stores \cup {"lost"} /\ ("lost" \in used' => \E q \in Processes : q \in used')
    BY <1>1 DEF LockInv, Traces
  <2>2. \A s \in Stores : Counter(s)' # 0 \/ Locked(s)' => s \in used'
    BY <1>1, <1>4 DEF LockInv, Traces
  <2>3. \A c \in Calls : call'[c].at = "count" => call'[c].n # 0
    BY <1>2 DEF LockInv, Traces
  <2> QED BY <1>1, <1>4, <2>1, <2>2, <2>3 DEF LockInv, Traces, In, Counter, Locked
<1>6. Counts'
  <2> SUFFICES ASSUME ~lapped'
               PROVE  /\ \A d, e \in Calls : Trying(d)' /\ Trying(e)' => d = e
                      /\ \A s \in Stores : used' \subseteq {s} =>
                           /\ \A d \in Calls : Trying(d)' => Midway(d, s)'
                           /\ (\A d \in Calls : ~Trying(d)') => AtRest(s)'
    BY DEF Counts
  <2>1. ~lapped /\ \A d \in Calls : Trying(d) => call'[d] = call[d]
    BY <1>1, <1>2
  <2>2. \A d \in Calls : Trying(d)' = Trying(d)
    BY <1>2, <2>1 DEF Trying
  <2>3. \A d, e \in Calls : Trying(d)' /\ Trying(e)' => d = e
    BY <2>1, <2>2 DEF LockInv, Counts
  <2>4. ASSUME NEW s \in Stores, used' \subseteq {s}
        PROVE  used \subseteq {s} /\ \A r \in Stores : Counter(r)' = Counter(r) /\ (Locked(r)' <=> Locked(r))
    <3>1. "lost" \notin Stores
      BY NamesAssumption DEF Stores
    <3>2. p \notin used /\ used' = used
      BY <1>1, <2>4, <3>1
    <3>3. p \in Stores
      BY DEF Stores
    <3>4. Counter(p) = 0 /\ ~Locked(p)
      BY <3>2, <3>3 DEF LockInv, Traces
    <3> QED BY <1>4, <2>4, <3>2, <3>4
  <2>5. ASSUME NEW s \in Stores, used' \subseteq {s}, NEW d \in Calls, Trying(d)' PROVE Midway(d, s)'
    <3>1. Midway(d, s) /\ call'[d] = call[d]
      BY <2>1, <2>2, <2>4, <2>5 DEF LockInv, Counts
    <3> QED BY <1>1, <2>4, <2>5, <3>1 DEF Midway
  <2>6. ASSUME NEW s \in Stores, used' \subseteq {s}, \A d \in Calls : ~Trying(d)' PROVE AtRest(s)'
    <3>1. AtRest(s)
      BY <2>1, <2>2, <2>4, <2>6 DEF LockInv, Counts
    <3> QED BY <1>1, <2>4, <2>6, <3>1 DEF AtRest
  <2> QED BY <2>3, <2>5, <2>6
<1> QED BY <1>5, <1>6 DEF LockInv

(* The steps of the other calls.                                           *)
LEMMA PlaceOf ==
  ASSUME IInv, NEW c \in Calls
  PROVE  /\ \A at \in Places : Goes(c, at) => call'[c].at = at /\ \A d \in Calls \ {c} : call'[d] = call[d]
         /\ Ends(c) => call'[c].at = "done" /\ \A d \in Calls \ {c} : call'[d] = call[d]
<1>1. ASSUME NEW at \in Places, Goes(c, at)
      PROVE  call'[c].at = at /\ \A d \in Calls \ {c} : call'[d] = call[d]
  BY <1>1, RecordsOK DEF Goes, IInv, TypeOK, Records
<1> QED BY <1>1, GoneOK DEF Ends, IInv, TypeOK

LEMMA Elsewhere ==
  ASSUME IInv, NEW c \in Calls,
         \/ Protect(c) \/ LoadUser(c) \/ Save(c) \/ ReadProfile(c) \/ CheckOtp(c) \/ SavePassword(c)
         \/ Blacklist(c) \/ DropProfile(c) \/ FillProfile(c) \/ ConsumeOtp(c)
  PROVE  /\ call'[c].at \notin {"compare", "count", "lock", "unfail", "open"}
         /\ \A d \in Calls \ {c} : call'[d] = call[d]
<1>1. call \in [Calls -> Records] /\ call[c] \in Records
  BY DEF IInv, TypeOK
<1>2. ASSUME NEW r, call' = [call EXCEPT ![c] = r],
             r.at \notin {"compare", "count", "lock", "unfail", "open"}
      PROVE  /\ call'[c].at \notin {"compare", "count", "lock", "unfail", "open"}
             /\ \A d \in Calls \ {c} : call'[d] = call[d]
  BY <1>1, <1>2
<1>3. CASE Protect(c)
  <2>1. PICK kind \in Fields \cup {"verify", "logout", "profile", "deactivate"}, p \in Processes :
          \/ call' = [call EXCEPT ![c] = Gone]
          \/ call' = [call EXCEPT ![c] = [Fresh EXCEPT !.at = FirstStep(kind), !.kind = kind, !.p = p,
                                                      !.n = IF kind = "profile" THEN Len(edits) ELSE 0]]
    BY <1>3 DEF Protect
  <2> DEFINE r == [Fresh EXCEPT !.at = FirstStep(kind), !.kind = kind, !.p = p,
                                !.n = IF kind = "profile" THEN Len(edits) ELSE 0]
  <2>2. r.at = FirstStep(kind)
    BY FreshOK DEF Records
  <2>3. FirstStep(kind) \notin {"compare", "count", "lock", "unfail", "open"}
    BY DEF FirstStep
  <2>4. call' = [call EXCEPT ![c] = Gone] \/ call' = [call EXCEPT ![c] = r]
    BY <2>1
  <2> QED BY <1>2, <2>2, <2>3, <2>4, GoneOK
<1>4. CASE LoadUser(c) \/ Save(c) \/ ReadProfile(c) \/ SavePassword(c) \/ Blacklist(c) \/ FillProfile(c)
  <2>1. Ends(c) \/ \E at \in {"save", "blacklist", "drop", "fill", "consume"} : Goes(c, at)
    BY <1>4 DEF LoadUser, Save, ReadProfile, SavePassword, Blacklist, FillProfile
  <2>2. {"save", "blacklist", "drop", "fill", "consume"} \subseteq Places
    BY DEF Places
  <2> QED BY <2>1, <2>2, PlaceOf
<1>5. CASE CheckOtp(c)
  <2>1. PICK p, o, before, r :
          /\ call' = [call EXCEPT ![c] = r]
          /\ r \in {Gone, [Fresh EXCEPT !.at = "reset", !.kind = "reset", !.p = p, !.n = o,
                                        !.looked = StoreOf(p), !.before = before]}
    BY <1>5 DEF CheckOtp
  <2>2. r.at \in {"done", "reset"}
    <3>1. [Fresh EXCEPT !.at = "reset", !.kind = "reset", !.p = p, !.n = o,
                        !.looked = StoreOf(p), !.before = before].at = "reset"
      BY FreshOK DEF Records
    <3> QED BY <2>1, <3>1, GoneOK
  <2> QED BY <1>2, <2>1, <2>2
<1>6. CASE DropProfile(c)
  <2>1. PICK r : /\ call' = [call EXCEPT ![c] = r]
                 /\ r \in {Gone, [Over(call[c]) EXCEPT !.cleared = Cleared(c)],
                           [call[c] EXCEPT !.at = "unlock", !.cleared = Cleared(c)]}
    BY <1>6 DEF DropProfile
  <2>2. [Over(call[c]) EXCEPT !.cleared = Cleared(c)].at = "done"
    BY <1>1, OverOK DEF Records
  <2>3. [call[c] EXCEPT !.at = "unlock", !.cleared = Cleared(c)].at = "unlock"
    BY <1>1 DEF Records
  <2>4. r.at \in {"done", "unlock"}
    BY <2>1, <2>2, <2>3, GoneOK
  <2> QED BY <1>2, <2>1, <2>4
<1>7. CASE ConsumeOtp(c)
  <2>1. PICK r : call' = [call EXCEPT ![c] = r] /\ r = [Over(call[c]) EXCEPT !.cleared = Cleared(c)]
    BY <1>7 DEF ConsumeOtp
  <2>2. r.at = "done"
    BY <1>1, <2>1, OverOK DEF Records
  <2> QED BY <1>2, <2>1, <2>2
<1> QED BY <1>3, <1>4, <1>5, <1>6, <1>7

LEMMA OtherCounts ==
  ASSUME IInv, LockInv, NEW c \in Calls,
         \/ Protect(c) \/ LoadUser(c) \/ Save(c) \/ ReadProfile(c) \/ CheckOtp(c) \/ SavePassword(c)
         \/ Blacklist(c) \/ DropProfile(c) \/ FillProfile(c) \/ ConsumeOtp(c)
  PROVE  LockInv'
<1>1. UNCHANGED <<wrong, used, lapped>> /\ ~Trying(c)
  BY DEF Protect, LoadUser, Save, ReadProfile, CheckOtp, SavePassword, Blacklist, DropProfile,
     FillProfile, ConsumeOtp, history, Trying
<1>2. \A s \in Stores : /\ In(stores', s, "fails") = In(stores, s, "fails")
                        /\ In(stores', s, "locked") = In(stores, s, "locked")
  <2>1. CASE stores' = stores
    BY <2>1
  <2>2. ASSUME NEW k \in {"blacklist", "profile"}, NEW v \in Values, Write(c, k, v), call[c].p \in Processes
        PROVE  \A s \in Stores : /\ In(stores', s, "fails") = In(stores, s, "fails")
                                 /\ In(stores', s, "locked") = In(stores, s, "locked")
    BY <2>2, WriteEffect DEF IInv, AllKeys
  <2>3. ASSUME NEW k \in {"otp", "profile"}, Delete(c, {k}), call[c].p \in Processes
        PROVE  \A s \in Stores : /\ In(stores', s, "fails") = In(stores, s, "fails")
                                 /\ In(stores', s, "locked") = In(stores, s, "locked")
    BY <2>3, DropEffect DEF IInv, AllKeys
  <2>4. CASE Blacklist(c)
    <3>1. Write(c, "blacklist", "yes") /\ call[c].p \in Processes /\ "yes" \in Values
      BY <2>4, Running DEF Blacklist, Values
    <3> QED BY <2>2, <3>1
  <2>5. CASE DropProfile(c)
    <3>1. Delete(c, {"profile"}) /\ call[c].p \in Processes
      BY <2>5, Running DEF DropProfile
    <3> QED BY <2>3, <3>1
  <2>6. CASE ConsumeOtp(c)
    <3>1. Delete(c, {"otp"}) /\ call[c].p \in Processes
      BY <2>6, Running DEF ConsumeOtp
    <3> QED BY <2>3, <3>1
  <2>7. CASE FillProfile(c)
    <3> DEFINE late == {d \in {edits[i] : i \in call[c].n + 1 .. Len(edits)} : call[d].cleared # {}}
    <3>1. Write(c, "profile", [upTo |-> call[c].n, late |-> late]) /\ call[c].p \in Processes
      BY <2>7, Running DEF FillProfile
    <3>2. call[c].n \in Nat /\ \A i \in call[c].n + 1 .. Len(edits) : edits[i] \in Calls
      BY RecordsOK DEF Records, IInv, TypeOK
    <3>3. [upTo |-> call[c].n, late |-> late] \in Values
      BY <3>2 DEF Values, Entries
    <3> QED BY <2>2, <3>1, <3>3
  <2> QED BY <2>1, <2>4, <2>5, <2>6, <2>7
       DEF Protect, LoadUser, Save, ReadProfile, CheckOtp, SavePassword
<1>3. /\ call'[c].at \notin {"compare", "count", "lock", "unfail", "open"}
      /\ \A d \in Calls \ {c} : call'[d] = call[d]
  BY Elsewhere
<1> QED BY <1>1, <1>2, <1>3, Aside DEF Trying

LEMMA ForgotCounts == ASSUME IInv, LockInv, ForgotPassword PROVE LockInv'
<1>1. PICK p \in Processes : stores' = SetCache(stores, p, "otp", issued + 1, up[p])
  BY DEF ForgotPassword
<1>2. /\ issued + 1 \in Values /\ "otp" \in AllKeys /\ stores \in StoresOf(Values) /\ up[p] \in BOOLEAN
  BY DEF IInv, TypeOK, Values, AllKeys
<1>3. \A s \in Stores : /\ In(stores', s, "fails") = In(stores, s, "fails")
                        /\ In(stores', s, "locked") = In(stores, s, "locked")
  BY <1>1, <1>2, SetEffect DEF AllKeys
<1> QED BY <1>3, Aside DEF ForgotPassword, history

LEMMA NextLockInv == IInv /\ LockInv /\ [Next]_vars => LockInv'
<1> SUFFICES ASSUME IInv, LockInv, [Next]_vars PROVE LockInv'
  OBVIOUS
<1>1. ASSUME NEW c \in Calls, Step(c) PROVE LockInv'
  BY <1>1, CheckLockCounts, WrongCounts, CountCounts, LockCounts, DropFailsCounts, ClearFailsCounts,
     ClearLockCounts, OtherCounts DEF Step
<1>2. CASE RedisChanges
  BY <1>2, Aside DEF RedisChanges, history
<1>3. CASE UNCHANGED vars
  BY <1>3, Aside DEF vars, history
<1> QED BY <1>1, <1>2, <1>3, ForgotCounts, CrashCounts, ExpireCounts DEF Next, Rest

-------------------------------------------------------------------------------
LEMMA SpecIInv == Spec => [](IInv /\ LockInv)
<1>1. Init => IInv /\ LockInv
  BY InitIInv, InitLockInv
<1>2. IInv /\ LockInv /\ [Next]_vars => IInv' /\ LockInv'
  BY NextIInv, NextLockInv
<1> QED BY <1>1, <1>2, PTL DEF Spec

(* For any number of attempts, calls and processes: while verifications do *)
(* not overlap and stay in one store, the account is locked exactly after  *)
(* MpinMaxAttempts wrong MPINs, and no more than that are compared         *)
(* (mpinLockout.js:32-48, verifyMpin.js:20-46).                            *)
THEOREM LockoutStaysExact == Spec => []LockoutIsExact
<1>1. IInv /\ LockInv => LockoutIsExact
  <2> SUFFICES ASSUME IInv, LockInv, ~lapped, \A c \in Calls : ~Trying(c), NEW s \in used, used = {s}
               PROVE  wrong =< MpinMaxAttempts /\ (In(stores, s, "locked") # NoEntry <=> wrong = MpinMaxAttempts)
    BY DEF LockoutIsExact, In
  <2>1. s \in Stores
    BY NamesAssumption DEF LockInv, Traces
  <2>2. AtRest(s)
    BY <2>1 DEF LockInv, Counts
  <2>3. wrong \in Nat /\ MpinMaxAttempts \in Nat
    BY AttemptsAssumption DEF LockInv, Traces
  <2> QED BY <2>2, <2>3 DEF AtRest, Locked
<1> QED BY <1>1, SpecIInv, PTL

(* For any number of calls and processes, whatever Redis does and however  *)
(* often processes die: a one-time password resets the password twice only *)
(* if the second call checked it before the first had deleted it, or in a  *)
(* store it was not deleted from (authController.js:220-233).              *)
THEOREM OtpsResetOnce == Spec => []OnlyOverlapsReuseOtp
<1>1. IInv => OnlyOverlapsReuseOtp
  BY RecordsOK DEF OnlyOverlapsReuseOtp, Looked
<1> QED BY <1>1, SpecIInv, PTL

(* For any number of calls and processes: a cached profile lacks an edit   *)
(* only while the call that made it has not dropped the profile from that  *)
(* store, or if a reader stored what it had read before the edit after the *)
(* profile was dropped (authController.js:106-121, :136, :187).            *)
THEOREM StaleProfilesAreExplained == Spec => []StaleProfileExplained
<1>1. IInv => StaleProfileExplained
  <2> SUFFICES ASSUME IInv, NEW s \in Stores PROVE Explained(s, In(stores, s, "profile"))
    BY DEF StaleProfileExplained, Explained, In, Stores
  <2> QED BY DEF IInv, ProfilesOK
<1> QED BY <1>1, SpecIInv, PTL
===============================================================================
