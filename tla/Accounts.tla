------------------------------- MODULE Accounts --------------------------------
(***************************************************************************)
(* The calls about one account, from src/controllers/authController.js,    *)
(* behind src/middlewares/authMiddleware.js, and the MPIN verification     *)
(* (src/middlewares/verifyMpin.js, src/utils/mpinLockout.js) that the      *)
(* money routes share.  What they have in common is the cache: it holds    *)
(* the profile, the one-time password, the counter of wrong MPINs, the     *)
(* lock and the blacklist of tokens.                                       *)
(*                                                                         *)
(* The account is active or not; of its fields only the order in which     *)
(* calls changed what the profile shows is kept (edits), and a cached      *)
(* profile is the number of those edits it includes.  A one-time password  *)
(* is the number of its issue.  History, which nothing in the program      *)
(* depends on: wrong, used, lapped, redeemed, the fields looked, before    *)
(* and cleared of a call, and late of a cached profile.                    *)
(***************************************************************************)
EXTENDS Naturals, Sequences, FiniteSets, Functions

CONSTANTS Calls, Processes, NoEntry,
          MpinMaxAttempts,
          MaxOtps,    \* bound: one-time passwords, each issued while a call can still use it
          MaxEvents   \* bound: changes of Redis, crashes and expiries

ASSUME AttemptsAssumption == MpinMaxAttempts \in Nat \ {0}

ASSUME NamesAssumption ==
  {"redis", "nobody", "nowhere", "lost"} \cap Processes = {} /\ NoEntry \notin Nat /\ NoEntry # "yes"

VARIABLES stores, up, call, active, edits, issued, events,
          wrong,      \* wrong MPINs since the counter was last cleared
          used,       \* the stores in which they were counted
          lapped,     \* has anything touched the counter during a verification?
          redeemed    \* redeemed[c]: the one-time password c reset the password with

history == <<wrong, used, lapped, redeemed>>
vars == <<stores, up, call, active, edits, issued, events, history>>

INSTANCE Cache WITH Keys <- {"profile", "otp", "fails", "locked", "blacklist"}

StoreOf(p) == IF up[p] THEN "redis" ELSE p
Read(c, k) == GetCache(stores, call[c].p, k, up[call[c].p])
Write(c, k, v) == stores' = SetCache(stores, call[c].p, k, v, up[call[c].p])
Delete(c, K) == stores' = DeleteCache(stores, call[c].p, K, up[call[c].p])
Cleared(c) == {call[c].p, StoreOf(call[c].p)}

Fresh == [at |-> "idle", kind |-> "none", p |-> "nobody", n |-> 0,
          looked |-> "nowhere", before |-> {}, cleared |-> {}]
Gone == [Fresh EXCEPT !.at = "done"]
Over(r) == [r EXCEPT !.at = "done", !.p = "nobody"]

Init ==
  /\ stores = EmptyStores
  /\ \E connected \in BOOLEAN : up = [p \in Processes |-> connected]
  /\ call = [c \in Calls |-> Fresh]
  /\ active = TRUE /\ edits = <<>> /\ issued = 0 /\ events = 0
  /\ wrong = 0 /\ used = {} /\ lapped = FALSE
  /\ redeemed = [c \in Calls |-> 0]

Goes(c, at) == call' = [call EXCEPT ![c].at = at]
Ends(c) == call' = [call EXCEPT ![c] = Gone]

-------------------------------------------------------------------------------
(* protect: the token must not be blacklisted and the account be active.   *)
(* The two reads are one step: the second decides at least as well later.  *)
Fields == {"mpin", "name", "password"}
FirstStep(kind) == CASE kind = "verify" -> "lock?"
                     [] kind = "logout" -> "blacklist"
                     [] kind = "profile" -> "cache"
                     [] OTHER -> "load"

Protect(c) ==
  /\ call[c].at = "idle"
  /\ \E kind \in Fields \cup {"verify", "logout", "profile", "deactivate"}, p \in Processes :
       call' = [call EXCEPT ![c] =
         IF GetCache(stores, p, "blacklist", up[p]) = NoEntry /\ active
         THEN [Fresh EXCEPT !.at = FirstStep(kind), !.kind = kind, !.p = p,
                            !.n = IF kind = "profile" THEN Len(edits) ELSE 0]
         ELSE Gone]
  /\ UNCHANGED <<stores, up, active, edits, issued, events, history>>

(* setupMpin, updateProfile, changePassword, deactivateAccount: find ...   *)
LoadUser(c) ==
  /\ call[c].at = "load"
  /\ Goes(c, "save")
  /\ UNCHANGED <<stores, up, active, edits, issued, events, history>>

(* ... and save(): Mongoose writes the modified field alone, so that the   *)
(* copies loaded before a deactivation do not undo it.                     *)
Save(c) ==
  /\ call[c].at = "save"
  /\ active' = (active /\ call[c].kind # "deactivate")
  /\ edits' = IF call[c].kind \in {"mpin", "name"} THEN Append(edits, c) ELSE edits
  /\ IF call[c].kind = "password" THEN Ends(c)
     ELSE Goes(c, IF call[c].kind = "deactivate" THEN "blacklist" ELSE "drop")
  /\ UNCHANGED <<stores, up, issued, events, history>>

(* blacklistCurrentToken, of a logout or a deactivation.                   *)
Blacklist(c) ==
  /\ call[c].at = "blacklist"
  /\ Write(c, "blacklist", "yes")
  /\ IF call[c].kind = "logout" THEN Ends(c) ELSE Goes(c, "drop")
  /\ UNCHANGED <<up, active, edits, issued, events, history>>

DropProfile(c) ==
  /\ call[c].at = "drop"
  /\ Delete(c, {"profile"})
  /\ call' = [call EXCEPT ![c] =
       CASE call[c].kind = "mpin" -> [@ EXCEPT !.at = "unlock", !.cleared = Cleared(c)]
         [] call[c].kind = "name" -> [Over(@) EXCEPT !.cleared = Cleared(c)]
         [] OTHER -> Gone]
  /\ UNCHANGED <<up, active, edits, issued, events, history>>

-------------------------------------------------------------------------------
(* The cached profile                                                      *)

ReadProfile(c) ==
  /\ call[c].at = "cache"
  /\ IF Read(c, "profile") = NoEntry THEN Goes(c, "fill") ELSE Ends(c)
  /\ UNCHANGED <<stores, up, active, edits, issued, events, history>>

(* The profile is read from the database after the miss, except hasMpinSet *)
(* which protect has read.  The entry counts the edits it is sure to show. *)
FillProfile(c) ==
  /\ call[c].at = "fill"
  /\ LET missed == {edits[i] : i \in call[c].n + 1 .. Len(edits)}
     IN Write(c, "profile", [upTo |-> call[c].n, late |-> {d \in missed : call[d].cleared # {}}])
  /\ Ends(c)
  /\ UNCHANGED <<up, active, edits, issued, events, history>>

-------------------------------------------------------------------------------
(* verifyMpin.  The compare reads nothing that is shared; a wrong MPIN     *)
(* goes on to read the counter.                                            *)

Trying(c) == call[c].at \in {"compare", "count", "lock", "unfail", "open"}
SomeoneElseTries(c) == \E d \in Calls \ {c} : Trying(d)

CheckLock(c) ==
  /\ call[c].at = "lock?"
  /\ IF Read(c, "locked") # NoEntry THEN Ends(c) ELSE Goes(c, "compare")
  /\ lapped' = (lapped \/ SomeoneElseTries(c))
  /\ used' = used \cup {StoreOf(call[c].p)}
  /\ UNCHANGED <<stores, up, active, edits, issued, events, wrong, redeemed>>

MpinWrong(c) ==
  /\ call[c].at = "compare"
  /\ LET fails == IF Read(c, "fails") = NoEntry THEN 0 ELSE Read(c, "fails")
     IN call' = [call EXCEPT ![c].at = "count", ![c].n = fails + 1]
  /\ wrong' = wrong + 1
  /\ used' = used \cup {StoreOf(call[c].p)}
  /\ UNCHANGED <<stores, up, active, edits, issued, events, lapped, redeemed>>

(* Faulty: one try too many.                                               *)
LocksLate(n) == n > MpinMaxAttempts

Locks(n) == n >= MpinMaxAttempts

RecordFailure(c) ==
  /\ call[c].at = "count"
  /\ Write(c, "fails", call[c].n)
  /\ IF Locks(call[c].n) THEN Goes(c, "lock") ELSE Ends(c)
  /\ used' = used \cup {StoreOf(call[c].p)}
  /\ UNCHANGED <<up, active, edits, issued, events, wrong, lapped, redeemed>>

LockAccount(c) ==
  /\ call[c].at = "lock"
  /\ Write(c, "locked", "yes")
  /\ Goes(c, "unfail")
  /\ used' = used \cup {StoreOf(call[c].p)}
  /\ UNCHANGED <<up, active, edits, issued, events, wrong, lapped, redeemed>>

DropFails(c) ==
  /\ call[c].at = "unfail"
  /\ Delete(c, {"fails"})
  /\ Ends(c)
  /\ used' = used \cup {StoreOf(call[c].p)}
  /\ UNCHANGED <<up, active, edits, issued, events, wrong, lapped, redeemed>>

(* After a right MPIN, or a new one: the counter goes, then the lock.      *)
ClearFails(c) ==
  /\ call[c].at \in {"compare", "unlock"}
  /\ Delete(c, {"fails"})
  /\ Goes(c, "open")
  /\ wrong' = 0
  /\ lapped' = (lapped \/ SomeoneElseTries(c))
  /\ used' = used \cup {StoreOf(call[c].p)}
  /\ UNCHANGED <<up, active, edits, issued, events, redeemed>>

ClearLock(c) ==
  /\ call[c].at = "open"
  /\ Delete(c, {"locked"})
  /\ call' = [call EXCEPT ![c] = IF call[c].kind = "verify" THEN Gone ELSE Over(@)]
  /\ lapped' = (lapped \/ SomeoneElseTries(c))
  /\ used' = used \cup {StoreOf(call[c].p)}
  /\ UNCHANGED <<up, active, edits, issued, events, wrong, redeemed>>

-------------------------------------------------------------------------------
(* One-time passwords                                                      *)

ForgotPassword ==
  /\ issued < MaxOtps /\ \E c \in Calls : call[c].at = "idle"
  /\ issued' = issued + 1
  /\ \E p \in Processes : stores' = SetCache(stores, p, "otp", issued + 1, up[p])
  /\ UNCHANGED <<up, call, active, edits, events, history>>

CheckOtp(c) ==
  /\ call[c].at = "idle"
  /\ \E p \in Processes, o \in 1 .. issued :
       call' = [call EXCEPT ![c] =
         IF GetCache(stores, p, "otp", up[p]) = o
         THEN [Fresh EXCEPT !.at = "reset", !.kind = "reset", !.p = p, !.n = o, !.looked = StoreOf(p),
                            !.before = {d \in Calls : redeemed[d] = o /\ call[d].cleared # {}}]
         ELSE Gone]
  /\ UNCHANGED <<stores, up, active, edits, issued, events, history>>

SavePassword(c) ==
  /\ call[c].at = "reset"
  /\ redeemed' = [redeemed EXCEPT ![c] = call[c].n]
  /\ Goes(c, "consume")
  /\ UNCHANGED <<stores, up, active, edits, issued, events, wrong, used, lapped>>

(* Faulty: the one-time password is left to expire.                        *)
ConsumeOtpNot(c) ==
  /\ call[c].at = "consume"
  /\ call' = [call EXCEPT ![c] = [Over(@) EXCEPT !.cleared = Cleared(c)]]
  /\ UNCHANGED <<stores, up, active, edits, issued, events, history>>

ConsumeOtp(c) ==
  /\ call[c].at = "consume"
  /\ Delete(c, {"otp"})
  /\ call' = [call EXCEPT ![c] = [Over(@) EXCEPT !.cleared = Cleared(c)]]
  /\ UNCHANGED <<up, active, edits, issued, events, history>>

-------------------------------------------------------------------------------
(* The outside                                                             *)

Event ==
  /\ events < MaxEvents /\ \E c \in Calls : call[c].at # "done"
  /\ events' = events + 1

RedisChanges ==
  /\ Event
  /\ \E p \in Processes : up' = [up EXCEPT ![p] = ~@]
  /\ UNCHANGED <<stores, call, active, edits, issued, history>>

(* A process dies and is started again: its memory and its calls are gone. *)
Crash ==
  /\ Event
  /\ \E p \in Processes :
       /\ stores' = Restarted(stores, p)
       /\ call' = [c \in Calls |-> IF call[c].p # p THEN call[c]
                                   ELSE IF c \in Range(edits) \/ redeemed[c] # 0 THEN Over(call[c])
                                   ELSE Gone]
       /\ used' = IF p \in used THEN used \cup {"lost"} ELSE used
       /\ lapped' = (lapped \/ \E c \in Calls : Trying(c) /\ call[c].p = p)
  /\ UNCHANGED <<up, active, edits, issued, wrong, redeemed>>

(* The lock or the counter runs out after mpinLockSeconds.  (A token that  *)
(* is blacklisted expires before its entry does.)                          *)
Expire ==
  /\ Event
  /\ \E k \in {"fails", "locked"}, s \in Expired(stores, "fails") \cup Expired(stores, "locked") :
       /\ s # stores /\ s \in Expired(stores, k)
       /\ stores' = s
  /\ wrong' = 0
  /\ lapped' = (lapped \/ \E c \in Calls : Trying(c))
  /\ UNCHANGED <<up, call, active, edits, issued, used, redeemed>>

Step(c) ==
  \/ Protect(c) \/ LoadUser(c) \/ Save(c) \/ Blacklist(c) \/ DropProfile(c)
  \/ ReadProfile(c) \/ FillProfile(c)
  \/ CheckLock(c) \/ MpinWrong(c) \/ RecordFailure(c) \/ LockAccount(c) \/ DropFails(c)
  \/ ClearFails(c) \/ ClearLock(c)
  \/ CheckOtp(c) \/ SavePassword(c) \/ ConsumeOtp(c)

Rest == (\A c \in Calls : call[c].at = "done") /\ UNCHANGED vars

Next == (\E c \in Calls : Step(c)) \/ ForgotPassword \/ RedisChanges \/ Crash \/ Expire \/ Rest

Spec == Init /\ [][Next]_vars

-------------------------------------------------------------------------------
(* While verifications do not overlap and stay in one store, the account   *)
(* is locked exactly after MpinMaxAttempts wrong MPINs, and no more than   *)
(* that are compared (mpinLockout.js:32-48, verifyMpin.js:20-46).          *)
LockoutIsExact ==
  ~lapped /\ (\A c \in Calls : ~Trying(c)) =>
    \A s \in used : used = {s} =>
      LET locked == IF s = "redis" THEN stores.redis["locked"] ELSE stores.memory[s]["locked"]
      IN wrong =< MpinMaxAttempts /\ (locked # NoEntry <=> wrong = MpinMaxAttempts)

(* A cached profile lacks an edit only while the call that made it has not *)
(* dropped the profile from this store, or because a reader stored what it *)
(* had read before the edit after the profile was dropped                  *)
(* (authController.js:106-121, :136, :187).                                *)
StaleProfileExplained ==
  \A s \in {"redis"} \cup Processes :
    LET entry == IF s = "redis" THEN stores.redis["profile"] ELSE stores.memory[s]["profile"]
    IN entry # NoEntry =>
         \A i \in entry.upTo + 1 .. Len(edits) :
           s \notin call[edits[i]].cleared \/ edits[i] \in entry.late

(* A one-time password resets the password twice only if the second call   *)
(* checked it before the first had deleted it, or in a store it was not    *)
(* deleted from (authController.js:220-233).                               *)
OnlyOverlapsReuseOtp ==
  \A c, d \in Calls :
    redeemed[d] # 0 /\ c \in call[d].before => call[d].looked \notin call[c].cleared
===============================================================================
