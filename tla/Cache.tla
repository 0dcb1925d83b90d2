-------------------------------- MODULE Cache ---------------------------------
(***************************************************************************)
(* src/utils/cache.js: every function asks Redis while this process has a  *)
(* ready connection to it, and its own memory otherwise.  Redis is shared, *)
(* a memory is not, and nothing ever moves from one to the other.          *)
(*                                                                         *)
(* The operators say what a call makes of the stores s.  up says whether   *)
(* Redis carries the command out; a command that fails, and a status that  *)
(* is not 'ready', are the same to the callers.  Values expire on their    *)
(* own: Expired drops a key from one store.                                *)
(***************************************************************************)

CONSTANTS Processes,  \* the API processes, each with a memoryStore
          Keys,       \* the keys in use
          NoEntry     \* what is read for a key that is not there

EmptyStores ==
  [redis |-> [k \in Keys |-> NoEntry], memory |-> [p \in Processes |-> [k \in Keys |-> NoEntry]]]

(* Faulty: memory is asked first, and its miss is believed.                *)
GetCacheNear(s, p, k, up) == s.memory[p][k]

(* Redis that answers "no such key" is believed: memory is not asked then. *)
GetCache(s, p, k, up) == IF up THEN s.redis[k] ELSE s.memory[p][k]

SetCache(s, p, k, v, up) ==
  IF up THEN [s EXCEPT !.redis[k] = v] ELSE [s EXCEPT !.memory[p][k] = v]

(* Faulty: memory is left alone when Redis has deleted the key.            *)
DeleteCacheOnce(s, p, K, up) ==
  IF up THEN [s EXCEPT !.redis = [k \in Keys |-> IF k \in K THEN NoEntry ELSE @[k]]]
  ELSE [s EXCEPT !.memory[p] = [k \in Keys |-> IF k \in K THEN NoEntry ELSE @[k]]]

(* deleteCache, and deleteCacheByPrefix for the keys K with that prefix:   *)
(* the process's own memory is cleared too.                                *)
DeleteCache(s, p, K, up) ==
  [redis |-> [k \in Keys |-> IF up /\ k \in K THEN NoEntry ELSE s.redis[k]],
   memory |-> [s.memory EXCEPT ![p] = [k \in Keys |-> IF k \in K THEN NoEntry ELSE @[k]]]]

(* A time to live runs out: in Redis, or in the memory of one process.     *)
Expired(s, k) ==
  {[s EXCEPT !.redis[k] = NoEntry]} \cup {[s EXCEPT !.memory[p][k] = NoEntry] : p \in Processes}

Restarted(s, p) == [s EXCEPT !.memory[p] = [k \in Keys |-> NoEntry]]
===============================================================================
