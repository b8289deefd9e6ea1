---------------------------- MODULE ReadThrough ----------------------------
(***************************************************************************)
(* The read-through cache that settings, registration slots, courses and   *)
(* section lookups share in form: GET; on a miss SET lock NX PX, load from *)
(* the database, SET, compare-and-delete the lock; without the lock, poll  *)
(* for a while and then load directly.                                     *)
(*                                                                         *)
(* One action per awaited command.  A process makes one call at a time, so *)
(* the random token of its lock is the process itself.  The composing      *)
(* module says what the database holds (`db') when a call loads, and which *)
(* calls are made.  The pauses and the polling deadline are left out: a    *)
(* waiting call may give up at any moment, a key or a lock expire at any.  *)
(***************************************************************************)
EXTENDS Integers

CONSTANTS
  Procs,        \* the calls in progress, in any API process
  Keys,         \* the cache keys, each with its lock key
  LenientKeys,  \* keys whose service swallows errors of GET, SET, release
  Missing,      \* no value under a key
  Free          \* no token under a lock key

ASSUME ReadThroughAssumption ==
  /\ LenientKeys \subseteq Keys
  /\ Free \notin Procs

VARIABLES
  cache,    \* cache[k]: the cached value of k, or Missing
  lock,     \* lock[k]: the token under k's lock, or Free
  fill,     \* fill[p]: the call of p and where it stands
  expired   \* calls whose lock expired before they released it

readVars == <<cache, lock, fill, expired>>

NoCall == [at |-> "idle"]

(* A call has the lock between SET NX and its compare-and-delete. *)
Filling(p) == fill[p].at \in {"load", "store", "release", "release_failed"}
FillsKey(p, k) == Filling(p) /\ fill[p].key = k
(* It holds a database value that it is about to SET. *)
Storing(p, k) == fill[p].at = "store" /\ fill[p].key = k

Goto(p, at) == fill' = [fill EXCEPT ![p].at = at]

Answer(p, value) ==
  fill' = [fill EXCEPT ![p] = [at |-> "answered", key |-> fill[p].key,
                               value |-> value]]

Unlocked(p) == expired' = expired \ {p}

(* redis.get: a hit answers, a miss tries the lock. *)
Get(p, k) ==
  /\ fill[p].at = "idle"
  /\ fill' = [fill EXCEPT ![p] =
                IF cache[k] # Missing
                THEN [at |-> "answered", key |-> k, value |-> cache[k]]
                ELSE [at |-> "lock", key |-> k]]
  /\ UNCHANGED <<cache, lock, expired>>

(* redis.get fails: settings read it as a miss, the others load directly. *)
GetFails(p, k) ==
  /\ fill[p].at = "idle"
  /\ fill' = [fill EXCEPT ![p] =
                [at |-> IF k \in LenientKeys THEN "lock" ELSE "direct", key |-> k]]
  /\ UNCHANGED <<cache, lock, expired>>

(* SET lock token PX NX *)
TryLock(p) ==
  /\ fill[p].at = "lock"
  /\ IF lock[fill[p].key] = Free
     THEN /\ lock' = [lock EXCEPT ![fill[p].key] = p]
          /\ Goto(p, "load")
     ELSE /\ Goto(p, "wait")
          /\ UNCHANGED lock
  /\ UNCHANGED <<cache, expired>>

(* The command or its reply is lost: the lock may be set, and stays until  *)
(* it expires; the call loads directly.                                    *)
TryLockFails(p) ==
  /\ fill[p].at = "lock"
  /\ \/ UNCHANGED lock
     \/ /\ lock[fill[p].key] = Free
        /\ lock' = [lock EXCEPT ![fill[p].key] = p]
  /\ Goto(p, "direct")
  /\ UNCHANGED <<cache, expired>>

(* loadFromDb under the lock *)
Load(p, db) ==
  /\ fill[p].at = "load"
  /\ fill' = [fill EXCEPT ![p] = [at |-> "store", key |-> fill[p].key,
                                  value |-> db[fill[p].key]]]
  /\ UNCHANGED <<cache, lock, expired>>

(* The database refuses the read: the lock is released on the way out.     *)
LoadFails(p) ==
  /\ fill[p].at = "load"
  /\ Goto(p, "release_failed")
  /\ UNCHANGED <<cache, lock, expired>>

(* SET value EX *)
Store(p) ==
  /\ fill[p].at = "store"
  /\ cache' = [cache EXCEPT ![fill[p].key] = fill[p].value]
  /\ Goto(p, "release")
  /\ UNCHANGED <<lock, expired>>

(* SET fails, with or without effect. *)
StoreFails(p) ==
  /\ fill[p].at = "store"
  /\ \/ UNCHANGED cache
     \/ cache' = [cache EXCEPT ![fill[p].key] = fill[p].value]
  /\ Goto(p, IF fill[p].key \in LenientKeys THEN "release" ELSE "release_failed")
  /\ UNCHANGED <<lock, expired>>

\* Mutant: a plain DEL of the lock, whoever holds it by now.
ReleaseAny(p) ==
  /\ fill[p].at \in {"release", "release_failed"}
  /\ lock' = [lock EXCEPT ![fill[p].key] = Free]
  /\ IF fill[p].at = "release" THEN Answer(p, fill[p].value) ELSE Goto(p, "direct")
  /\ Unlocked(p)
  /\ UNCHANGED cache

(* finally: the script deletes the lock only under the call's own token.   *)
Release(p) ==
  /\ fill[p].at \in {"release", "release_failed"}
  /\ lock' = IF lock[fill[p].key] = p THEN [lock EXCEPT ![fill[p].key] = Free]
             ELSE lock
  /\ IF fill[p].at = "release" THEN Answer(p, fill[p].value) ELSE Goto(p, "direct")
  /\ Unlocked(p)
  /\ UNCHANGED cache

(* The script fails before it runs: the lock stays until it expires.       *)
ReleaseFails(p) ==
  /\ fill[p].at \in {"release", "release_failed"}
  /\ IF fill[p].at = "release" /\ fill[p].key \in LenientKeys
     THEN Answer(p, fill[p].value) ELSE Goto(p, "direct")
  /\ Unlocked(p)
  /\ UNCHANGED <<cache, lock>>

(* A poll that finds the value.  One that does not is a stutter. *)
Poll(p) ==
  /\ fill[p].at = "wait"
  /\ cache[fill[p].key] # Missing
  /\ Answer(p, cache[fill[p].key])
  /\ UNCHANGED <<cache, lock, expired>>

\* Mutant: no deadline, a call polls until the lock is gone.
GiveUpWhenFree(p) ==
  /\ fill[p].at = "wait" /\ lock[fill[p].key] = Free
  /\ Goto(p, "direct")
  /\ UNCHANGED <<cache, lock, expired>>

(* The deadline, or a poll that fails where errors are not swallowed. *)
GiveUp(p) ==
  /\ fill[p].at = "wait"
  /\ Goto(p, "direct")
  /\ UNCHANGED <<cache, lock, expired>>

(* loadFromDb without the lock: nothing is cached. *)
LoadDirect(p, db) ==
  /\ fill[p].at = "direct"
  /\ Answer(p, db[fill[p].key])
  /\ UNCHANGED <<cache, lock, expired>>

\* Mutant: settings are SET without EX.
KeyExpiresButSettings(k) ==
  /\ cache[k] # Missing /\ k \notin LenientKeys
  /\ cache' = [cache EXCEPT ![k] = Missing]
  /\ UNCHANGED <<lock, fill, expired>>

(* The TTLs of Redis. *)
KeyExpires(k) ==
  /\ cache[k] # Missing
  /\ cache' = [cache EXCEPT ![k] = Missing]
  /\ UNCHANGED <<lock, fill, expired>>

LockExpires(k) ==
  /\ lock[k] # Free
  /\ lock' = [lock EXCEPT ![k] = Free]
  /\ expired' = expired \cup {p \in {lock[k]} : FillsKey(p, k)}
  /\ UNCHANGED <<cache, fill>>

----------------------------------------------------------------------------
(* What a call does between its first GET and its answer. *)
ReadStep(p, db) ==
  \/ TryLock(p) \/ Load(p, db) \/ Store(p) \/ Release(p)
  \/ Poll(p) \/ GiveUp(p) \/ LoadDirect(p, db)

ReadFault(p) ==
  \/ TryLockFails(p) \/ LoadFails(p) \/ StoreFails(p) \/ ReleaseFails(p)

ReadInit ==
  /\ cache = [k \in Keys |-> Missing]
  /\ lock = [k \in Keys |-> Free]
  /\ fill = [p \in Procs |-> NoCall]
  /\ expired = {}

(***************************************************************************)
(* The lock.  A fill that still has its lock is the only one that has: two *)
(* fills of a key at once need an expiry, and one that outlived its lock   *)
(* releases nobody else's.                                                 *)
(***************************************************************************)
LockHeldByOwner ==
  \A p \in Procs, k \in Keys :
    FillsKey(p, k) /\ p \notin expired => lock[k] = p

OneLoader ==
  \A p, q \in Procs, k \in Keys :
    FillsKey(p, k) /\ FillsKey(q, k) /\ p # q => p \in expired \/ q \in expired
=============================================================================
