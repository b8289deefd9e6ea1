------------------------- MODULE ReadThroughProofs -------------------------
(***************************************************************************)
(* Every command of a read-through call, every fault and every expiry      *)
(* keeps the lock with its owner.  The modules that compose ReadThrough    *)
(* build their invariance theorem from these steps.                        *)
(***************************************************************************)
EXTENDS ReadThrough, TLAPS

(* What the lock invariant needs to be inductive: that a call which has    *)
(* begun knows its key.                                                    *)
CallsShaped ==
  /\ DOMAIN fill = Procs
  /\ \A p \in Procs : /\ "at" \in DOMAIN fill[p]
                      /\ fill[p].at # "idle" => "key" \in DOMAIN fill[p]

LockInv ==
  /\ CallsShaped
  /\ DOMAIN lock = Keys
  /\ LockHeldByOwner

(* At the start nobody calls and every lock is free. *)
LEMMA LockInvInit == ASSUME ReadInit PROVE LockInv
  BY DEF ReadInit, LockInv, CallsShaped, LockHeldByOwner, FillsKey, Filling, NoCall

(* The value cached under a key has no part in it. *)
LEMMA LockInvIdle ==
  ASSUME LockInv, UNCHANGED <<lock, fill, expired>>
  PROVE  LockInv'
  BY DEF LockInv, CallsShaped, LockHeldByOwner, FillsKey, Filling

(* A call that does not hold a lock afterwards is nobody's owner: it may   *)
(* move as it likes while the others and the locks stay.                   *)
LEMMA MovesAside ==
  ASSUME LockInv, NEW p \in Procs, NEW c,
         "at" \in DOMAIN c, c.at # "idle" => "key" \in DOMAIN c,
         c.at \notin {"load", "store", "release", "release_failed"},
         fill' = [fill EXCEPT ![p] = c], UNCHANGED lock,
         expired \ {p} \subseteq expired'
  PROVE  LockInv'
<1>1. /\ DOMAIN fill' = Procs
      /\ fill'[p] = c
      /\ \A q \in Procs \ {p} : fill'[q] = fill[q]
  BY DEF LockInv, CallsShaped
<1>2. CallsShaped'
  BY <1>1 DEF LockInv, CallsShaped
<1>3. LockHeldByOwner'
  BY <1>1 DEF LockInv, LockHeldByOwner, FillsKey, Filling
<1> QED
  BY <1>2, <1>3 DEF LockInv

(* A call that goes on with the same key, under the lock it already had.   *)
LEMMA MovesOn ==
  ASSUME LockInv, NEW p \in Procs, NEW c,
         "at" \in DOMAIN c, "key" \in DOMAIN c, c.key = fill[p].key,
         Filling(p),
         fill' = [fill EXCEPT ![p] = c], UNCHANGED <<lock, expired>>
  PROVE  LockInv'
<1>1. /\ DOMAIN fill' = Procs
      /\ fill'[p] = c
      /\ \A q \in Procs \ {p} : fill'[q] = fill[q]
  BY DEF LockInv, CallsShaped
<1>2. CallsShaped'
  BY <1>1 DEF LockInv, CallsShaped
<1>3. LockHeldByOwner'
  BY <1>1 DEF LockInv, LockHeldByOwner, FillsKey, Filling
<1> QED
  BY <1>2, <1>3 DEF LockInv

(* What Goto leaves of a call that has begun: its key, at another place.   *)
LEMMA GotoShape ==
  ASSUME LockInv, NEW p \in Procs, fill[p].at # "idle", NEW a
  PROVE  LET c == [fill[p] EXCEPT !.at = a]
         IN  "at" \in DOMAIN c /\ "key" \in DOMAIN c /\ c.at = a /\ c.key = fill[p].key
  BY DEF LockInv, CallsShaped

(* The answer of a call that has begun: a record with its key. *)
LEMMA AnswerStep ==
  ASSUME LockInv, NEW p \in Procs, NEW value, Answer(p, value),
         UNCHANGED lock, expired \ {p} \subseteq expired'
  PROVE  LockInv'
<1> DEFINE c == [at |-> "answered", key |-> fill[p].key, value |-> value]
<1>1. "at" \in DOMAIN c /\ "key" \in DOMAIN c /\ c.at = "answered"
  OBVIOUS
<1>2. fill' = [fill EXCEPT ![p] = c]
  BY DEF Answer
<1> HIDE DEF c
<1> QED
  BY <1>1, <1>2, MovesAside

(* Goto to a place without the lock. *)
LEMMA GotoAside ==
  ASSUME LockInv, NEW p \in Procs, NEW a, Goto(p, a), fill[p].at # "idle",
         a \notin {"load", "store", "release", "release_failed"},
         UNCHANGED lock, expired \ {p} \subseteq expired'
  PROVE  LockInv'
<1> DEFINE c == [fill[p] EXCEPT !.at = a]
<1>1. "at" \in DOMAIN c /\ "key" \in DOMAIN c /\ c.at = a
  BY GotoShape
<1>2. fill' = [fill EXCEPT ![p] = c]
  BY DEF Goto
<1> HIDE DEF c
<1> QED
  BY <1>1, <1>2, MovesAside

(* Goto from one place under the lock to another. *)
LEMMA GotoOn ==
  ASSUME LockInv, NEW p \in Procs, NEW a, Goto(p, a), Filling(p),
         UNCHANGED <<lock, expired>>
  PROVE  LockInv'
<1> DEFINE c == [fill[p] EXCEPT !.at = a]
<1>1. "at" \in DOMAIN c /\ "key" \in DOMAIN c /\ c.key = fill[p].key
  BY GotoShape DEF Filling
<1>2. fill' = [fill EXCEPT ![p] = c]
  BY DEF Goto
<1> HIDE DEF c
<1> QED
  BY <1>1, <1>2, MovesOn

(* A call begins: it has no lock yet. *)
LEMMA GetStep ==
  ASSUME LockInv, NEW p \in Procs, NEW k, Get(p, k) \/ GetFails(p, k)
  PROVE  LockInv'
<1> DEFINE hit  == [at |-> "answered", key |-> k, value |-> cache[k]]
           miss(a) == [at |-> a, key |-> k]
<1>1. /\ "at" \in DOMAIN hit /\ "key" \in DOMAIN hit /\ hit.at = "answered"
      /\ \A a : /\ "at" \in DOMAIN miss(a) /\ "key" \in DOMAIN miss(a)
               /\ miss(a).at = a
  OBVIOUS
<1>2. \/ fill' = [fill EXCEPT ![p] = hit]
      \/ \E a \in {"lock", "direct"} : fill' = [fill EXCEPT ![p] = miss(a)]
  BY DEF Get, GetFails
<1>3. UNCHANGED <<lock, expired>>
  BY DEF Get, GetFails
<1> HIDE DEF hit, miss
<1>4. CASE fill' = [fill EXCEPT ![p] = hit]
  BY <1>1, <1>3, <1>4, MovesAside
<1>5. CASE \E a \in {"lock", "direct"} : fill' = [fill EXCEPT ![p] = miss(a)]
  <2>1. PICK a \in {"lock", "direct"} : fill' = [fill EXCEPT ![p] = miss(a)]
    BY <1>5
  <2> QED
    BY <2>1, <1>1, <1>3, MovesAside
<1> QED
  BY <1>2, <1>4, <1>5

(* SET NX: the lock was free, so no fill that has not expired lost it. *)
LEMMA LockTaken ==
  ASSUME LockInv, NEW p \in Procs, NEW a, fill[p].at = "lock", Goto(p, a),
         lock[fill[p].key] = Free,
         lock' = [lock EXCEPT ![fill[p].key] = p], UNCHANGED expired
  PROVE  LockInv'
<1> DEFINE c == [fill[p] EXCEPT !.at = a]
<1>1. "at" \in DOMAIN c /\ "key" \in DOMAIN c /\ c.at = a /\ c.key = fill[p].key
  BY GotoShape
<1>2. fill' = [fill EXCEPT ![p] = c]
  BY DEF Goto
<1> HIDE DEF c
<1>3. /\ DOMAIN fill' = Procs
      /\ fill'[p] = c
      /\ \A q \in Procs \ {p} : fill'[q] = fill[q]
  BY <1>2 DEF LockInv, CallsShaped
<1>4. CallsShaped'
  BY <1>1, <1>3 DEF LockInv, CallsShaped
<1>5. LockHeldByOwner'
  <2> SUFFICES ASSUME NEW q \in Procs, NEW k \in Keys, FillsKey(q, k)', q \notin expired
               PROVE  lock'[k] = q
    BY DEF LockHeldByOwner
  <2>1. CASE q = p
    BY <2>1, <1>1, <1>3 DEF LockInv, FillsKey
  <2>2. CASE q # p
    <3>1. lock[k] = q
      BY <2>2, <1>3 DEF LockInv, LockHeldByOwner, FillsKey, Filling
    <3>2. k # fill[p].key
      BY <3>1, ReadThroughAssumption
    <3> QED
      BY <3>1, <3>2 DEF LockInv
  <2> QED
    BY <2>1, <2>2
<1>6. DOMAIN lock' = Keys
  BY DEF LockInv
<1> QED
  BY <1>4, <1>5, <1>6 DEF LockInv

(* The compare-and-delete takes the lock from nobody but its owner, which  *)
(* fills no longer.                                                        *)
LEMMA ReleaseStep ==
  ASSUME LockInv, NEW p \in Procs, Release(p)
  PROVE  LockInv'
<1> DEFINE c == IF fill[p].at = "release"
                THEN [at |-> "answered", key |-> fill[p].key, value |-> fill[p].value]
                ELSE [fill[p] EXCEPT !.at = "direct"]
<1>1. "at" \in DOMAIN c /\ "key" \in DOMAIN c /\ c.at \in {"answered", "direct"}
  <2>1. fill[p].at # "idle"
    BY DEF Release
  <2>2. CASE fill[p].at = "release"
    BY <2>2
  <2>3. CASE fill[p].at # "release"
    BY <2>1, <2>3, GotoShape
  <2> QED
    BY <2>2, <2>3
<1>2. fill' = [fill EXCEPT ![p] = c]
  BY DEF Release, Answer, Goto
<1> HIDE DEF c
<1>3. /\ DOMAIN fill' = Procs
      /\ fill'[p] = c
      /\ \A q \in Procs \ {p} : fill'[q] = fill[q]
  BY <1>2 DEF LockInv, CallsShaped
<1>4. CallsShaped'
  BY <1>1, <1>3 DEF LockInv, CallsShaped
<1>5. LockHeldByOwner'
  <2> SUFFICES ASSUME NEW q \in Procs, NEW k \in Keys, FillsKey(q, k)', q \notin expired'
               PROVE  lock'[k] = q
    BY DEF LockHeldByOwner
  <2>1. q # p
    BY <1>1, <1>3 DEF FillsKey, Filling
  <2>2. lock[k] = q
    BY <2>1, <1>3 DEF LockInv, LockHeldByOwner, FillsKey, Filling, Release, Unlocked
  <2> QED
    BY <2>1, <2>2 DEF LockInv, Release
<1>6. DOMAIN lock' = Keys
  BY DEF LockInv, Release
<1> QED
  BY <1>4, <1>5, <1>6 DEF LockInv

(* PX: the owner, if it still fills, is counted among the expired. *)
LEMMA ExpiryStep ==
  ASSUME LockInv, NEW k \in Keys, KeyExpires(k) \/ LockExpires(k)
  PROVE  LockInv'
<1>1. CASE KeyExpires(k)
  BY <1>1, LockInvIdle DEF KeyExpires
<1>2. CASE LockExpires(k)
  <2>1. CallsShaped' /\ DOMAIN lock' = Keys
    BY <1>2 DEF LockInv, CallsShaped, LockExpires
  <2>2. LockHeldByOwner'
    BY <1>2 DEF LockInv, LockHeldByOwner, LockExpires, FillsKey, Filling
  <2> QED
    BY <2>1, <2>2 DEF LockInv
<1> QED
  BY <1>1, <1>2

(* A command between the first GET and the answer. *)
LEMMA ReadStepKeepsLock ==
  ASSUME LockInv, NEW p \in Procs, NEW d, ReadStep(p, d)
  PROVE  LockInv'
<1>1. CASE TryLock(p)
  <2>1. CASE lock[fill[p].key] = Free
    BY <1>1, <2>1, LockTaken DEF TryLock
  <2>2. CASE lock[fill[p].key] # Free
    BY <1>1, <2>2, GotoAside DEF TryLock
  <2> QED
    BY <2>1, <2>2
<1>2. CASE Load(p, d)
  <2> DEFINE c == [at |-> "store", key |-> fill[p].key, value |-> d[fill[p].key]]
  <2>1. "at" \in DOMAIN c /\ "key" \in DOMAIN c /\ c.key = fill[p].key
    OBVIOUS
  <2>2. fill' = [fill EXCEPT ![p] = c] /\ Filling(p) /\ UNCHANGED <<lock, expired>>
    BY <1>2 DEF Load, Filling
  <2> HIDE DEF c
  <2> QED
    BY <2>1, <2>2, MovesOn
<1>3. CASE Store(p)
  BY <1>3, GotoOn DEF Store, Filling
<1>4. CASE Release(p)
  BY <1>4, ReleaseStep
<1>5. CASE Poll(p)
  BY <1>5, AnswerStep DEF Poll
<1>6. CASE GiveUp(p)
  BY <1>6, GotoAside DEF GiveUp
<1>7. CASE LoadDirect(p, d)
  BY <1>7, AnswerStep DEF LoadDirect
<1> QED
  BY <1>1, <1>2, <1>3, <1>4, <1>5, <1>6, <1>7 DEF ReadStep

(* A command that fails, with or without effect. *)
LEMMA ReadFaultKeepsLock ==
  ASSUME LockInv, NEW p \in Procs, ReadFault(p)
  PROVE  LockInv'
<1>1. CASE TryLockFails(p)
  <2>1. CASE UNCHANGED lock
    BY <1>1, <2>1, GotoAside DEF TryLockFails
  <2>2. CASE ~ UNCHANGED lock
    BY <1>1, <2>2, LockTaken DEF TryLockFails
  <2> QED
    BY <2>1, <2>2
<1>2. CASE LoadFails(p)
  BY <1>2, GotoOn DEF LoadFails, Filling
<1>3. CASE StoreFails(p)
  BY <1>3, GotoOn DEF StoreFails, Filling
<1>4. CASE ReleaseFails(p)
  BY <1>4, AnswerStep, GotoAside DEF ReleaseFails, Unlocked
<1> QED
  BY <1>1, <1>2, <1>3, <1>4 DEF ReadFault

(* The caller takes the answer and is ready for another call. *)
LEMMA AnswerTaken ==
  ASSUME LockInv, NEW p \in Procs, fill' = [fill EXCEPT ![p] = NoCall],
         UNCHANGED <<lock, expired>>
  PROVE  LockInv'
<1>1. "at" \in DOMAIN NoCall /\ NoCall.at = "idle"
  BY DEF NoCall
<1> QED
  BY <1>1, MovesAside

(* Two fills of one key at once need an expiry: both would own its lock. *)
LEMMA OwnerIsOnlyLoader == ASSUME LockHeldByOwner PROVE OneLoader
  BY DEF LockHeldByOwner, OneLoader

----------------------------------------------------------------------------
(* What is cached, and what a fill is about to cache, against the values   *)
(* that count as up to date: ok[k] is their set, s the keys to leave out.  *)
FillsWithin(ok, s) ==
  \A q \in Procs, k \in Keys : Storing(q, k) /\ k \notin s => fill[q].value \in ok[k]
CacheWithin(ok, s) ==
  /\ DOMAIN cache = Keys
  /\ \A k \in Keys : k \notin s => cache[k] \in {Missing} \cup ok[k]

LEMMA WithinInit == ASSUME ReadInit, NEW ok, NEW s PROVE FillsWithin(ok, s) /\ CacheWithin(ok, s)
  BY DEF ReadInit, FillsWithin, CacheWithin, Storing, NoCall

(* A call that does not come to hold a value for the cache. *)
LEMMA FillsStayWithin ==
  ASSUME CallsShaped, NEW p \in Procs, NEW ok, NEW s, NEW c,
         FillsWithin(ok, s), fill' = [fill EXCEPT ![p] = c], c.at # "store"
  PROVE  FillsWithin(ok, s)'
  BY DEF CallsShaped, FillsWithin, Storing

LEMMA GotoStaysWithin ==
  ASSUME LockInv, NEW p \in Procs, NEW ok, NEW s, NEW a,
         FillsWithin(ok, s), Goto(p, a), fill[p].at # "idle", a # "store"
  PROVE  FillsWithin(ok, s)'
<1> DEFINE c == [fill[p] EXCEPT !.at = a]
<1>1. c.at = a
  BY GotoShape
<1>2. fill' = [fill EXCEPT ![p] = c]
  BY DEF Goto
<1> HIDE DEF c
<1> QED
  BY <1>1, <1>2, FillsStayWithin DEF LockInv

LEMMA AnswerStaysWithin ==
  ASSUME LockInv, NEW p \in Procs, NEW ok, NEW s, NEW value,
         FillsWithin(ok, s), Answer(p, value)
  PROVE  FillsWithin(ok, s)'
<1> DEFINE c == [at |-> "answered", key |-> fill[p].key, value |-> value]
<1>1. c.at # "store"
  OBVIOUS
<1>2. fill' = [fill EXCEPT ![p] = c]
  BY DEF Answer
<1> HIDE DEF c
<1> QED
  BY <1>1, <1>2, FillsStayWithin DEF LockInv

LEMMA GetStaysWithin ==
  ASSUME LockInv, NEW p \in Procs, NEW k, NEW ok, NEW s,
         FillsWithin(ok, s), Get(p, k) \/ GetFails(p, k)
  PROVE  FillsWithin(ok, s)' /\ UNCHANGED cache
<1> DEFINE hit  == [at |-> "answered", key |-> k, value |-> cache[k]]
           miss(a) == [at |-> a, key |-> k]
<1>1. hit.at # "store" /\ \A a : miss(a).at = a
  OBVIOUS
<1>2. /\ UNCHANGED cache
      /\ \/ fill' = [fill EXCEPT ![p] = hit]
         \/ \E a \in {"lock", "direct"} : fill' = [fill EXCEPT ![p] = miss(a)]
  BY DEF Get, GetFails
<1> HIDE DEF hit, miss
<1>3. CASE fill' = [fill EXCEPT ![p] = hit]
  BY <1>1, <1>2, <1>3, FillsStayWithin DEF LockInv
<1>4. CASE \E a \in {"lock", "direct"} : fill' = [fill EXCEPT ![p] = miss(a)]
  <2>1. PICK a \in {"lock", "direct"} : fill' = [fill EXCEPT ![p] = miss(a)]
    BY <1>4
  <2> QED
    BY <2>1, <1>1, <1>2, FillsStayWithin DEF LockInv
<1> QED
  BY <1>2, <1>3, <1>4

(* SET, with or without effect: the cache gets what the fill loaded.       *)
LEMMA StoreKeepsWithin ==
  ASSUME LockInv, NEW p \in Procs, NEW ok, NEW s, NEW t, s \subseteq t,
         FillsWithin(ok, s), CacheWithin(ok, t), Store(p) \/ StoreFails(p)
  PROVE  FillsWithin(ok, s)' /\ CacheWithin(ok, t)'
<1>1. FillsWithin(ok, s)'
  BY GotoStaysWithin DEF Store, StoreFails
<1>2. CacheWithin(ok, t)'
  <2>1. CASE UNCHANGED cache
    BY <2>1 DEF CacheWithin
  <2>2. CASE cache' = [cache EXCEPT ![fill[p].key] = fill[p].value]
    BY <2>2 DEF CacheWithin, FillsWithin, Storing, Store, StoreFails
  <2> QED
    BY <2>1, <2>2 DEF Store, StoreFails
<1> QED
  BY <1>1, <1>2

LEMMA ReadStepKeepsWithin ==
  ASSUME LockInv, NEW p \in Procs, NEW ok, NEW s, NEW t, s \subseteq t,
         NEW d, \A k \in Keys : d[k] \in ok[k],
         FillsWithin(ok, s), CacheWithin(ok, t), ReadStep(p, d)
  PROVE  FillsWithin(ok, s)' /\ CacheWithin(ok, t)'
<1>1. CASE Store(p)
  BY <1>1, StoreKeepsWithin
<1>2. CASE Load(p, d)
  <2>1. FillsWithin(ok, s)'
    BY <1>2 DEF LockInv, CallsShaped, FillsWithin, Storing, Load
  <2> QED
    BY <1>2, <2>1 DEF CacheWithin, Load
<1>3. CASE \/ TryLock(p) \/ Release(p) \/ Poll(p) \/ GiveUp(p) \/ LoadDirect(p, d)
  <2>1. FillsWithin(ok, s)'
    BY <1>3, GotoStaysWithin, AnswerStaysWithin
    DEF TryLock, Release, Poll, GiveUp, LoadDirect
  <2>2. UNCHANGED cache
    BY <1>3 DEF TryLock, Release, Poll, GiveUp, LoadDirect
  <2> QED
    BY <2>1, <2>2 DEF CacheWithin
<1> QED
  BY <1>1, <1>2, <1>3 DEF ReadStep

LEMMA ReadFaultKeepsWithin ==
  ASSUME LockInv, NEW p \in Procs, NEW ok, NEW s, NEW t, s \subseteq t,
         FillsWithin(ok, s), CacheWithin(ok, t), ReadFault(p)
  PROVE  FillsWithin(ok, s)' /\ CacheWithin(ok, t)'
<1>1. CASE StoreFails(p)
  BY <1>1, StoreKeepsWithin
<1>2. CASE TryLockFails(p) \/ LoadFails(p) \/ ReleaseFails(p)
  <2>1. FillsWithin(ok, s)'
    BY <1>2, GotoStaysWithin, AnswerStaysWithin DEF TryLockFails, LoadFails, ReleaseFails
  <2>2. UNCHANGED cache
    BY <1>2 DEF TryLockFails, LoadFails, ReleaseFails
  <2> QED
    BY <2>1, <2>2 DEF CacheWithin
<1> QED
  BY <1>1, <1>2 DEF ReadFault

LEMMA ExpiryKeepsWithin ==
  ASSUME NEW k \in Keys, NEW ok, NEW s, NEW t,
         FillsWithin(ok, s), CacheWithin(ok, t), KeyExpires(k) \/ LockExpires(k)
  PROVE  FillsWithin(ok, s)' /\ CacheWithin(ok, t)'
<1>1. FillsWithin(ok, s)'
  BY DEF FillsWithin, Storing, KeyExpires, LockExpires
<1>2. CacheWithin(ok, t)'
  BY DEF CacheWithin, KeyExpires, LockExpires
<1> QED
  BY <1>1, <1>2
----------------------------------------------------------------------------
(* The same for one value a key: d is db at this moment. *)
FillsFresh(d, s) ==
  \A q \in Procs, k \in Keys : Storing(q, k) /\ k \notin s => fill[q].value = d[k]
CacheFresh(d, s) ==
  /\ DOMAIN cache = Keys
  /\ \A k \in Keys : k \notin s => cache[k] \in {Missing, d[k]}

Only(d) == [k \in Keys |-> {d[k]}]

LEMMA FreshIsWithin ==
  ASSUME NEW d, NEW s
  PROVE  /\ FillsFresh(d, s) <=> FillsWithin(Only(d), s)
         /\ CacheFresh(d, s) <=> CacheWithin(Only(d), s)
         /\ FillsFresh(d, s)' <=> FillsWithin(Only(d), s)'
         /\ CacheFresh(d, s)' <=> CacheWithin(Only(d), s)'
  BY DEF FillsFresh, CacheFresh, FillsWithin, CacheWithin, Only

LEMMA FreshInit == ASSUME ReadInit, NEW d, NEW s PROVE FillsFresh(d, s) /\ CacheFresh(d, s)
  BY FreshIsWithin, WithinInit

LEMMA GetStaysFresh ==
  ASSUME LockInv, NEW p \in Procs, NEW k, NEW d, NEW s,
         FillsFresh(d, s), Get(p, k) \/ GetFails(p, k)
  PROVE  FillsFresh(d, s)' /\ UNCHANGED cache
  BY FreshIsWithin, GetStaysWithin

LEMMA ReadStepKeepsFresh ==
  ASSUME LockInv, NEW p \in Procs, NEW d, NEW s, NEW t, s \subseteq t,
         FillsFresh(d, s), CacheFresh(d, t), ReadStep(p, d)
  PROVE  FillsFresh(d, s)' /\ CacheFresh(d, t)'
<1>1. \A k \in Keys : d[k] \in Only(d)[k]
  BY DEF Only
<1> QED
  BY <1>1, FreshIsWithin, ReadStepKeepsWithin

LEMMA ReadFaultKeepsFresh ==
  ASSUME LockInv, NEW p \in Procs, NEW d, NEW s, NEW t, s \subseteq t,
         FillsFresh(d, s), CacheFresh(d, t), ReadFault(p)
  PROVE  FillsFresh(d, s)' /\ CacheFresh(d, t)'
  BY FreshIsWithin, ReadFaultKeepsWithin

----------------------------------------------------------------------------
(* What a call of p for key k carries: from the load or the hit on, a      *)
(* value that counts as up to date.                                        *)
Holds(p, k, ok) ==
  /\ fill[p].at # "idle" => fill[p].key = k
  /\ fill[p].at \in {"store", "release", "answered"} =>
       "value" \in DOMAIN fill[p] /\ fill[p].value \in ok

LEMMA IdleHolds == ASSUME NEW p, NEW k, NEW ok, fill[p] = NoCall PROVE Holds(p, k, ok)
  BY DEF Holds, NoCall

(* A call's command moves no other call. *)
LEMMA CommandMovesOne ==
  ASSUME CallsShaped, NEW p \in Procs, NEW k, NEW d,
         Get(p, k) \/ GetFails(p, k) \/ ReadStep(p, d) \/ ReadFault(p)
  PROVE  \A q \in Procs \ {p} : fill'[q] = fill[q]
<1>1. \E c : fill' = [fill EXCEPT ![p] = c]
  BY DEF Get, GetFails, ReadStep, TryLock, Load, Store, Release, Poll, GiveUp, LoadDirect,
         ReadFault, TryLockFails, LoadFails, StoreFails, ReleaseFails, Goto, Answer
<1> QED
  BY <1>1 DEF CallsShaped

(* Goto keeps what a call carries, unless it is new there. *)
LEMMA GotoHolds ==
  ASSUME CallsShaped, NEW p \in Procs, NEW k, NEW ok, NEW a, Holds(p, k, ok),
         Goto(p, a), fill[p].at # "idle",
         \/ a \notin {"store", "release", "answered"}
         \/ fill[p].at \in {"store", "release", "answered"}
  PROVE  Holds(p, k, ok)'
<1> DEFINE c == [fill[p] EXCEPT !.at = a]
<1>1. c.at = a /\ c.key = fill[p].key /\ ("value" \in DOMAIN fill[p] => c.value = fill[p].value)
      /\ DOMAIN c = DOMAIN fill[p]
  BY DEF CallsShaped
<1>2. fill'[p] = c
  BY DEF Goto, CallsShaped
<1> HIDE DEF c
<1> QED
  BY <1>1, <1>2 DEF Holds

LEMMA AnswerHolds ==
  ASSUME CallsShaped, NEW p \in Procs, NEW k, NEW ok, NEW value, Holds(p, k, ok),
         Answer(p, value), fill[p].at # "idle", value \in ok
  PROVE  Holds(p, k, ok)'
<1>1. fill'[p] = [at |-> "answered", key |-> fill[p].key, value |-> value]
  BY DEF Answer, CallsShaped
<1> QED
  BY <1>1 DEF Holds

(* A command of a call for k, when the database and the cache have values  *)
(* that count under k.                                                     *)
LEMMA CommandHolds ==
  ASSUME CallsShaped, NEW p \in Procs, NEW k, NEW ok, NEW d, Holds(p, k, ok),
         d[k] \in ok, cache[k] \in {Missing} \cup ok,
         Get(p, k) \/ GetFails(p, k) \/ ReadStep(p, d) \/ ReadFault(p)
  PROVE  Holds(p, k, ok)'
<1>1. CASE Get(p, k)
  <2>1. \/ /\ fill'[p] = [at |-> "answered", key |-> k, value |-> cache[k]]
           /\ cache[k] # Missing
        \/ fill'[p] = [at |-> "lock", key |-> k]
    BY <1>1 DEF Get, CallsShaped
  <2> QED
    BY <2>1 DEF Holds
<1>2. CASE GetFails(p, k)
  <2>1. \E a \in {"lock", "direct"} : fill'[p] = [at |-> a, key |-> k]
    BY <1>2 DEF GetFails, CallsShaped
  <2> QED
    BY <2>1 DEF Holds
<1>3. CASE Load(p, d)
  <2>1. fill'[p] = [at |-> "store", key |-> fill[p].key, value |-> d[fill[p].key]]
        /\ fill[p].key = k
    BY <1>3 DEF Load, CallsShaped, Holds
  <2> QED
    BY <2>1 DEF Holds
<1>4. CASE TryLock(p) \/ Store(p) \/ GiveUp(p)
  BY <1>4, GotoHolds DEF TryLock, Store, GiveUp
<1>5. CASE Release(p)
  BY <1>5, GotoHolds, AnswerHolds DEF Release, Holds
<1>6. CASE Poll(p)
  BY <1>6, AnswerHolds DEF Poll, Holds
<1>7. CASE LoadDirect(p, d)
  BY <1>7, AnswerHolds DEF LoadDirect, Holds
<1>8. CASE TryLockFails(p) \/ LoadFails(p) \/ StoreFails(p)
  BY <1>8, GotoHolds DEF TryLockFails, LoadFails, StoreFails
<1>9. CASE ReleaseFails(p)
  BY <1>9, GotoHolds, AnswerHolds DEF ReleaseFails, Holds
<1> QED
  BY <1>1, <1>2, <1>3, <1>4, <1>5, <1>6, <1>7, <1>8, <1>9 DEF ReadStep, ReadFault

(* Only the key of the call is written in the cache. *)
LEMMA CommandWrites ==
  ASSUME NEW p \in Procs, NEW k, NEW ok, NEW d, Holds(p, k, ok),
         Get(p, k) \/ GetFails(p, k) \/ ReadStep(p, d) \/ ReadFault(p)
  PROVE  /\ DOMAIN cache' = DOMAIN cache
         /\ \A j \in DOMAIN cache : cache'[j] = cache[j] \/ (j = k /\ cache'[j] \in ok)
<1>1. CASE Store(p) \/ StoreFails(p)
  BY <1>1 DEF Store, StoreFails, Holds
<1>2. CASE ~ (Store(p) \/ StoreFails(p))
  <2>1. UNCHANGED cache
    BY <1>2 DEF Get, GetFails, ReadStep, TryLock, Load, Release, Poll, GiveUp, LoadDirect,
                ReadFault, TryLockFails, LoadFails, ReleaseFails
  <2> QED
    BY <2>1
<1> QED
  BY <1>1, <1>2
=============================================================================
