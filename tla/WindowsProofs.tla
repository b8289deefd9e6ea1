--------------------------- MODULE WindowsProofs ---------------------------
(***************************************************************************)
(* The caches of settings and slots are filled under a lock that stays     *)
(* with its owner, whatever requests students and administrators make.     *)
(***************************************************************************)
EXTENDS RegistrationWindows, ReadThroughProofs, WellFoundedInduction

(* A request of a student or an administrator that takes the answer of its *)
(* read; PublishCache writes a value without the lock.                     *)
LEMMA RequestKeepsLock ==
  ASSUME LockInv, NEW p \in Procs,
         \/ \E student \in Students : Enter(p, student)
         \/ GateStep(p) \/ AdminAsks(p) \/ AdminStep(p) \/ PublishFails(p)
  PROVE  LockInv'
<1> USE DEF readVars
<1> DEFINE Taken == \E t : Proceed(p, t)
           Kept  == UNCHANGED <<lock, fill, expired>>
<1>1. CASE \E student \in Students : Enter(p, student)
  <2>1. Kept
    BY <1>1 DEF Enter
  <2> QED
    BY <2>1, LockInvIdle
<1>2. CASE GateStep(p)
  <2>1. Taken
    BY <1>2 DEF GateStep, ReadSemester, CheckSemester, FindCurrent, FindCurrentSlot,
                FindNext, FindNextSlot, FindAssigned, Leave, Decide, Step, Finish
  <2> QED
    BY <2>1, AnswerTaken DEF Proceed
<1>3. CASE AdminAsks(p)
  <2>1. Kept
    BY <1>3 DEF AdminAsks, AskSettings, AskCreate, AskUpdate, AskRemove, Ask
  <2> QED
    BY <2>1, LockInvIdle
<1>4. CASE AdminStep(p)
  <2>1. Taken \/ Kept
    <3>1. CASE ValidateSettings(p)
      BY <3>1 DEF ValidateSettings, Finish
    <3>2. CASE ValidateCreate(p)
      BY <3>2 DEF ValidateCreate, Finish
    <3>3. CASE ValidateUpdate(p)
      BY <3>3 DEF ValidateUpdate, Finish
    <3>4. CASE WriteSettings(p)
      BY <3>4 DEF WriteSettings
    <3>5. CASE WriteCreate(p)
      BY <3>5 DEF WriteCreate
    <3>6. CASE WriteUpdate(p)
      BY <3>6 DEF WriteUpdate, Finish
    <3>7. CASE WriteRemove(p)
      BY <3>7 DEF WriteRemove, Finish
    <3>8. CASE PublishCache(p)
      BY <3>8 DEF PublishCache
    <3> QED
      BY <1>4, <3>1, <3>2, <3>3, <3>4, <3>5, <3>6, <3>7, <3>8 DEF AdminStep
  <2> QED
    BY <2>1, LockInvIdle, AnswerTaken DEF Proceed
<1>5. CASE PublishFails(p)
  <2>1. Kept
    BY <1>5 DEF PublishFails
  <2> QED
    BY <2>1, LockInvIdle
<1> QED
  BY <1>1, <1>2, <1>3, <1>4, <1>5

LEMMA NextKeepsLock ==
  ASSUME LockInv, [Next]_vars
  PROVE  LockInv'
<1>1. CASE \E p \in Procs :
             \/ \E student \in Students : Enter(p, student)
             \/ GateStep(p) \/ AdminAsks(p) \/ AdminStep(p) \/ PublishFails(p)
  BY <1>1, RequestKeepsLock
<1>2. ASSUME NEW p \in Procs, ReadCache(p)
      PROVE  LockInv'
  BY <1>2, GetStep, ReadStepKeepsLock DEF ReadCache
<1>3. ASSUME NEW p \in Procs, ReadCacheFails(p)
      PROVE  LockInv'
  BY <1>3, GetStep, ReadFaultKeepsLock DEF ReadCacheFails
<1>4. CASE Tick
  BY <1>4, LockInvIdle DEF Tick, readVars
<1>5. CASE \E k \in Keys : Expire(k)
  BY <1>5, ExpiryStep DEF Expire
<1>6. CASE UNCHANGED vars
  BY <1>6, LockInvIdle DEF vars, readVars
<1> QED
  BY <1>1, <1>2, <1>3, <1>4, <1>5, <1>6 DEF Next

(* A call whose lock has not expired owns it until it gives it back:       *)
(* nobody else's release takes it away, whatever fails.                    *)
THEOREM LockStaysWithOwner == Spec => []LockHeldByOwner
<1>1. Init => LockInv
  BY LockInvInit DEF Init
<1>2. LockInv /\ [Next]_vars => LockInv'
  BY NextKeepsLock
<1>3. LockInv => LockHeldByOwner
  BY DEF LockInv
<1> QED
  BY <1>1, <1>2, <1>3, PTL DEF Spec

(* Two requests fill one cache at the same time only after an expiry.      *)
THEOREM OneLoaderPerKey == Spec => []OneLoader
<1>1. LockHeldByOwner => OneLoader
  BY OwnerIsOnlyLoader
<1> QED
  BY <1>1, LockStaysWithOwner, PTL

----------------------------------------------------------------------------
(* Cache coherence.  The strengthening of CachedIsCurrent: also a fill     *)
(* that is about to SET, and an update that is about to, hold the current  *)
(* value, unless a commit overtook them.                                   *)
PendingKeys == {k \in Keys : Pending(k)}

TasksShaped ==
  /\ DOMAIN task = Procs
  /\ \A p \in Procs :
       /\ "step" \in DOMAIN task[p]
       /\ task[p].step = "publish" =>
            /\ "keys" \in DOMAIN task[p] /\ "value" \in DOMAIN task[p]
            /\ \E a, b : task[p].keys \in {<<a>>, <<a, b>>}

PublishFresh ==
  \A p \in Procs : task[p].step = "publish" =>
    \/ task[p].value = Missing
    \/ /\ task[p].keys = <<"settings">>
       /\ "settings" \notin suspect => task[p].value = Settings

CacheInv ==
  /\ LockInv
  /\ TasksShaped
  /\ DOMAIN slots = SlotIds
  /\ FillsFresh(db, suspect)
  /\ CacheFresh(db, suspect \cup PendingKeys)
  /\ PublishFresh

LEMMA SameDatabase == ASSUME UNCHANGED <<row, slots>> PROVE db' = db /\ Settings' = Settings
  BY DEF db, Settings, SlotsOf

LEMMA CacheInvInit == ASSUME Init PROVE CacheInv
<1>1. LockInv
  BY LockInvInit DEF Init
<1>2. TasksShaped /\ PublishFresh
  BY DEF Init, TasksShaped, PublishFresh, NoTask
<1>3. DOMAIN slots = SlotIds
  BY WindowsAssumption DEF Init
<1>4. FillsFresh(db, suspect) /\ CacheFresh(db, suspect \cup PendingKeys)
  BY FreshInit DEF Init
<1> QED
  BY <1>1, <1>2, <1>3, <1>4 DEF CacheInv

(* A step that changes neither the database nor what requests publish, and *)
(* keeps cache and fills fresh.                                            *)
LEMMA QuietTasks ==
  ASSUME CacheInv, UNCHANGED <<row, slots, suspect>>,
         \/ UNCHANGED task
         \/ \E p \in Procs : \E t :
              /\ task' = [task EXCEPT ![p] = t]
              /\ "step" \in DOMAIN t /\ t.step # "publish"
              /\ task[p].step # "publish"
  PROVE  /\ TasksShaped' /\ PublishFresh' /\ DOMAIN slots' = SlotIds
         /\ PendingKeys' = PendingKeys
         /\ db' = db
<1>1. TasksShaped'
  BY DEF CacheInv, TasksShaped
<1>2. \A q \in Procs : \/ task'[q].step # "publish" /\ task[q].step # "publish"
                      \/ task'[q] = task[q]
  BY DEF CacheInv, TasksShaped
<1>3. PublishFresh'
  BY <1>2, SameDatabase DEF CacheInv, PublishFresh
<1>4. PendingKeys' = PendingKeys
  BY <1>2 DEF PendingKeys, Pending
<1> QED
  BY <1>1, <1>3, <1>4, SameDatabase DEF CacheInv

(* A request that takes the answer of its read and goes on. *)
LEMMA ProceedKeepsCache ==
  ASSUME CacheInv, NEW p \in Procs, NEW t, Proceed(p, t),
         UNCHANGED <<row, slots, suspect>>,
         task[p].step # "publish", "step" \in DOMAIN t, t.step # "publish"
  PROVE  CacheInv'
<1>1. LockInv'
  BY AnswerTaken DEF CacheInv, Proceed
<1>2. /\ TasksShaped' /\ PublishFresh' /\ DOMAIN slots' = SlotIds
      /\ PendingKeys' = PendingKeys
      /\ db' = db
  BY QuietTasks DEF Proceed
<1>3. NoCall.at # "store"
  BY DEF NoCall
<1>4. FillsFresh(db, suspect)'
  BY <1>2, <1>3 DEF CacheInv, LockInv, CallsShaped, Proceed, FillsFresh, Storing
<1>5. CacheFresh(db, suspect \cup PendingKeys)'
  BY <1>2 DEF CacheInv, Proceed, CacheFresh
<1> QED
  BY <1>1, <1>2, <1>4, <1>5 DEF CacheInv

(* A request that begins, or a step in which no task moves. *)
LEMMA IdleKeepsCache ==
  ASSUME CacheInv, UNCHANGED <<readVars, row, slots, suspect>>,
         \/ UNCHANGED task
         \/ \E p \in Procs : \E t :
              /\ task' = [task EXCEPT ![p] = t]
              /\ "step" \in DOMAIN t /\ t.step # "publish"
              /\ task[p].step # "publish"
  PROVE  CacheInv'
<1>1. LockInv'
  BY LockInvIdle DEF CacheInv, readVars
<1>2. /\ TasksShaped' /\ PublishFresh' /\ DOMAIN slots' = SlotIds
      /\ PendingKeys' = PendingKeys
      /\ db' = db
  BY QuietTasks
<1>3. FillsFresh(db, suspect)'
  BY <1>2 DEF CacheInv, FillsFresh, Storing, readVars
<1>4. CacheFresh(db, suspect \cup PendingKeys)'
  BY <1>2 DEF CacheInv, CacheFresh, readVars
<1> QED
  BY <1>1, <1>2, <1>3, <1>4 DEF CacheInv

(* A command of the cache. *)
LEMMA CommandKeepsCache ==
  ASSUME CacheInv, NEW p \in Procs, ReadCache(p) \/ ReadCacheFails(p)
  PROVE  CacheInv'
<1>1. UNCHANGED <<row, slots, suspect, task>>
  BY DEF ReadCache, ReadCacheFails, winVars
<1>2. /\ TasksShaped' /\ PublishFresh' /\ DOMAIN slots' = SlotIds
      /\ PendingKeys' = PendingKeys
      /\ db' = db
  BY <1>1, QuietTasks
<1>3. \/ Get(p, KeyRead(p)) \/ GetFails(p, KeyRead(p))
      \/ ReadStep(p, db) \/ ReadFault(p)
  BY DEF ReadCache, ReadCacheFails
<1>4. LockInv'
  BY <1>3, GetStep, ReadStepKeepsLock, ReadFaultKeepsLock DEF CacheInv
<1>5. PICK d, s, u : d = db /\ s = suspect /\ u = suspect \cup PendingKeys
  OBVIOUS
<1>6. FillsFresh(d, s) /\ CacheFresh(d, u) /\ LockInv /\ s \subseteq u
  BY <1>5 DEF CacheInv
<1>7. FillsFresh(d, s)' /\ CacheFresh(d, u)'
  <2>1. CASE Get(p, KeyRead(p)) \/ GetFails(p, KeyRead(p))
    <3>1. FillsFresh(d, s)' /\ UNCHANGED cache
      BY <2>1, <1>6, GetStaysFresh
    <3> QED
      BY <3>1, <1>6 DEF CacheFresh
  <2>2. CASE ReadStep(p, db)
    <3>1. ReadStep(p, d)
      BY <2>2, <1>5
    <3> QED
      BY <3>1, <1>6, ReadStepKeepsFresh
  <2>3. CASE ReadFault(p)
    BY <2>3, <1>6, ReadFaultKeepsFresh
  <2> QED
    BY <1>3, <2>1, <2>2, <2>3
<1>8. d = db' /\ s = suspect' /\ u = (suspect \cup PendingKeys)'
  BY <1>1, <1>2, <1>5
<1>9. FillsFresh(db, suspect)' /\ CacheFresh(db, suspect \cup PendingKeys)'
  BY <1>7, <1>8 DEF FillsFresh, CacheFresh
<1> QED
  BY <1>2, <1>4, <1>9 DEF CacheInv

LEMMA ExpireKeepsCache ==
  ASSUME CacheInv, NEW k \in Keys, Expire(k)
  PROVE  CacheInv'
<1>1. UNCHANGED <<row, slots, suspect, task>>
  BY DEF Expire, winVars
<1>2. /\ TasksShaped' /\ PublishFresh' /\ DOMAIN slots' = SlotIds
      /\ PendingKeys' = PendingKeys
      /\ db' = db
  BY <1>1, QuietTasks
<1>3. LockInv'
  BY ExpiryStep DEF CacheInv, Expire
<1>4. FillsFresh(db, suspect)'
  BY <1>1, <1>2 DEF CacheInv, Expire, KeyExpires, LockExpires, FillsFresh, Storing
<1>5. CacheFresh(db, suspect \cup PendingKeys)'
  BY <1>1, <1>2 DEF CacheInv, Expire, KeyExpires, LockExpires, CacheFresh
<1> QED
  BY <1>2, <1>3, <1>4, <1>5 DEF CacheInv

(* An update's statement: every key whose value it changes is on its way   *)
(* to be refreshed, or suspect from now on.                                *)
LEMMA CommitKeepsCache ==
  ASSUME CacheInv, NEW p \in Procs, NEW keys, NEW cleared, NEW t,
         task[p].step = "write", Commits(keys, cleared), UNCHANGED readVars,
         task' = [task EXCEPT ![p] = t], DOMAIN slots' = SlotIds,
         "step" \in DOMAIN t, "keys" \in DOMAIN t, "value" \in DOMAIN t,
         t.step = "publish", \E a, b : t.keys \in {<<a>>, <<a, b>>},
         cleared \subseteq {t.keys[i] : i \in DOMAIN t.keys},
         t.value = Missing \/ (t.keys = <<"settings">> /\ t.value = Settings'),
         \A k \in Keys \ keys : db'[k] = db[k]
  PROVE  CacheInv'
<1>1. LockInv'
  BY LockInvIdle DEF CacheInv, readVars
<1>2. /\ DOMAIN task' = Procs /\ task'[p] = t
      /\ \A q \in Procs \ {p} : task'[q] = task[q]
  BY DEF CacheInv, TasksShaped
<1>3. TasksShaped'
  BY <1>2 DEF CacheInv, TasksShaped
<1>4. ASSUME NEW k \in Keys \cap keys
      PROVE  Pending(k)' \/ k \in suspect'
  BY <1>2 DEF Commits, Pending
<1>5. ASSUME NEW k \in Keys \ keys
      PROVE  k \in suspect => k \in suspect'
  BY DEF Commits
<1>6. ASSUME NEW k, Pending(k)
      PROVE  Pending(k)'
  BY <1>2, <1>6 DEF Pending
<1>7. FillsFresh(db, suspect)'
  BY DEF CacheInv, FillsFresh, Storing, Commits, readVars
<1>8. CacheFresh(db, suspect \cup PendingKeys)'
  <2> SUFFICES ASSUME NEW k \in Keys, k \notin suspect', ~ Pending(k)'
               PROVE  cache'[k] \in {Missing, db'[k]}
    BY DEF CacheInv, CacheFresh, PendingKeys, readVars
  <2>1. k \notin keys
    BY <1>4
  <2>2. k \notin suspect /\ ~ Pending(k)
    BY <1>5, <1>6, <2>1
  <2> QED
    BY <2>1, <2>2 DEF CacheInv, CacheFresh, PendingKeys, readVars
<1>9. PublishFresh'
  <2> SUFFICES ASSUME NEW q \in Procs, task'[q].step = "publish", task'[q].value # Missing
               PROVE  /\ task'[q].keys = <<"settings">>
                      /\ "settings" \notin suspect' => task'[q].value = Settings'
    BY DEF PublishFresh
  <2>1. CASE q = p
    BY <2>1, <1>2
  <2>2. CASE q # p
    <3>1. /\ task'[q] = task[q] /\ task[q].keys = <<"settings">>
          /\ "settings" \notin suspect => task[q].value = Settings
      BY <2>2, <1>2 DEF CacheInv, PublishFresh
    <3>2. "settings" \in Keys
      BY WindowsAssumption
    <3>3. db["settings"] = Settings /\ db'["settings"] = Settings'
      BY <3>2 DEF db
    <3>4. CASE "settings" \in keys
      <4>1. "settings" \in {task[q].keys[i] : i \in DOMAIN task[q].keys}
        BY <3>1
      <4>2. Pending("settings")
        BY <2>2, <1>2, <4>1 DEF Pending
      <4>3. "settings" \in suspect'
        BY <3>4, <4>2 DEF Commits
      <4> QED
        BY <4>3, <3>1
    <3>5. CASE "settings" \notin keys
      BY <3>1, <3>2, <3>3, <3>5, <1>5
    <3> QED
      BY <3>4, <3>5
  <2> QED
    BY <2>1, <2>2
<1> QED
  BY <1>1, <1>3, <1>7, <1>8, <1>9 DEF CacheInv

(* A slot's row changes the lists of its old and of its new semester.      *)
LEMMA ListsOfRow ==
  ASSUME NEW i, NEW new, slots' = [slots EXCEPT ![i] = new], UNCHANGED row,
         DOMAIN slots = SlotIds, NEW k \in Keys,
         slots[i] # NoRow => k # slots[i].semester,
         new # NoRow => k # new.semester
  PROVE  db'[k] = db[k]
<1>1. DOMAIN slots' = SlotIds /\ \A j \in SlotIds : j # i => slots'[j] = slots[j]
  OBVIOUS
<1>2. \A j \in SlotIds : slots'[j] # NoRow /\ slots'[j].semester = k
                      <=> slots[j] # NoRow /\ slots[j].semester = k
  BY <1>1
<1>3. \A j \in SlotIds : slots[j] # NoRow /\ slots[j].semester = k => slots'[j] = slots[j]
  BY <1>1
<1>4. SlotsOf(k)' = SlotsOf(k)
  BY <1>2, <1>3 DEF SlotsOf
<1>5. Settings' = Settings
  BY DEF Settings
<1> QED
  BY <1>4, <1>5 DEF db

(* The four statements of administrators. *)
LEMMA PublishShape ==
  ASSUME NEW p, NEW op, NEW ks, NEW value, Publish(p, op, ks, value)
  PROVE  \E t : /\ task' = [task EXCEPT ![p] = t]
               /\ "step" \in DOMAIN t /\ "keys" \in DOMAIN t /\ "value" \in DOMAIN t
               /\ t.step = "publish" /\ t.keys = ks /\ t.value = value
<1> DEFINE t == [step |-> "publish", op |-> op, keys |-> ks, value |-> value]
<1>1. /\ task' = [task EXCEPT ![p] = t]
      /\ "step" \in DOMAIN t /\ "keys" \in DOMAIN t /\ "value" \in DOMAIN t
      /\ t.step = "publish" /\ t.keys = ks /\ t.value = value
  BY DEF Publish
<1> HIDE DEF t
<1> QED
  BY <1>1

LEMMA WriteKeepsCache ==
  ASSUME CacheInv, NEW p \in Procs,
         WriteSettings(p) \/ WriteCreate(p) \/ WriteUpdate(p) \/ WriteRemove(p)
  PROVE  CacheInv'
<1>1. CASE WriteSettings(p)
  <2>1. PICK value : value = Settings'
    OBVIOUS
  <2>2. Publish(p, "settings", <<"settings">>, value)
    BY <1>1, <2>1 DEF WriteSettings
  <2>3. PICK t : /\ task' = [task EXCEPT ![p] = t]
                 /\ "step" \in DOMAIN t /\ "keys" \in DOMAIN t /\ "value" \in DOMAIN t
                 /\ t.step = "publish" /\ t.keys = <<"settings">> /\ t.value = value
    BY <2>2, PublishShape
  <2>4. /\ Commits({"settings"}, {"settings"}) /\ UNCHANGED readVars
        /\ task[p].step = "write" /\ UNCHANGED slots
    BY <1>1 DEF WriteSettings
  <2>5. \A k \in Keys \ {"settings"} : db'[k] = db[k]
    BY <2>4 DEF db, SlotsOf
  <2>6. "settings" \in {t.keys[i] : i \in DOMAIN t.keys}
    BY <2>3
  <2>7. DOMAIN slots' = SlotIds
    BY <2>4 DEF CacheInv
  <2> QED
    BY <2>1, <2>3, <2>4, <2>5, <2>6, <2>7, CommitKeepsCache
<1>2. CASE WriteCreate(p)
  <2> DEFINE input == task[p].input
             ks == <<input.semester>>
  <2>1. Publish(p, "slot", ks, Missing)
    BY <1>2 DEF WriteCreate
  <2>2. PICK t : /\ task' = [task EXCEPT ![p] = t]
                 /\ "step" \in DOMAIN t /\ "keys" \in DOMAIN t /\ "value" \in DOMAIN t
                 /\ t.step = "publish" /\ t.keys = ks /\ t.value = Missing
    BY <2>1, PublishShape
  <2>3. PICK i \in SlotIds : slots[i] = NoRow /\ slots' = [slots EXCEPT ![i] = input]
    BY <1>2 DEF WriteCreate
  <2>4. /\ Commits({input.semester}, {input.semester}) /\ UNCHANGED <<readVars, row>>
        /\ task[p].step = "write"
    BY <1>2 DEF WriteCreate
  <2>5. DOMAIN slots = SlotIds
    BY DEF CacheInv
  <2>6. \A k \in Keys \ {input.semester} : db'[k] = db[k]
    BY <2>3, <2>4, <2>5, ListsOfRow
  <2>7. {input.semester} \subseteq {t.keys[n] : n \in DOMAIN t.keys}
    BY <2>2
  <2>8. DOMAIN slots' = SlotIds
    BY <2>3, <2>5
  <2> QED
    BY <2>2, <2>4, <2>6, <2>7, <2>8, CommitKeepsCache
<1>3. CASE WriteUpdate(p)
  <2>1. CASE slots[task[p].id] = NoRow
    <3>1. /\ Proceed(p, NoTask) /\ UNCHANGED <<row, slots, suspect>>
          /\ task[p].step = "write"
      BY <1>3, <2>1 DEF WriteUpdate, Finish
    <3>2. "step" \in DOMAIN NoTask /\ NoTask.step # "publish"
      BY DEF NoTask
    <3> QED
      BY <3>1, <3>2, ProceedKeepsCache
  <2>2. CASE slots[task[p].id] # NoRow
    <3> DEFINE id  == task[p].id
               old == slots[id]
               new == [Patched(old, task[p].patch) EXCEPT !.semester = task[p].target]
               ks  == IF new.semester = task[p].semester THEN <<new.semester>>
                      ELSE <<task[p].semester, new.semester>>
    <3>1. /\ slots' = [slots EXCEPT ![id] = new]
          /\ Commits({old.semester, new.semester}, {task[p].semester, new.semester})
          /\ Publish(p, "slot", ks, Missing)
          /\ UNCHANGED <<readVars, row>> /\ task[p].step = "write"
      BY <1>3, <2>2 DEF WriteUpdate
    <3> HIDE DEF new
    <3>2. PICK t : /\ task' = [task EXCEPT ![p] = t]
                   /\ "step" \in DOMAIN t /\ "keys" \in DOMAIN t /\ "value" \in DOMAIN t
                   /\ t.step = "publish" /\ t.keys = ks /\ t.value = Missing
      BY <3>1, PublishShape
    <3>3. DOMAIN slots = SlotIds
      BY DEF CacheInv
    <3>4. \A k \in Keys \ {old.semester, new.semester} : db'[k] = db[k]
      BY <3>1, <3>3, ListsOfRow
    <3>5. {task[p].semester, new.semester} \subseteq {t.keys[n] : n \in DOMAIN t.keys}
      BY <3>2
    <3>6. \E a, b : t.keys \in {<<a>>, <<a, b>>}
      BY <3>2
    <3>7. DOMAIN slots' = SlotIds
      BY <3>1, <3>3
    <3>8. PICK changed, cleared : /\ changed = {old.semester, new.semester}
                                  /\ cleared = {task[p].semester, new.semester}
      OBVIOUS
    <3>9. /\ Commits(changed, cleared) /\ \A k \in Keys \ changed : db'[k] = db[k]
          /\ cleared \subseteq {t.keys[n] : n \in DOMAIN t.keys}
      BY <3>1, <3>4, <3>5, <3>8
    <3> QED
      BY <3>1, <3>2, <3>6, <3>7, <3>9, CommitKeepsCache
  <2> QED
    BY <2>1, <2>2
<1>4. CASE WriteRemove(p)
  <2>1. CASE slots[task[p].id] = NoRow
    <3>1. /\ Proceed(p, NoTask) /\ UNCHANGED <<row, slots, suspect>>
          /\ task[p].step = "write"
      BY <1>4, <2>1 DEF WriteRemove, Finish
    <3>2. "step" \in DOMAIN NoTask /\ NoTask.step # "publish"
      BY DEF NoTask
    <3> QED
      BY <3>1, <3>2, ProceedKeepsCache
  <2>2. CASE slots[task[p].id] # NoRow
    <3> DEFINE id == task[p].id
               ks == <<task[p].semester>>
    <3>1. /\ slots' = [slots EXCEPT ![id] = NoRow]
          /\ Commits({slots[id].semester}, {task[p].semester})
          /\ Publish(p, "slot", ks, Missing)
          /\ UNCHANGED <<readVars, row>> /\ task[p].step = "write"
      BY <1>4, <2>2 DEF WriteRemove
    <3>2. PICK t : /\ task' = [task EXCEPT ![p] = t]
                   /\ "step" \in DOMAIN t /\ "keys" \in DOMAIN t /\ "value" \in DOMAIN t
                   /\ t.step = "publish" /\ t.keys = ks /\ t.value = Missing
      BY <3>1, PublishShape
    <3>3. DOMAIN slots = SlotIds
      BY DEF CacheInv
    <3>4. \A k \in Keys \ {slots[id].semester} : db'[k] = db[k]
      BY <3>1, <3>3, ListsOfRow
    <3>5. {task[p].semester} \subseteq {t.keys[n] : n \in DOMAIN t.keys}
      BY <3>2
    <3>6. DOMAIN slots' = SlotIds
      BY <3>1, <3>3
    <3>7. PICK changed, cleared : /\ changed = {slots[id].semester}
                                  /\ cleared = {task[p].semester}
      OBVIOUS
    <3>8. /\ Commits(changed, cleared) /\ \A k \in Keys \ changed : db'[k] = db[k]
          /\ cleared \subseteq {t.keys[n] : n \in DOMAIN t.keys}
      BY <3>1, <3>4, <3>5, <3>7
    <3>9. \E a, b : t.keys \in {<<a>>, <<a, b>>}
      BY <3>2
    <3> QED
      BY <3>1, <3>2, <3>6, <3>8, <3>9, CommitKeepsCache
  <2> QED
    BY <2>1, <2>2
<1> QED
  BY <1>1, <1>2, <1>3, <1>4

(* The SET or DEL after the statement, or its failure: the first key is    *)
(* current again, or suspect; the others stay on their way.                *)
LEMMA PublishKeepsCache ==
  ASSUME CacheInv, NEW p \in Procs, PublishCache(p) \/ PublishFails(p)
  PROVE  CacheInv'
<1> DEFINE keys == task[p].keys
           t == IF Len(keys) = 1 THEN NoTask ELSE [task[p] EXCEPT !.keys = Tail(keys)]
<1>1. PICK a, b : keys \in {<<a>>, <<a, b>>}
  BY DEF CacheInv, TasksShaped, PublishCache, PublishFails
<1>2. /\ task[p].step = "publish" /\ task' = [task EXCEPT ![p] = t]
      /\ UNCHANGED <<lock, fill, expired, row, slots>>
  BY DEF PublishCache, PublishFails, PublishRest, readVars
<1>3. \/ keys = <<a>> /\ t = NoTask
      \/ keys = <<a, b>> /\ t = [task[p] EXCEPT !.keys = <<b>>]
  <2>1. Len(<<a>>) = 1 /\ Len(<<a, b>>) = 2 /\ Tail(<<a, b>>) = <<b>>
    OBVIOUS
  <2> HIDE DEF keys
  <2>2. CASE keys = <<a>>
    BY <2>1, <2>2
  <2>3. CASE keys = <<a, b>>
    <3>1. Len(keys) # 1 /\ Tail(keys) = <<b>>
      BY <2>1, <2>3
    <3> QED
      BY <2>3, <3>1
  <2> QED
    BY <1>1, <2>2, <2>3
<1>4. /\ "step" \in DOMAIN t
      /\ \/ keys = <<a>> /\ t.step = "idle"
         \/ /\ keys = <<a, b>> /\ t.step = "publish" /\ t.keys = <<b>>
            /\ "keys" \in DOMAIN t /\ "value" \in DOMAIN t /\ t.value = task[p].value
  BY <1>2, <1>3 DEF CacheInv, TasksShaped, NoTask
<1> HIDE DEF t
<1>5. /\ DOMAIN task' = Procs /\ task'[p] = t
      /\ \A q \in Procs \ {p} : task'[q] = task[q]
  BY <1>2 DEF CacheInv, TasksShaped
<1>6. TasksShaped'
  BY <1>4, <1>5 DEF CacheInv, TasksShaped
<1>7. LockInv'
  BY <1>2, LockInvIdle DEF CacheInv
<1>8. db' = db /\ Settings' = Settings
  BY <1>2, SameDatabase
<1>9. suspect \subseteq suspect' /\ Head(keys) = a
  BY <1>1 DEF PublishCache, PublishFails
<1>10. FillsFresh(db, suspect)'
  BY <1>2, <1>8, <1>9 DEF CacheInv, FillsFresh, Storing
<1>11. PublishFresh'
  BY <1>2, <1>4, <1>5, <1>8, <1>9 DEF CacheInv, PublishFresh
<1>12. ASSUME NEW k, Pending(k), k # a
       PROVE  Pending(k)'
  <2>1. PICK q \in Procs : task[q].step = "publish"
                           /\ k \in {task[q].keys[i] : i \in DOMAIN task[q].keys}
    BY <1>12 DEF Pending
  <2>2. CASE q # p
    BY <2>1, <2>2, <1>5 DEF Pending
  <2>3. CASE q = p
    <3>1. keys = <<a, b>> /\ k = b
      BY <2>1, <2>3, <1>1, <1>12
    <3>2. t.step = "publish" /\ k \in {t.keys[i] : i \in DOMAIN t.keys}
      BY <3>1, <1>4
    <3> QED
      BY <3>2, <1>5 DEF Pending
  <2> QED
    BY <2>2, <2>3
<1>13. CacheFresh(db, suspect \cup PendingKeys)'
  <2>1. DOMAIN cache' = Keys
    BY DEF CacheInv, CacheFresh, PublishCache, PublishFails, readVars
  <2> SUFFICES ASSUME NEW k \in Keys, k \notin suspect', ~ Pending(k)'
               PROVE  cache'[k] \in {Missing, db'[k]}
    BY <2>1 DEF CacheFresh, PendingKeys
  <2>2. CASE k # a
    <3>1. ~ Pending(k) /\ k \notin suspect
      BY <2>2, <1>9, <1>12
    <3>2. cache'[k] = cache[k]
      BY <2>2, <1>9 DEF CacheInv, CacheFresh, PublishCache, PublishFails, readVars
    <3> QED
      BY <3>1, <3>2, <1>8 DEF CacheInv, CacheFresh, PendingKeys
  <2>3. CASE k = a
    <3>1. PublishCache(p) /\ suspect' = suspect
      BY <2>3, <1>9 DEF PublishCache, PublishFails
    <3>2. cache'[k] = task[p].value
      BY <2>3, <3>1, <1>9 DEF CacheInv, CacheFresh, PublishCache
    <3>3. \/ task[p].value = Missing
          \/ k = "settings" /\ task[p].value = Settings
      BY <2>3, <3>1, <1>2, <1>9 DEF CacheInv, PublishFresh
    <3> QED
      BY <3>2, <3>3, <1>8 DEF db
  <2> QED
    BY <2>2, <2>3
<1> QED
  BY <1>2, <1>6, <1>7, <1>10, <1>11, <1>13 DEF CacheInv

LEMMA NextKeepsCache ==
  ASSUME CacheInv, [Next]_vars
  PROVE  CacheInv'
<1>1. ASSUME NEW p \in Procs, NEW student \in Students, Enter(p, student)
      PROVE  CacheInv'
  <2> DEFINE t == [step |-> "semester", student |-> student]
  <2>1. "step" \in DOMAIN t /\ t.step # "publish" /\ task' = [task EXCEPT ![p] = t]
    BY <1>1 DEF Enter
  <2>2. UNCHANGED <<readVars, row, slots, suspect>> /\ task[p].step # "publish"
    BY <1>1 DEF Enter, NoTask
  <2> HIDE DEF t
  <2> QED
    BY <2>1, <2>2, IdleKeepsCache
<1>2. ASSUME NEW p \in Procs, GateStep(p)
      PROVE  CacheInv'
  <2>1. /\ UNCHANGED <<row, slots, suspect>> /\ task[p].step # "publish"
        /\ \E t : Proceed(p, t) /\ "step" \in DOMAIN t /\ t.step # "publish"
    <3>1. "step" \in DOMAIN task[p]
      BY DEF CacheInv, TasksShaped
    <3>2. \A a : LET t == [task[p] EXCEPT !.step = a] IN "step" \in DOMAIN t /\ t.step = a
      BY <3>1
    <3>3. CASE ReadSemester(p)
      BY <3>3 DEF ReadSemester, Answered
    <3>4. CASE CheckSemester(p)
      BY <3>4 DEF CheckSemester, Answered, Decide
    <3>5. CASE FindCurrent(p)
      BY <3>2, <3>5 DEF FindCurrent, Answered, Step
    <3>6. CASE FindCurrentSlot(p)
      BY <3>2, <3>6 DEF FindCurrentSlot, Answered, Step, Decide
    <3>7. CASE FindNext(p)
      BY <3>2, <3>7 DEF FindNext, Answered, Step
    <3>8. CASE FindNextSlot(p)
      BY <3>2, <3>8 DEF FindNextSlot, Answered, Step, Decide
    <3>9. CASE FindAssigned(p)
      BY <3>9 DEF FindAssigned, Answered, Decide
    <3>10. CASE Leave(p)
      BY <3>10 DEF Leave, Finish, NoTask
    <3> QED
      BY <1>2, <3>3, <3>4, <3>5, <3>6, <3>7, <3>8, <3>9, <3>10 DEF GateStep
  <2> QED
    BY <2>1, ProceedKeepsCache
<1>3. ASSUME NEW p \in Procs, AdminAsks(p)
      PROVE  CacheInv'
  <2>1. \E t : Ask(p, t) /\ "step" \in DOMAIN t /\ t.step # "publish"
    <3>1. CASE AskSettings(p)
      <4>1. PICK t, patch : /\ Ask(p, t)
                            /\ t = [step |-> "validate", op |-> "settings", patch |-> patch]
        BY <3>1 DEF AskSettings
      <4> QED
        BY <4>1
    <3>2. CASE AskCreate(p)
      <4>1. PICK t, input : /\ Ask(p, t)
                            /\ t = [step |-> "validate", op |-> "create", input |-> input]
        BY <3>2 DEF AskCreate
      <4> QED
        BY <4>1
    <3>3. CASE AskUpdate(p)
      <4>1. PICK t, i, patch :
              /\ Ask(p, t)
              /\ t = [step |-> "validate", op |-> "update", id |-> i, patch |-> patch]
        BY <3>3 DEF AskUpdate
      <4> QED
        BY <4>1
    <3>4. CASE AskRemove(p)
      <4>1. PICK t, i, semester :
              /\ Ask(p, t)
              /\ t = [step |-> "write", op |-> "remove", id |-> i, semester |-> semester]
        BY <3>4 DEF AskRemove
      <4> QED
        BY <4>1
    <3> QED
      BY <1>3, <3>1, <3>2, <3>3, <3>4 DEF AdminAsks
  <2>2. PICK t : Ask(p, t) /\ "step" \in DOMAIN t /\ t.step # "publish"
    BY <2>1
  <2>3. /\ UNCHANGED <<readVars, row, slots, suspect>> /\ task[p].step # "publish"
        /\ task' = [task EXCEPT ![p] = t]
    BY <2>2 DEF Ask, Idle, NoTask
  <2> QED
    BY <2>2, <2>3, IdleKeepsCache
<1>4. ASSUME NEW p \in Procs, ValidateSettings(p) \/ ValidateCreate(p) \/ ValidateUpdate(p)
      PROVE  CacheInv'
  <2>1. /\ UNCHANGED <<row, slots, suspect>> /\ task[p].step # "publish"
        /\ \E t : Proceed(p, t) /\ "step" \in DOMAIN t /\ t.step # "publish"
    <3>1. "step" \in DOMAIN task[p]
      BY DEF CacheInv, TasksShaped
    <3>2. \A a : LET t == [task[p] EXCEPT !.step = a] IN "step" \in DOMAIN t /\ t.step = a
      BY <3>1
    <3>3. CASE ValidateSettings(p)
      BY <3>3 DEF ValidateSettings, Answered, Finish, NoTask
    <3>4. CASE ValidateCreate(p)
      BY <3>2, <3>4 DEF ValidateCreate, Answered, Finish, NoTask
    <3>5. CASE ValidateUpdate(p)
      BY <3>5 DEF ValidateUpdate, Answered, Finish, NoTask
    <3> QED
      BY <1>4, <3>3, <3>4, <3>5
  <2> QED
    BY <2>1, ProceedKeepsCache
<1>5. CASE Tick
  BY <1>5, IdleKeepsCache DEF Tick
<1>6. CASE UNCHANGED vars
  BY <1>6, IdleKeepsCache DEF vars, winVars
<1>7. ASSUME NEW p \in Procs, AdminStep(p)
      PROVE  CacheInv'
  BY <1>4, <1>7, WriteKeepsCache, PublishKeepsCache DEF AdminStep
<1> QED
  BY <1>1, <1>2, <1>3, <1>5, <1>6, <1>7, CommandKeepsCache, PublishKeepsCache,
     ExpireKeepsCache DEF Next

(* The caches of settings and slots answer with what the database holds,   *)
(* for any number of students and administrators, whatever fails and in    *)
(* whatever order: but for the accidents that `suspect' names.             *)
THEOREM CachesAreCurrent == Spec => []CachedIsCurrent
<1>1. Init => CacheInv
  BY CacheInvInit
<1>2. CacheInv /\ [Next]_vars => CacheInv'
  BY NextKeepsCache
<1>3. CacheInv => CachedIsCurrent
  BY DEF CacheInv, CacheFresh, PendingKeys, CachedIsCurrent
<1> QED
  BY <1>1, <1>2, <1>3, PTL DEF Spec

----------------------------------------------------------------------------
(* The slot-window arithmetic, for every slot and every instant.           *)

(* A slot the service accepted is open at the instant NextOpenAt names,    *)
(* and that instant is not before the date asked about.                    *)
THEOREM NextOpenIsOpen ==
  ASSUME NEW slot \in Slot, NEW at \in Instant, ValidSlot(slot),
         NextOpenAt(slot, at) # Never
  PROVE  /\ NextOpenAt(slot, at) \in Instant
         /\ ActiveAt(slot, NextOpenAt(slot, at))
         /\ at.date <= NextOpenAt(slot, at).date
  BY DEF Slot, Instant, ValidSlot, NextOpenAt, ActiveAt, ToDate

(* Nothing is skipped: if the slot is open at some later instant, NextOpenAt *)
(* is not null and names an opening no later than that instant.            *)
THEOREM NextOpenIsFirst ==
  ASSUME NEW slot \in Slot, NEW at \in Instant, NEW later \in Instant,
         NotAfter(at, later), ActiveAt(slot, later)
  PROVE  /\ NextOpenAt(slot, at) # Never
         /\ NotAfter(NextOpenAt(slot, at), later)
  BY NeverAssumption
  DEF Slot, Instant, NextOpenAt, ActiveAt, ToDate, NotAfter, Before

----------------------------------------------------------------------------
(* A list in the order of loadSlotsFromDb has a first slot when it has any. *)
LEMMA NatMin == ASSUME NEW S, S \subseteq Nat, S # {} PROVE \E n \in S : \A m \in S : n <= m
<1> DEFINE R == {ss \in Nat \X Nat : ss[1] < ss[2]}
<1>1. IsWellFoundedOn(R, Nat)
  BY NatLessThanWellFounded DEF OpToRel
<1> HIDE DEF R
<1>2. PICK n \in S : \A m \in S : <<m, n>> \notin R
  BY <1>1, WFMin
<1> USE DEF R
<1>3. \A m \in S : ~ (m < n)
  BY <1>2
<1> QED
  BY <1>3

LEMMA FirstExists ==
  ASSUME NEW S, S # {},
         \A s \in S : s.startDate \in Nat /\ s.startTime \in Nat /\ s.from \in Nat
  PROVE  FirstSlots(S) # {}
<1> DEFINE D == {s.startDate : s \in S}
<1>1. PICK d \in D : \A m \in D : d <= m
  <2>1. D \subseteq Nat /\ D # {}
    OBVIOUS
  <2> HIDE DEF D
  <2> QED
    BY <2>1, NatMin
<1> DEFINE S1 == {s \in S : s.startDate = d}
           T  == {s.startTime : s \in S1}
<1>2. PICK t \in T : \A m \in T : t <= m
  <2>1. T \subseteq Nat /\ T # {}
    BY <1>1
  <2> HIDE DEF T
  <2> QED
    BY <2>1, NatMin
<1> DEFINE S2 == {s \in S1 : s.startTime = t}
           F  == {s.from : s \in S2}
<1>3. PICK f \in F : \A m \in F : f <= m
  <2>1. F \subseteq Nat /\ F # {}
    BY <1>2
  <2> HIDE DEF F
  <2> QED
    BY <2>1, NatMin
<1>4. PICK s \in S2 : s.from = f
  BY <1>3
<1>5. ASSUME NEW e \in S, Earlier(e, s)
      PROVE  FALSE
  <2>1. d <= e.startDate
    BY <1>1
  <2>2. e.startDate = d => t <= e.startTime
    BY <1>2
  <2>3. e.startDate = d /\ e.startTime = t => f <= e.from
    BY <1>3
  <2>4. s \in S /\ s.startDate = d /\ s.startTime = t /\ s.from = f
    BY <1>4
  <2> HIDE DEF D, S1, S2, T, F
  <2>5. d \in Nat /\ t \in Nat /\ f \in Nat
    BY <2>4
  <2> QED
    BY <1>5, <2>1, <2>2, <2>3, <2>4, <2>5 DEF Earlier
<1>6. s \in FirstSlots(S)
  BY <1>4, <1>5 DEF FirstSlots
<1> QED
  BY <1>6

LEMMA FirstIsEmpty ==
  ASSUME NEW S,
         \A s \in S : s.startDate \in Nat /\ s.startTime \in Nat /\ s.from \in Nat
  PROVE  FirstSlots(S) = {} <=> S = {}
<1>1. S = {} => FirstSlots(S) = {}
  BY DEF FirstSlots
<1> QED
  BY <1>1, FirstExists

(* What find(...) returns of a semester's list: nothing, exactly when no   *)
(* slot matches.                                                           *)
LEMMA FindsAny ==
  ASSUME NEW S, S \subseteq SlotRow, NEW code, NEW at
  PROVE  /\ CurrentSlots(S, code, at) = {} <=>
              ~ \E s \in S : CoversStudent(s, code) /\ ActiveAt(s, at)
         /\ NextSlots(S, code, at) = {} <=>
              ~ \E s \in S : CoversStudent(s, code) /\ NextOpenAt(s, at) # Never
         /\ AssignedSlots(S, code) = {} <=> ~ \E s \in S : CoversStudent(s, code)
<1> DEFINE A == {s \in S : CoversStudent(s, code) /\ ActiveAt(s, at)}
           B == {s \in S : CoversStudent(s, code) /\ NextOpenAt(s, at) # Never}
           C == {s \in S : CoversStudent(s, code)}
<1>1. \A s \in S : s.startDate \in Nat /\ s.startTime \in Nat /\ s.from \in Nat
  BY DEF SlotRow
<1>2. (FirstSlots(A) = {} <=> A = {}) /\ (FirstSlots(B) = {} <=> B = {})
      /\ (FirstSlots(C) = {} <=> C = {})
  <2>1. A \subseteq S /\ B \subseteq S /\ C \subseteq S
    OBVIOUS
  <2> HIDE DEF A, B, C
  <2> QED
    BY <1>1, <2>1, FirstIsEmpty
<1> QED
  BY <1>2 DEF CurrentSlots, NextSlots, AssignedSlots

(* NextOpenIsFirst for a row of the table. *)
LEMMA NotOpenLater ==
  ASSUME NEW s \in SlotRow, NEW at \in Instant, NEW later \in Instant,
         NotAfter(at, later), NextOpenAt(s, at) = Never
  PROVE  ~ ActiveAt(s, later)
<1>1. \A date \in Nat, time \in Nat : ToDate(date, time) # Never
  BY NeverAssumption DEF ToDate, Instant
<1> QED
  BY <1>1 DEF SlotRow, Instant, NextOpenAt, ActiveAt, NotAfter, Before

(* A window that is closed stays closed. *)
LEMMA ClosedForGood ==
  ASSUME NEW settings \in SettingsRow, NEW at \in Instant, NEW later \in Instant,
         NotAfter(at, later), WindowStatus(settings, at) = "CLOSED"
  PROVE  WindowStatus(settings, later) # "RUNNING"
  BY DEF SettingsRow, Instant, WindowStatus, NotAfter, Before

----------------------------------------------------------------------------
(* What the rows, the caches and the requests are made of.                 *)
GateTasks ==
  [step : {"semester"}, student : Students]
  \cup [step : {"check"}, student : Students, at : Times, semester : Semesters]
  \cup [step : {"current", "current_slots", "next", "next_slots", "assigned"},
        student : Students, at : Times, semester : Semesters,
        status : {"UPCOMING", "RUNNING", "CLOSED"}]
  \cup [step : {"answered"}, student : Students, at : Times,
        outcome : {"other_semester", "admitted", "wait", "not_assigned", "over"}]

AdminTasks ==
  [step : {"validate"}, op : {"settings"}, patch : SettingsPatches]
  \cup [step : {"validate", "write"}, op : {"create"}, input : SlotInputs]
  \cup [step : {"validate"}, op : {"update"}, id : SlotIds, patch : SlotPatches]
  \cup [step : {"write"}, op : {"settings"}, patch : SettingsPatches, next : SettingsRow]
  \cup [step : {"write"}, op : {"update"}, id : SlotIds, patch : SlotPatches,
        semester : Semesters, target : Semesters]
  \cup [step : {"write"}, op : {"remove"}, id : SlotIds, semester : Semesters]
  \cup [step : {"publish"}, op : {"settings", "slot"},
        keys : {<<k>> : k \in Keys} \cup {<<j, k>> : j \in Keys, k \in Keys},
        value : SettingsRow \cup {Missing}]

TasksOf(p) == {NoTask} \cup (IF p \in Admins THEN AdminTasks ELSE GateTasks)

Value(k) == IF k = "settings" THEN SettingsRow ELSE SUBSET SlotRow

DataTyped ==
  /\ row \in SettingsRow \cup {NoRow}
  /\ \A i \in SlotIds : slots[i] # NoRow => slots[i] \in SlotRow
  /\ \A k \in Keys : cache[k] \in {Missing} \cup Value(k)

RequestTyped(p) ==
  /\ task[p] \in TasksOf(p)
  /\ IF Reads(p) THEN Holds(p, KeyRead(p), Value(KeyRead(p))) ELSE fill[p] = NoCall

TypeInv ==
  /\ now \in Times
  /\ DataTyped
  /\ \A p \in Procs : RequestTyped(p)

LEMMA PatchedSettings ==
  ASSUME NEW current \in SettingsRow, NEW patch \in SettingsPatches
  PROVE  Patched(current, patch) \in SettingsRow
<1>1. IsSettingsPatch(patch)
  BY WindowsDataAssumption
<1>2. DOMAIN current = {"semester", "open", "close"}
  BY DEF SettingsRow
<1> QED
  BY <1>1, <1>2 DEF SettingsRow, Patched, IsSettingsPatch

LEMMA PatchedSlot ==
  ASSUME NEW current \in SlotRow, NEW patch \in SlotPatches
  PROVE  Patched(current, patch) \in SlotRow
<1>1. IsSlotPatch(patch)
  BY WindowsDataAssumption
<1>2. DOMAIN current = {"semester", "from", "to", "startDate", "endDate",
                        "startTime", "endTime"}
  BY DEF SlotRow
<1> QED
  BY <1>1, <1>2 DEF SlotRow, Patched, IsSlotPatch

LEMMA DatabaseTyped ==
  ASSUME DataTyped
  PROVE  /\ Settings \in SettingsRow
         /\ \A semester : SlotsOf(semester) \subseteq SlotRow
         /\ \A k \in Keys : db[k] \in Value(k)
<1>1. Settings \in SettingsRow
  BY WindowsDataAssumption DEF DataTyped, Settings
<1>2. \A semester : SlotsOf(semester) \subseteq SlotRow
  BY DEF DataTyped, SlotsOf
<1> QED
  BY <1>1, <1>2 DEF db, Value

LEMMA KeyReadIsKey ==
  ASSUME NEW p \in Procs, task[p] \in TasksOf(p), Reads(p)
  PROVE  KeyRead(p) \in Keys
  BY WindowsAssumption
  DEF Reads, KeyRead, TasksOf, GateTasks, AdminTasks, NoTask, SettingsSteps, SlotSteps

LEMMA TypeInit == ASSUME Init PROVE TypeInv
<1>1. now \in Times /\ DataTyped
  BY WindowsDataAssumption DEF Init, ReadInit, DataTyped
<1>2. \A p \in Procs : task[p] = NoTask /\ fill[p] = NoCall
  BY DEF Init, ReadInit
<1>3. ASSUME NEW p \in Procs
      PROVE  RequestTyped(p)
  <2>1. ~ Reads(p)
    BY <1>2 DEF Reads, NoTask, SettingsSteps, SlotSteps
  <2>2. task[p] \in TasksOf(p)
    BY <1>2 DEF TasksOf
  <2> QED
    BY <1>2, <2>1, <2>2 DEF RequestTyped
<1> QED
  BY <1>1, <1>3 DEF TypeInv

(* A request that moves to another task, without a call. *)
LEMMA MoveTyped ==
  ASSUME CacheInv, TypeInv, NEW p \in Procs, NEW t, t \in TasksOf(p),
         task' = [task EXCEPT ![p] = t],
         fill'[p] = NoCall, \A q \in Procs \ {p} : fill'[q] = fill[q],
         UNCHANGED now, DataTyped'
  PROVE  TypeInv'
<1>1. task'[p] = t /\ \A q \in Procs \ {p} : task'[q] = task[q]
  BY DEF CacheInv, TasksShaped
<1>2. \A q \in Procs \ {p} : RequestTyped(q)'
  BY <1>1 DEF TypeInv, RequestTyped, Reads, KeyRead, Holds
<1>3. RequestTyped(p)'
  BY <1>1 DEF RequestTyped, Holds, NoCall
<1> QED
  BY <1>2, <1>3 DEF TypeInv

LEMMA ProceedTyped ==
  ASSUME CacheInv, TypeInv, NEW p \in Procs, NEW t, t \in TasksOf(p), Proceed(p, t),
         UNCHANGED now, UNCHANGED row, \A i \in SlotIds : slots'[i] \in {slots[i], NoRow}
  PROVE  TypeInv'
<1>1. fill'[p] = NoCall /\ \A q \in Procs \ {p} : fill'[q] = fill[q]
  BY DEF Proceed, CacheInv, LockInv, CallsShaped
<1>2. DataTyped'
  BY DEF TypeInv, DataTyped, Proceed
<1> QED
  BY <1>1, <1>2, MoveTyped DEF Proceed

LEMMA AskTyped ==
  ASSUME CacheInv, TypeInv, NEW p \in Procs, NEW t, t \in TasksOf(p), ~ Reads(p),
         task' = [task EXCEPT ![p] = t], UNCHANGED <<readVars, now>>,
         DataTyped'
  PROVE  TypeInv'
<1>1. fill'[p] = NoCall /\ \A q \in Procs \ {p} : fill'[q] = fill[q]
  BY DEF TypeInv, RequestTyped, readVars
<1> QED
  BY <1>1, MoveTyped

LEMMA CommandTyped ==
  ASSUME CacheInv, TypeInv, NEW p \in Procs, ReadCache(p) \/ ReadCacheFails(p)
  PROVE  TypeInv'
<1>1. /\ UNCHANGED winVars /\ Reads(p)
      /\ \/ Get(p, KeyRead(p)) \/ GetFails(p, KeyRead(p))
         \/ ReadStep(p, db) \/ ReadFault(p)
  BY DEF ReadCache, ReadCacheFails
<1>2. PICK k, d, ok : k = KeyRead(p) /\ d = db /\ ok = Value(k)
  OBVIOUS
<1>3. k \in Keys /\ Holds(p, k, ok)
  BY <1>1, <1>2, KeyReadIsKey DEF TypeInv, RequestTyped
<1>4. d[k] \in ok /\ cache[k] \in {Missing} \cup ok
  BY <1>2, <1>3, DatabaseTyped DEF TypeInv, DataTyped
<1>5. Get(p, k) \/ GetFails(p, k) \/ ReadStep(p, d) \/ ReadFault(p)
  BY <1>1, <1>2
<1>6. CallsShaped
  BY DEF CacheInv, LockInv
<1>7. Holds(p, k, ok)' /\ \A q \in Procs \ {p} : fill'[q] = fill[q]
  BY <1>3, <1>4, <1>5, <1>6, CommandHolds, CommandMovesOne
<1>8. \A j \in DOMAIN cache : cache'[j] = cache[j] \/ (j = k /\ cache'[j] \in ok)
  BY <1>3, <1>5, CommandWrites
<1>9. DOMAIN cache = Keys
  BY DEF CacheInv, CacheFresh
<1>10. DataTyped'
  BY <1>1, <1>2, <1>8, <1>9 DEF TypeInv, DataTyped, winVars
<1>11. k = KeyRead(p)' /\ Reads(p)' /\ ok = Value(KeyRead(p))'
  BY <1>1, <1>2 DEF winVars, KeyRead, Reads, Value
<1>12. RequestTyped(p)'
  <2>1. Holds(p, KeyRead(p), Value(KeyRead(p)))'
    BY <1>7, <1>11 DEF Holds
  <2> QED
    BY <1>1, <2>1, <1>11 DEF TypeInv, RequestTyped, winVars
<1>13. \A q \in Procs \ {p} : RequestTyped(q)'
  BY <1>1, <1>7 DEF TypeInv, RequestTyped, winVars, Reads, KeyRead, Holds
<1> QED
  BY <1>1, <1>10, <1>12, <1>13 DEF TypeInv, winVars

(* The gate: each of its steps leaves the request at the next one. *)
LEMMA GateTyped ==
  ASSUME CacheInv, TypeInv, NEW p \in Procs, GateStep(p)
  PROVE  TypeInv'
<1>1. task[p] \in TasksOf(p) /\ now \in Times
  BY DEF TypeInv, RequestTyped
<1>2. ASSUME NEW step, task[p].step = step, step \in SettingsSteps \cup SlotSteps,
             fill[p].at = "answered"
      PROVE  fill[p].value \in Value(KeyRead(p))
  BY <1>2 DEF TypeInv, RequestTyped, Reads, Holds
<1>3. ASSUME NEW t, t \in TasksOf(p), Proceed(p, t), UNCHANGED <<now, row, slots>>
      PROVE  TypeInv'
  BY <1>3, ProceedTyped
<1>4. p \in Admins => task[p] \in AdminTasks \cup {NoTask}
  BY <1>1 DEF TasksOf
<1>5. GateStep(p) => p \notin Admins
  BY <1>4 DEF GateStep, ReadSemester, CheckSemester, FindCurrent, FindCurrentSlot,
       FindNext, FindNextSlot, FindAssigned, Leave, Answered, AdminTasks, NoTask
<1>6. p \notin Admins /\ task[p] \in GateTasks \cup {NoTask}
  BY <1>1, <1>5 DEF TasksOf
<1>7. ASSUME NEW t, t \in GateTasks PROVE t \in TasksOf(p)
  BY <1>6, <1>7 DEF TasksOf
<1>8. CASE ReadSemester(p)
  <2> DEFINE t == [step |-> "check", student |-> task[p].student, at |-> now,
                   semester |-> fill[p].value.semester]
  <2>1. task[p].step = "semester" /\ fill[p].at = "answered"
    BY <1>8 DEF ReadSemester, Answered
  <2>2. fill[p].value \in SettingsRow
    BY <2>1, <1>2 DEF SettingsSteps, SlotSteps, KeyRead, Value
  <2>3. task[p].student \in Students
    BY <2>1, <1>6 DEF GateTasks, NoTask
  <2>4. t \in GateTasks
    BY <2>2, <2>3, <1>1 DEF GateTasks, SettingsRow
  <2>5. Proceed(p, t) /\ UNCHANGED <<now, row, slots>>
    BY <1>8 DEF ReadSemester
  <2> HIDE DEF t
  <2> QED
    BY <2>4, <2>5, <1>3, <1>7
<1>9. CASE CheckSemester(p)
  <2>1. task[p].step = "check" /\ fill[p].at = "answered"
    BY <1>9 DEF CheckSemester, Answered
  <2>2. task[p].student \in Students /\ task[p].at \in Times /\ task[p].semester \in Semesters
    BY <2>1, <1>6 DEF GateTasks, NoTask
  <2> DEFINE t == [step |-> "answered", student |-> task[p].student,
                   at |-> task[p].at, outcome |-> "other_semester"]
             u == [step |-> "current", student |-> task[p].student,
                   at |-> task[p].at, semester |-> task[p].semester,
                   status |-> WindowStatus(fill[p].value, task[p].at)]
  <2>3. t \in GateTasks /\ u \in GateTasks
    BY <2>2 DEF GateTasks, WindowStatus
  <2>4. (Proceed(p, t) \/ Proceed(p, u)) /\ UNCHANGED <<now, row, slots>>
    BY <1>9 DEF CheckSemester, Decide
  <2> HIDE DEF t, u
  <2> QED
    BY <2>3, <2>4, <1>3, <1>7
<1>10. CASE FindCurrent(p) \/ FindCurrentSlot(p) \/ FindNext(p) \/ FindNextSlot(p) \/ FindAssigned(p)
  <2>1. task[p].step \in {"current", "current_slots", "next", "next_slots", "assigned"}
    BY <1>10 DEF FindCurrent, FindCurrentSlot, FindNext, FindNextSlot, FindAssigned, Answered
  <2>2. task[p] \in [step : {"current", "current_slots", "next", "next_slots", "assigned"},
                     student : Students, at : Times, semester : Semesters,
                     status : {"UPCOMING", "RUNNING", "CLOSED"}]
    BY <2>1, <1>6 DEF GateTasks, NoTask
  <2>3. \A a \in {"current_slots", "next", "next_slots", "assigned"} :
          [task[p] EXCEPT !.step = a] \in GateTasks
    BY <2>2 DEF GateTasks
  <2>4. \A o \in {"admitted", "wait", "not_assigned", "over"} :
          [step |-> "answered", student |-> task[p].student,
           at |-> task[p].at, outcome |-> o] \in GateTasks
    BY <2>2 DEF GateTasks
  <2>5. /\ UNCHANGED <<now, row, slots>>
        /\ \/ \E a \in {"current_slots", "next", "next_slots", "assigned"} :
                Proceed(p, [task[p] EXCEPT !.step = a])
           \/ \E o \in {"admitted", "wait", "not_assigned", "over"} :
                Proceed(p, [step |-> "answered", student |-> task[p].student,
                            at |-> task[p].at, outcome |-> o])
    BY <1>10 DEF FindCurrent, FindCurrentSlot, FindNext, FindNextSlot, FindAssigned,
                 Step, Decide
  <2>6. \E t : t \in GateTasks /\ Proceed(p, t)
    BY <2>3, <2>4, <2>5
  <2> QED
    BY <2>5, <2>6, <1>3, <1>7
<1>11. CASE Leave(p)
  BY <1>11, <1>3 DEF Leave, Finish, TasksOf
<1> QED
  BY <1>8, <1>9, <1>10, <1>11 DEF GateStep

LEMMA AsksTyped ==
  ASSUME CacheInv, TypeInv, NEW p \in Procs, AdminAsks(p)
  PROVE  TypeInv'
<1>1. p \in Admins /\ task[p] = NoTask
  BY DEF AdminAsks, AskSettings, AskCreate, AskUpdate, AskRemove, Ask, Idle
<1>2. ~ Reads(p)
  BY <1>1 DEF Reads, NoTask, SettingsSteps, SlotSteps
<1>3. \E t \in AdminTasks : Ask(p, t)
  <2>1. CASE AskSettings(p)
    <3>1. PICK patch \in SettingsPatches :
            Ask(p, [step |-> "validate", op |-> "settings", patch |-> patch])
      BY <2>1 DEF AskSettings
    <3>2. [step |-> "validate", op |-> "settings", patch |-> patch] \in AdminTasks
      BY DEF AdminTasks
    <3> QED
      BY <3>1, <3>2
  <2>2. CASE AskCreate(p)
    <3>1. PICK input \in SlotInputs :
            Ask(p, [step |-> "validate", op |-> "create", input |-> input])
      BY <2>2 DEF AskCreate
    <3>2. [step |-> "validate", op |-> "create", input |-> input] \in AdminTasks
      BY DEF AdminTasks
    <3> QED
      BY <3>1, <3>2
  <2>3. CASE AskUpdate(p)
    <3>1. PICK i \in SlotIds, patch \in SlotPatches :
            Ask(p, [step |-> "validate", op |-> "update", id |-> i, patch |-> patch])
      BY <2>3 DEF AskUpdate
    <3>2. [step |-> "validate", op |-> "update", id |-> i, patch |-> patch] \in AdminTasks
      BY DEF AdminTasks
    <3> QED
      BY <3>1, <3>2
  <2>4. CASE AskRemove(p)
    <3>1. PICK i \in SlotIds :
            /\ slots[i] # NoRow
            /\ Ask(p, [step |-> "write", op |-> "remove", id |-> i,
                       semester |-> slots[i].semester])
      BY <2>4 DEF AskRemove
    <3>2. slots[i].semester \in Semesters
      BY <3>1 DEF TypeInv, DataTyped, SlotRow
    <3>3. [step |-> "write", op |-> "remove", id |-> i,
           semester |-> slots[i].semester] \in AdminTasks
      BY <3>2 DEF AdminTasks
    <3> QED
      BY <3>1, <3>3
  <2> QED
    BY <2>1, <2>2, <2>3, <2>4 DEF AdminAsks
<1>4. PICK t \in AdminTasks : Ask(p, t)
  BY <1>3
<1>5. t \in TasksOf(p)
  BY <1>1 DEF TasksOf
<1>6. /\ task' = [task EXCEPT ![p] = t] /\ UNCHANGED <<readVars, now>>
      /\ DataTyped'
  BY <1>4 DEF Ask, TypeInv, DataTyped, readVars
<1> QED
  BY <1>2, <1>5, <1>6, AskTyped

(* The tasks of an administrator that has begun a request. *)
LEMMA AdminTaskOf ==
  ASSUME TypeInv, NEW p \in Procs,
         task[p].step \in {"validate", "write", "publish"}
  PROVE  p \in Admins /\ task[p] \in AdminTasks
<1>1. task[p] \in TasksOf(p)
  BY DEF TypeInv, RequestTyped
<1> QED
  BY <1>1 DEF TasksOf, GateTasks, NoTask

LEMMA ValidateTyped ==
  ASSUME CacheInv, TypeInv, NEW p \in Procs,
         ValidateSettings(p) \/ ValidateCreate(p) \/ ValidateUpdate(p)
  PROVE  TypeInv'
<1>1. task[p].step = "validate" /\ fill[p].at = "answered"
  BY DEF ValidateSettings, ValidateCreate, ValidateUpdate, Answered
<1>2. p \in Admins /\ task[p] \in AdminTasks
  BY <1>1, AdminTaskOf
<1>3. fill[p].value \in SettingsRow
  BY <1>1 DEF TypeInv, RequestTyped, Reads, Holds, KeyRead, SettingsSteps, SlotSteps, Value
<1>4. UNCHANGED <<now, row, slots>>
  BY DEF ValidateSettings, ValidateCreate, ValidateUpdate
<1>5. ASSUME NEW t, t \in AdminTasks, Proceed(p, t)
      PROVE  TypeInv'
  BY <1>2, <1>4, <1>5, ProceedTyped DEF TasksOf
<1>6. ASSUME Finish(p)
      PROVE  TypeInv'
  BY <1>4, <1>6, ProceedTyped DEF Finish, TasksOf
<1>7. CASE ValidateSettings(p)
  <2>1. task[p].op = "settings"
    BY <1>7 DEF ValidateSettings
  <2>2. task[p].patch \in SettingsPatches
    BY <1>1, <1>2, <2>1 DEF AdminTasks
  <2> DEFINE next == Patched(fill[p].value, task[p].patch)
             t == [step |-> "write", op |-> "settings", patch |-> task[p].patch, next |-> next]
  <2>3. next \in SettingsRow
    BY <1>3, <2>2, PatchedSettings
  <2>4. Proceed(p, t) \/ Finish(p)
    BY <1>7 DEF ValidateSettings
  <2> HIDE DEF next
  <2>5. t \in AdminTasks
    BY <2>2, <2>3 DEF AdminTasks
  <2> HIDE DEF t
  <2> QED
    BY <2>4, <2>5, <1>5, <1>6
<1>8. CASE ValidateCreate(p)
  <2> DEFINE t == [task[p] EXCEPT !.step = "write"]
  <2>1. task[p].op = "create"
    BY <1>8 DEF ValidateCreate
  <2>2. task[p] \in [step : {"validate", "write"}, op : {"create"}, input : SlotInputs]
    BY <1>1, <1>2, <2>1 DEF AdminTasks
  <2>3. t \in AdminTasks
    BY <2>2 DEF AdminTasks
  <2>4. Proceed(p, t) \/ Finish(p)
    BY <1>8 DEF ValidateCreate
  <2> HIDE DEF t
  <2> QED
    BY <2>3, <2>4, <1>5, <1>6
<1>9. CASE ValidateUpdate(p)
  <2>1. task[p].op = "update"
    BY <1>9 DEF ValidateUpdate
  <2>2. task[p].id \in SlotIds /\ task[p].patch \in SlotPatches
    BY <1>1, <1>2, <2>1 DEF AdminTasks
  <2> DEFINE current == slots[task[p].id]
             next == Patched(current, task[p].patch)
             t == [step |-> "write", op |-> "update", id |-> task[p].id,
                   patch |-> task[p].patch, semester |-> current.semester,
                   target |-> next.semester]
  <2>3. (Proceed(p, t) /\ current # NoRow) \/ Finish(p)
    BY <1>9 DEF ValidateUpdate
  <2>4. current # NoRow => current \in SlotRow
    BY <2>2 DEF TypeInv, DataTyped
  <2> HIDE DEF current
  <2>5. current # NoRow => current.semester \in Semesters /\ next.semester \in Semesters
    BY <2>2, <2>4, PatchedSlot DEF SlotRow
  <2> HIDE DEF next
  <2>6. current # NoRow => t \in AdminTasks
    BY <2>2, <2>5 DEF AdminTasks
  <2> HIDE DEF t
  <2> QED
    BY <2>3, <2>6, <1>5, <1>6
<1> QED
  BY <1>7, <1>8, <1>9

(* The statements.  What a request publishes is typed with its write. *)
LEMMA PublishTyped ==
  ASSUME CacheInv, TypeInv, NEW p \in Procs, NEW op, NEW keys, NEW value,
         task[p].step = "write", op \in {"settings", "slot"},
         \E j \in Keys, k \in Keys : keys = <<k>> \/ keys = <<j, k>>,
         value \in SettingsRow \cup {Missing},
         Publish(p, op, keys, value), UNCHANGED <<readVars, now>>, DataTyped'
  PROVE  TypeInv'
<1> DEFINE t == [step |-> "publish", op |-> op, keys |-> keys, value |-> value]
<1>1. t \in AdminTasks
  BY DEF AdminTasks
<1>2. task' = [task EXCEPT ![p] = t]
  BY DEF Publish
<1>3. ~ Reads(p)
  BY DEF Reads, SettingsSteps, SlotSteps
<1>4. t \in TasksOf(p)
  BY <1>1, AdminTaskOf DEF TasksOf
<1> HIDE DEF t
<1> QED
  BY <1>2, <1>3, <1>4, AskTyped

LEMMA WriteTyped ==
  ASSUME CacheInv, TypeInv, NEW p \in Procs,
         WriteSettings(p) \/ WriteCreate(p) \/ WriteUpdate(p) \/ WriteRemove(p)
  PROVE  TypeInv'
<1>1. task[p].step = "write" /\ UNCHANGED now
  BY DEF WriteSettings, WriteCreate, WriteUpdate, WriteRemove
<1>2. p \in Admins /\ task[p] \in AdminTasks
  BY <1>1, AdminTaskOf
<1>3. /\ "settings" \in Keys /\ Semesters \subseteq Keys
      /\ DOMAIN slots = SlotIds
  BY WindowsAssumption DEF CacheInv
<1>4. ASSUME Finish(p), UNCHANGED <<row, slots>>
      PROVE  TypeInv'
  BY <1>1, <1>4, ProceedTyped DEF Finish, TasksOf
<1>5. CASE WriteSettings(p)
  <2>1. task[p].patch \in SettingsPatches /\ task[p].next \in SettingsRow
    BY <1>1, <1>2, <1>5 DEF AdminTasks, WriteSettings
  <2>2. row' \in SettingsRow
    BY <1>5, <2>1, PatchedSettings DEF WriteSettings, TypeInv, DataTyped
  <2>3. UNCHANGED <<readVars, slots>> /\ Publish(p, "settings", <<"settings">>, Settings')
    BY <1>5 DEF WriteSettings
  <2>4. DataTyped'
    BY <2>2, <2>3 DEF TypeInv, DataTyped, readVars
  <2>5. Settings' \in SettingsRow
    BY <2>2, WindowsDataAssumption DEF Settings
  <2> QED
    BY <1>1, <1>3, <2>3, <2>4, <2>5, PublishTyped
<1>6. CASE WriteCreate(p)
  <2>1. task[p].input \in SlotRow
    BY <1>1, <1>2, <1>6, WindowsDataAssumption DEF AdminTasks, WriteCreate
  <2>2. PICK i \in SlotIds : slots' = [slots EXCEPT ![i] = task[p].input]
    BY <1>6 DEF WriteCreate
  <2>3. /\ UNCHANGED <<readVars, row>>
        /\ Publish(p, "slot", <<task[p].input.semester>>, Missing)
    BY <1>6 DEF WriteCreate
  <2>4. DataTyped'
    BY <1>3, <2>1, <2>2, <2>3 DEF TypeInv, DataTyped, readVars
  <2>5. task[p].input.semester \in Keys
    BY <1>3, <2>1 DEF SlotRow
  <2> QED
    BY <1>1, <2>3, <2>4, <2>5, PublishTyped
<1>7. CASE WriteUpdate(p)
  <2>1. /\ task[p].id \in SlotIds /\ task[p].patch \in SlotPatches
        /\ task[p].semester \in Semesters /\ task[p].target \in Semesters
    BY <1>1, <1>2, <1>7 DEF AdminTasks, WriteUpdate
  <2>2. CASE slots[task[p].id] = NoRow
    BY <1>7, <2>2, <1>4 DEF WriteUpdate
  <2>3. CASE slots[task[p].id] # NoRow
    <3> DEFINE old == slots[task[p].id]
               new == [Patched(old, task[p].patch) EXCEPT !.semester = task[p].target]
               keys == IF new.semester = task[p].semester THEN <<new.semester>>
                       ELSE <<task[p].semester, new.semester>>
    <3>1. /\ slots' = [slots EXCEPT ![task[p].id] = new]
          /\ Publish(p, "slot", keys, Missing)
          /\ UNCHANGED <<readVars, row>>
      BY <1>7, <2>3 DEF WriteUpdate
    <3>2. old \in SlotRow
      BY <2>1, <2>3 DEF TypeInv, DataTyped
    <3> HIDE DEF old
    <3>3. Patched(old, task[p].patch) \in SlotRow
      BY <2>1, <3>2, PatchedSlot
    <3>4. new \in SlotRow /\ new.semester = task[p].target
      BY <2>1, <3>3 DEF SlotRow
    <3> HIDE DEF new
    <3>5. DataTyped'
      BY <1>3, <2>1, <3>1, <3>4 DEF TypeInv, DataTyped, readVars
    <3>6. \E j \in Keys, k \in Keys : keys = <<k>> \/ keys = <<j, k>>
      BY <1>3, <2>1, <3>4
    <3> HIDE DEF keys
    <3> QED
      BY <1>1, <3>1, <3>5, <3>6, PublishTyped
  <2> QED
    BY <2>2, <2>3
<1>8. CASE WriteRemove(p)
  <2>1. task[p].id \in SlotIds /\ task[p].semester \in Semesters
    BY <1>1, <1>2, <1>8 DEF AdminTasks, WriteRemove
  <2>2. CASE slots[task[p].id] = NoRow
    BY <1>8, <2>2, <1>4 DEF WriteRemove
  <2>3. CASE slots[task[p].id] # NoRow
    <3>1. /\ slots' = [slots EXCEPT ![task[p].id] = NoRow]
          /\ Publish(p, "slot", <<task[p].semester>>, Missing)
          /\ UNCHANGED <<readVars, row>>
      BY <1>8, <2>3 DEF WriteRemove
    <3>2. DataTyped'
      BY <1>3, <2>1, <3>1 DEF TypeInv, DataTyped, readVars
    <3> QED
      BY <1>1, <1>3, <2>1, <3>1, <3>2, PublishTyped
  <2> QED
    BY <2>2, <2>3
<1> QED
  BY <1>5, <1>6, <1>7, <1>8

LEMMA RefreshTyped ==
  ASSUME CacheInv, TypeInv, NEW p \in Procs, PublishCache(p) \/ PublishFails(p)
  PROVE  TypeInv'
<1> DEFINE keys == task[p].keys
           t == IF Len(keys) = 1 THEN NoTask ELSE [task[p] EXCEPT !.keys = Tail(keys)]
<1>1. /\ task[p].step = "publish" /\ task' = [task EXCEPT ![p] = t]
      /\ UNCHANGED <<lock, fill, expired, row, slots, now>>
      /\ \/ cache' = [cache EXCEPT ![Head(keys)] = task[p].value]
         \/ UNCHANGED cache
  BY DEF PublishCache, PublishFails, PublishRest, readVars
<1>2. p \in Admins /\ task[p] \in AdminTasks
  BY <1>1, AdminTaskOf
<1>3. task[p] \in [step : {"publish"}, op : {"settings", "slot"},
                   keys : {<<k>> : k \in Keys} \cup {<<j, k>> : j \in Keys, k \in Keys},
                   value : SettingsRow \cup {Missing}]
  BY <1>1, <1>2 DEF AdminTasks
<1>4. PICK j \in Keys, k \in Keys : keys = <<k>> \/ keys = <<j, k>>
  BY <1>3
<1>5. /\ keys = <<k>> => Len(keys) = 1 /\ Head(keys) = k
      /\ keys = <<j, k>> => Len(keys) # 1 /\ Head(keys) = j /\ Tail(keys) = <<k>>
  <2>1. /\ Len(<<k>>) = 1 /\ Head(<<k>>) = k
        /\ Len(<<j, k>>) # 1 /\ Head(<<j, k>>) = j /\ Tail(<<j, k>>) = <<k>>
    OBVIOUS
  <2> HIDE DEF keys
  <2>2. CASE keys = <<k>>
    <3>1. keys # <<j, k>>
      BY <2>1, <2>2
    <3> QED
      BY <2>1, <2>2, <3>1
  <2>3. CASE keys = <<j, k>>
    <3>1. keys # <<k>>
      BY <2>1, <2>3
    <3> QED
      BY <2>1, <2>3, <3>1
  <2> QED
    BY <1>4, <2>2, <2>3
<1>6. t \in {NoTask} \cup AdminTasks
  <2>1. CASE keys = <<k>>
    BY <2>1, <1>5
  <2>2. CASE keys = <<j, k>>
    <3>1. t = [task[p] EXCEPT !.keys = <<k>>]
      BY <2>2, <1>5
    <3> HIDE DEF t
    <3> QED
      BY <3>1, <1>3 DEF AdminTasks
  <2> QED
    BY <1>4, <2>1, <2>2
<1>7. t \in TasksOf(p) /\ ~ Reads(p)
  <2> HIDE DEF t
  <2> QED
    BY <1>1, <1>2, <1>6 DEF TasksOf, Reads, SettingsSteps, SlotSteps
<1>8. task[p].value = Missing \/ (keys = <<"settings">> /\ task[p].value \in SettingsRow)
  BY <1>1, <1>3 DEF CacheInv, PublishFresh
<1>9. DataTyped'
  <2>1. Head(keys) \in Keys /\ (keys = <<"settings">> => Head(keys) = "settings")
    BY <1>4, <1>5
  <2>2. task[p].value \in {Missing} \cup Value(Head(keys))
    BY <1>8, <2>1 DEF Value
  <2>3. DOMAIN cache = Keys
    BY DEF CacheInv, CacheFresh
  <2> HIDE DEF keys, t
  <2> QED
    BY <1>1, <2>1, <2>2, <2>3 DEF TypeInv, DataTyped
<1>10. fill'[p] = NoCall /\ \A q \in Procs \ {p} : fill'[q] = fill[q]
  BY <1>1, <1>7 DEF TypeInv, RequestTyped
<1> HIDE DEF t, keys
<1> QED
  BY <1>1, <1>7, <1>9, <1>10, MoveTyped

LEMMA NextTyped ==
  ASSUME CacheInv, TypeInv, [Next]_vars
  PROVE  TypeInv'
<1>1. ASSUME NEW p \in Procs, NEW student \in Students, Enter(p, student)
      PROVE  TypeInv'
  <2> DEFINE t == [step |-> "semester", student |-> student]
  <2>1. t \in TasksOf(p) /\ ~ Reads(p)
    BY <1>1 DEF Enter, TasksOf, GateTasks, Reads, NoTask, SettingsSteps, SlotSteps
  <2>2. /\ task' = [task EXCEPT ![p] = t] /\ UNCHANGED <<readVars, now>>
        /\ UNCHANGED <<row, slots>>
    BY <1>1 DEF Enter
  <2>3. DataTyped'
    BY <2>2 DEF TypeInv, DataTyped, readVars
  <2> HIDE DEF t
  <2> QED
    BY <2>1, <2>2, <2>3, AskTyped
<1>2. ASSUME UNCHANGED <<row, slots, task, fill>>, now' \in Times,
             \A k \in Keys : cache'[k] \in {cache[k], Missing}
      PROVE  TypeInv'
  BY <1>2 DEF TypeInv, DataTyped, RequestTyped, Reads, KeyRead, Holds
<1>3. CASE Tick
  BY <1>2, <1>3 DEF Tick, readVars
<1>4. ASSUME NEW k \in Keys, Expire(k)
      PROVE  TypeInv'
  <2>1. UNCHANGED <<row, slots, task, fill, now>>
    BY <1>4 DEF Expire, KeyExpires, LockExpires, winVars
  <2>2. \A j \in Keys : cache'[j] \in {cache[j], Missing}
    BY <1>4 DEF Expire, KeyExpires, LockExpires, CacheInv, CacheFresh
  <2> QED
    BY <1>2, <2>1, <2>2 DEF TypeInv
<1>5. CASE UNCHANGED vars
  BY <1>2, <1>5 DEF vars, winVars, readVars, TypeInv
<1> QED
  BY <1>1, <1>3, <1>4, <1>5, CommandTyped, GateTyped, AsksTyped, ValidateTyped,
     WriteTyped, RefreshTyped DEF Next, AdminStep

----------------------------------------------------------------------------
(* The gate.  What a student's request that nothing has disturbed knows of *)
(* the database at each of its steps, from its reads so far.               *)
AfterCheck == {"current", "current_slots", "next", "next_slots", "assigned"}

Refused(t) == ~ MayRegister(t.student, t.at)
RefusedForGood(t) ==
  \A later \in Times : NotAfter(t.at, later) => ~ MayRegister(t.student, later)

GateKnows(t) ==
  /\ t.step \in AfterCheck \cup {"check"} => t.semester = Settings.semester
  /\ t.step \in AfterCheck => t.status = WindowStatus(Settings, t.at)
  /\ t.step = "current_slots" => t.status = "RUNNING"
  /\ t.step \in {"next", "next_slots", "assigned"} => Refused(t)
  /\ t.step = "assigned" => RefusedForGood(t)
  /\ t.step = "answered" =>
       /\ t.outcome = "admitted" <=> MayRegister(t.student, t.at)
       /\ t.outcome \in {"over", "not_assigned"} => RefusedForGood(t)
       /\ t.outcome # "other_semester"

Undisturbed(p) ==
  /\ suspect = {} /\ PendingKeys = {}
  /\ Reads(p) => Holds(p, KeyRead(p), {db[KeyRead(p)]})
  /\ GateKnows(task[p])

GateInv ==
  \A p \in Procs \ (Admins \cup disturbed) : task[p].step # "idle" => Undisturbed(p)

(* A read that is answered is the database's value. *)
LEMMA AnswerIsCurrent ==
  ASSUME TypeInv, NEW p \in Procs, Undisturbed(p), NEW step, Answered(p, step)
  PROVE  /\ step \in SettingsSteps => fill[p].value = Settings
         /\ step \in SlotSteps => fill[p].value = SlotsOf(task[p].semester)
<1>1. task[p] \in TasksOf(p)
  BY DEF TypeInv, RequestTyped
<1>2. Reads(p) => fill[p].value = db[KeyRead(p)] /\ KeyRead(p) \in Keys
  BY <1>1, KeyReadIsKey DEF Undisturbed, Holds, Answered
<1>3. ASSUME step \in SettingsSteps
      PROVE  fill[p].value = Settings
  BY <1>2, <1>3 DEF Reads, KeyRead, Answered, db
<1>4. ASSUME step \in SlotSteps
      PROVE  fill[p].value = SlotsOf(task[p].semester)
  <2>1. step \notin SettingsSteps /\ Reads(p)
    BY <1>4 DEF SettingsSteps, SlotSteps, Reads, Answered
  <2>2. KeyRead(p) = task[p].semester
    BY <2>1 DEF KeyRead, Answered
  <2>3. task[p].semester # "settings"
    BY <1>1, <1>4, WindowsAssumption
    DEF TasksOf, GateTasks, AdminTasks, NoTask, SlotSteps, Answered
  <2> QED
    BY <1>2, <2>1, <2>2, <2>3 DEF db
<1> QED
  BY <1>3, <1>4

(* Steps that leave the database as it is. *)
LEMMA SameRegister ==
  ASSUME UNCHANGED <<row, slots>>
  PROVE  /\ \A t : GateKnows(t)' <=> GateKnows(t)
         /\ db' = db
  BY SameDatabase DEF GateKnows, Refused, RefusedForGood, MayRegister, Settings, SlotsOf

(* A step of somebody else that changes neither the database nor what is   *)
(* on its way to the cache.                                                *)
LEMMA OthersUndisturbed ==
  ASSUME NEW q \in Procs, Undisturbed(q), UNCHANGED <<row, slots, suspect>>,
         PendingKeys' = PendingKeys, task'[q] = task[q], fill'[q] = fill[q]
  PROVE  Undisturbed(q)'
<1>1. KeyRead(q)' = KeyRead(q) /\ (Reads(q)' <=> Reads(q))
  BY DEF KeyRead, Reads
<1>2. GateKnows(task[q])'
  BY SameRegister DEF Undisturbed
<1>3. Reads(q)' => Holds(q, KeyRead(q), {db[KeyRead(q)]})'
  BY <1>1, SameDatabase DEF Undisturbed, Holds
<1> QED
  BY <1>2, <1>3 DEF Undisturbed

(* A request that takes its answer and goes on to a task it may go on to. *)
LEMMA GoesOn ==
  ASSUME CacheInv, NEW p \in Procs, NEW t, Proceed(p, t), Undisturbed(p),
         UNCHANGED <<row, slots, suspect>>, PendingKeys' = PendingKeys, GateKnows(t)
  PROVE  Undisturbed(p)'
<1>1. task'[p] = t /\ fill'[p] = NoCall
  BY DEF Proceed, CacheInv, TasksShaped, LockInv, CallsShaped
<1>2. Holds(p, KeyRead(p), {db[KeyRead(p)]})'
  BY <1>1 DEF Holds, NoCall
<1>3. GateKnows(task[p])'
  BY <1>1, SameRegister
<1> QED
  BY <1>2, <1>3 DEF Undisturbed

(* Each step of the gate goes on to a task that is true of the database.   *)
LEMMA GateStepKnows ==
  ASSUME CacheInv, TypeInv, NEW p \in Procs, Undisturbed(p), GateStep(p)
  PROVE  \E t : Proceed(p, t) /\ GateKnows(t)
<1>1. GateKnows(task[p]) /\ DataTyped /\ task[p] \in TasksOf(p)
  BY DEF Undisturbed, TypeInv, RequestTyped
<1>2. Settings \in SettingsRow /\ \A semester : SlotsOf(semester) \subseteq SlotRow
  BY <1>1, DatabaseTyped
<1>3. ASSUME NEW a, Step(p, a), task[p].step \in AfterCheck
      PROVE  \E t : /\ Proceed(p, t) /\ t.step = a
                    /\ t.student = task[p].student /\ t.at = task[p].at
                    /\ t.semester = task[p].semester /\ t.status = task[p].status
  <2>1. task[p] \in [step : AfterCheck, student : Students, at : Times,
                     semester : Semesters, status : {"UPCOMING", "RUNNING", "CLOSED"}]
    BY <1>1, <1>3 DEF TasksOf, GateTasks, AdminTasks, NoTask, AfterCheck
  <2> DEFINE t == [task[p] EXCEPT !.step = a]
  <2>2. /\ t.step = a /\ t.student = task[p].student /\ t.at = task[p].at
        /\ t.semester = task[p].semester /\ t.status = task[p].status
    BY <2>1
  <2>3. Proceed(p, t)
    BY <1>3 DEF Step
  <2> HIDE DEF t
  <2> QED
    BY <2>2, <2>3
<1>4. ASSUME NEW o, Decide(p, o)
      PROVE  \E t : /\ Proceed(p, t) /\ t.step = "answered" /\ t.outcome = o
                    /\ t.student = task[p].student /\ t.at = task[p].at
  <2> DEFINE t == [step |-> "answered", student |-> task[p].student,
                   at |-> task[p].at, outcome |-> o]
  <2>1. /\ t.step = "answered" /\ t.outcome = o
        /\ t.student = task[p].student /\ t.at = task[p].at
    OBVIOUS
  <2>2. Proceed(p, t)
    BY <1>4 DEF Decide
  <2> HIDE DEF t
  <2> QED
    BY <2>1, <2>2
<1>5. task[p].step \in AfterCheck =>
        /\ task[p].semester = Settings.semester
        /\ task[p].status = WindowStatus(Settings, task[p].at)
        /\ task[p].at \in Times /\ task[p].at \in Instant
  BY <1>1, WindowsAssumption
  DEF GateKnows, AfterCheck, TasksOf, GateTasks, AdminTasks, NoTask
<1>6. CASE ReadSemester(p)
  <2> DEFINE t == [step |-> "check", student |-> task[p].student, at |-> now,
                   semester |-> fill[p].value.semester]
  <2>1. fill[p].value = Settings
    BY <1>6, AnswerIsCurrent DEF ReadSemester, SettingsSteps
  <2>2. t.step = "check" /\ t.semester = Settings.semester
    BY <2>1
  <2>3. Proceed(p, t)
    BY <1>6 DEF ReadSemester
  <2> HIDE DEF t
  <2>4. GateKnows(t)
    BY <2>2 DEF GateKnows, AfterCheck
  <2> QED
    BY <2>3, <2>4
<1>7. CASE CheckSemester(p)
  <2>1. fill[p].value = Settings /\ task[p].semester = Settings.semester
    BY <1>1, <1>7, AnswerIsCurrent DEF CheckSemester, Answered, SettingsSteps, GateKnows
  <2> DEFINE t == [step |-> "current", student |-> task[p].student,
                   at |-> task[p].at, semester |-> task[p].semester,
                   status |-> WindowStatus(fill[p].value, task[p].at)]
  <2>2. /\ t.step = "current" /\ t.semester = Settings.semester
        /\ t.status = WindowStatus(Settings, t.at)
    BY <2>1
  <2>3. Proceed(p, t)
    BY <1>7, <2>1 DEF CheckSemester
  <2> HIDE DEF t
  <2>4. GateKnows(t)
    BY <2>2 DEF GateKnows, AfterCheck
  <2> QED
    BY <2>3, <2>4
<1>8. CASE FindCurrent(p)
  <2>1. task[p].step = "current" /\ fill[p].value = Settings
    BY <1>8, AnswerIsCurrent DEF FindCurrent, Answered, SettingsSteps
  <2>2. CASE WindowStatus(Settings, task[p].at) = "RUNNING"
    <3>1. Step(p, "current_slots")
      BY <1>5, <1>8, <2>1, <2>2 DEF FindCurrent, AfterCheck
    <3> QED
      BY <1>3, <1>5, <2>1, <2>2, <3>1 DEF GateKnows, AfterCheck
  <2>3. CASE WindowStatus(Settings, task[p].at) # "RUNNING"
    <3>1. Step(p, "next")
      BY <1>8, <2>1, <2>3 DEF FindCurrent
    <3>2. Refused(task[p])
      BY <2>3 DEF Refused, MayRegister
    <3> QED
      BY <1>3, <1>5, <2>1, <3>1, <3>2 DEF GateKnows, AfterCheck, Refused
  <2> QED
    BY <2>2, <2>3
<1>9. CASE FindCurrentSlot(p)
  <2>1. /\ task[p].step = "current_slots" /\ task[p].status = "RUNNING"
        /\ fill[p].value = SlotsOf(Settings.semester)
    BY <1>1, <1>5, <1>9, AnswerIsCurrent
    DEF FindCurrentSlot, Answered, SlotSteps, AfterCheck, GateKnows
  <2>2. CurrentSlots(fill[p].value, task[p].student, task[p].at) = {} <=>
          ~ MayRegister(task[p].student, task[p].at)
    BY <1>2, <1>5, <2>1, FindsAny DEF MayRegister, AfterCheck
  <2>3. CASE MayRegister(task[p].student, task[p].at)
    <3>1. Decide(p, "admitted")
      BY <1>9, <2>2, <2>3 DEF FindCurrentSlot
    <3> QED
      BY <1>4, <2>3, <3>1 DEF GateKnows, AfterCheck
  <2>4. CASE ~ MayRegister(task[p].student, task[p].at)
    <3>1. Step(p, "next")
      BY <1>9, <2>2, <2>4 DEF FindCurrentSlot
    <3> QED
      BY <1>3, <1>5, <2>1, <2>4, <3>1 DEF GateKnows, AfterCheck, Refused
  <2> QED
    BY <2>3, <2>4
<1>10. CASE FindNext(p)
  <2>1. /\ task[p].step = "next" /\ Refused(task[p]) /\ fill[p].value = Settings
    BY <1>1, <1>10, AnswerIsCurrent DEF FindNext, Answered, SettingsSteps, GateKnows
  <2>2. CASE WindowStatus(Settings, task[p].at) # "CLOSED"
    <3>1. Step(p, "next_slots")
      BY <1>5, <1>10, <2>1, <2>2 DEF FindNext, AfterCheck
    <3> QED
      BY <1>3, <1>5, <2>1, <3>1 DEF GateKnows, AfterCheck, Refused
  <2>3. CASE WindowStatus(Settings, task[p].at) = "CLOSED"
    <3>1. Step(p, "assigned")
      BY <1>10, <2>1, <2>3 DEF FindNext
    <3>2. RefusedForGood(task[p])
      BY <1>2, <1>5, <2>1, <2>3, ClosedForGood, WindowsAssumption
      DEF RefusedForGood, MayRegister, AfterCheck
    <3> QED
      BY <1>3, <1>5, <2>1, <3>1, <3>2 DEF GateKnows, AfterCheck, Refused, RefusedForGood
  <2> QED
    BY <2>2, <2>3
<1>11. CASE FindNextSlot(p)
  <2>1. /\ task[p].step = "next_slots" /\ Refused(task[p])
        /\ fill[p].value = SlotsOf(Settings.semester)
    BY <1>1, <1>5, <1>11, AnswerIsCurrent
    DEF FindNextSlot, Answered, SlotSteps, AfterCheck, GateKnows
  <2>2. CASE NextSlots(fill[p].value, task[p].student, task[p].at) # {}
    <3>1. Decide(p, "wait")
      BY <1>11, <2>2 DEF FindNextSlot
    <3> QED
      BY <1>4, <2>1, <3>1 DEF GateKnows, AfterCheck, Refused
  <2>3. CASE NextSlots(fill[p].value, task[p].student, task[p].at) = {}
    <3>1. Step(p, "assigned")
      BY <1>11, <2>3 DEF FindNextSlot
    <3>2. \A s \in SlotsOf(Settings.semester) :
            CoversStudent(s, task[p].student) => NextOpenAt(s, task[p].at) = Never
      BY <1>2, <2>1, <2>3, FindsAny
    <3>3. RefusedForGood(task[p])
      BY <1>2, <1>5, <2>1, <3>2, NotOpenLater, WindowsAssumption
      DEF RefusedForGood, MayRegister, AfterCheck
    <3> QED
      BY <1>3, <1>5, <2>1, <3>1, <3>3 DEF GateKnows, AfterCheck, Refused, RefusedForGood
  <2> QED
    BY <2>2, <2>3
<1>12. CASE FindAssigned(p)
  <2>1. task[p].step = "assigned" /\ Refused(task[p]) /\ RefusedForGood(task[p])
    BY <1>1, <1>12 DEF FindAssigned, Answered, GateKnows
  <2>2. PICK o \in {"not_assigned", "wait", "over"} : Decide(p, o)
    BY <1>12 DEF FindAssigned
  <2> QED
    BY <1>4, <2>1, <2>2 DEF GateKnows, AfterCheck, Refused, RefusedForGood
<1>13. CASE Leave(p)
  BY <1>13 DEF Leave, Finish, GateKnows, AfterCheck, NoTask
<1> QED
  BY <1>6, <1>7, <1>8, <1>9, <1>10, <1>11, <1>12, <1>13 DEF GateStep

LEMMA QuietGate ==
  ASSUME GateInv, UNCHANGED <<row, slots, suspect, disturbed>>, PendingKeys' = PendingKeys,
         \A q \in Procs \ Admins : task'[q] = task[q] /\ fill'[q] = fill[q]
  PROVE  GateInv'
  BY OthersUndisturbed DEF GateInv

(* A request whose task is on its way to the cache. *)
LEMMA PublishIsPending ==
  ASSUME TypeInv, NEW p \in Procs, task[p].step = "publish"
  PROVE  PendingKeys # {}
<1>1. task[p] \in AdminTasks
  BY AdminTaskOf
<1>2. PICK j \in Keys, k \in Keys : task[p].keys = <<k>> \/ task[p].keys = <<j, k>>
  BY <1>1 DEF AdminTasks
<1>3. \E i \in DOMAIN task[p].keys : task[p].keys[i] \in Keys
  BY <1>2
<1> QED
  BY <1>3 DEF PendingKeys, Pending

LEMMA NextKeepsGate ==
  ASSUME CacheInv, TypeInv, GateInv, [Next]_vars
  PROVE  GateInv'
<1>1. ASSUME NEW p \in Procs, NEW student \in Students, Enter(p, student)
      PROVE  GateInv'
  <2> DEFINE t == [step |-> "semester", student |-> student]
  <2>1. /\ t.step = "semester" /\ "step" \in DOMAIN t
        /\ task' = [task EXCEPT ![p] = t]
        /\ UNCHANGED <<readVars, row, slots, suspect>> /\ task[p] = NoTask
        /\ disturbed' \in {disturbed \cup {p}, disturbed \ {p}}
        /\ p \notin disturbed' => suspect = {} /\ ~ \E k \in Keys : Pending(k)
    BY <1>1 DEF Enter
  <2> HIDE DEF t
  <2>2. /\ task'[p] = t /\ \A q \in Procs \ {p} : task'[q] = task[q]
        /\ task[p].step = "idle"
    BY <2>1 DEF CacheInv, TasksShaped, NoTask
  <2>3. PendingKeys' = PendingKeys
    BY <2>1, <2>2, QuietTasks
  <2>4. ASSUME NEW q \in Procs \ (Admins \cup disturbed'), task'[q].step # "idle", q # p
        PROVE  Undisturbed(q)'
    <3>1. Undisturbed(q) /\ task'[q] = task[q] /\ fill'[q] = fill[q]
      BY <2>1, <2>2, <2>4 DEF GateInv, readVars
    <3> QED
      BY <2>1, <2>3, <3>1, OthersUndisturbed
  <2>5. ASSUME p \notin disturbed'
        PROVE  Undisturbed(p)'
    <3>1. suspect' = {} /\ PendingKeys' = {}
      BY <2>1, <2>3, <2>5 DEF PendingKeys
    <3>2. fill'[p] = NoCall
      BY <2>1, <2>2 DEF TypeInv, RequestTyped, Reads, SettingsSteps, SlotSteps, readVars
    <3>3. Holds(p, KeyRead(p), {db[KeyRead(p)]})'
      BY <3>2 DEF Holds, NoCall
    <3>4. GateKnows(task[p])'
      BY <2>1, <2>2 DEF GateKnows, AfterCheck
    <3> QED
      BY <3>1, <3>3, <3>4 DEF Undisturbed
  <2> QED
    BY <2>4, <2>5 DEF GateInv
<1>2. ASSUME NEW p \in Procs, ReadCache(p) \/ ReadCacheFails(p)
      PROVE  GateInv'
  <2>1. /\ UNCHANGED winVars /\ Reads(p)
        /\ \/ Get(p, KeyRead(p)) \/ GetFails(p, KeyRead(p))
           \/ ReadStep(p, db) \/ ReadFault(p)
    BY <1>2 DEF ReadCache, ReadCacheFails
  <2>2. PICK k, d : k = KeyRead(p) /\ d = db
    OBVIOUS
  <2>3. CallsShaped /\ k \in Keys
    BY <2>1, <2>2, KeyReadIsKey DEF CacheInv, LockInv, TypeInv, RequestTyped
  <2>4. Get(p, k) \/ GetFails(p, k) \/ ReadStep(p, d) \/ ReadFault(p)
    BY <2>1, <2>2
  <2>5. \A q \in Procs \ {p} : fill'[q] = fill[q]
    BY <2>3, <2>4, CommandMovesOne
  <2>6. PendingKeys' = PendingKeys
    BY <2>1 DEF winVars, PendingKeys, Pending
  <2>7. ASSUME NEW q \in Procs \ (Admins \cup disturbed), task[q].step # "idle", q # p
        PROVE  Undisturbed(q)'
    BY <2>1, <2>5, <2>6, <2>7, OthersUndisturbed DEF GateInv, winVars
  <2>8. ASSUME p \notin Admins \cup disturbed, task[p].step # "idle"
        PROVE  Undisturbed(p)'
    <3>1. Undisturbed(p)
      BY <2>8 DEF GateInv
    <3>2. Holds(p, k, {d[k]})
      BY <2>1, <2>2, <3>1 DEF Undisturbed
    <3>3. cache[k] \in {Missing} \cup {d[k]}
      BY <2>2, <2>3, <3>1 DEF CacheInv, CacheFresh, Undisturbed
    <3>4. Holds(p, k, {d[k]})'
      BY <2>3, <2>4, <3>2, <3>3, CommandHolds
    <3>5. k = KeyRead(p)' /\ d = db' /\ db' = db
      BY <2>1, <2>2, SameDatabase DEF winVars, KeyRead
    <3>6. Holds(p, KeyRead(p), {db[KeyRead(p)]})'
      BY <3>4, <3>5 DEF Holds
    <3>7. GateKnows(task[p])'
      BY <2>1, <3>1, SameRegister DEF Undisturbed, winVars
    <3> QED
      BY <2>1, <2>6, <3>1, <3>6, <3>7 DEF Undisturbed, winVars
  <2> QED
    BY <2>1, <2>7, <2>8 DEF GateInv, winVars
<1>3. ASSUME NEW p \in Procs, GateStep(p)
      PROVE  GateInv'
  <2>1. /\ UNCHANGED <<row, slots, suspect, disturbed>>
        /\ task[p].step \notin {"idle", "publish"}
        /\ \E t : Proceed(p, t)
    BY <1>3 DEF GateStep, ReadSemester, CheckSemester, FindCurrent, FindCurrentSlot,
       FindNext, FindNextSlot, FindAssigned, Leave, Answered, Decide, Step, Finish
  <2>2. \A q \in Procs \ {p} : task'[q] = task[q] /\ fill'[q] = fill[q]
    BY <2>1 DEF Proceed, CacheInv, TasksShaped, LockInv, CallsShaped
  <2>3. p \notin Admins
    BY <1>3 DEF TypeInv, RequestTyped, TasksOf, AdminTasks, NoTask, GateStep, ReadSemester,
       CheckSemester, FindCurrent, FindCurrentSlot, FindNext, FindNextSlot, FindAssigned,
       Leave, Answered
  <2>4. TypeInv'
    BY <1>3, GateTyped
  <2>5. task'[p].step # "publish"
    BY <2>3, <2>4, AdminTaskOf DEF TypeInv, RequestTyped, TasksOf, GateTasks, NoTask
  <2>6. PendingKeys' = PendingKeys
    BY <2>1, <2>2, <2>5 DEF PendingKeys, Pending
  <2>7. ASSUME NEW q \in Procs \ (Admins \cup disturbed), task'[q].step # "idle", q # p
        PROVE  Undisturbed(q)'
    BY <2>1, <2>2, <2>6, <2>7, OthersUndisturbed DEF GateInv
  <2>8. ASSUME p \notin Admins \cup disturbed
        PROVE  Undisturbed(p)'
    <3>1. Undisturbed(p)
      BY <2>1, <2>8 DEF GateInv
    <3> QED
      BY <1>3, <2>1, <2>6, <3>1, GateStepKnows, GoesOn
  <2> QED
    BY <2>1, <2>7, <2>8 DEF GateInv
<1>4. ASSUME NEW p \in Procs,
             AdminAsks(p) \/ ValidateSettings(p) \/ ValidateCreate(p) \/ ValidateUpdate(p)
      PROVE  GateInv'
  <2>1. p \in Admins
    <3>1. CASE AdminAsks(p)
      BY <3>1 DEF AdminAsks, AskSettings, AskCreate, AskUpdate, AskRemove, Ask, Idle
    <3>2. CASE ~ AdminAsks(p)
      BY <1>4, <3>2, AdminTaskOf
      DEF ValidateSettings, ValidateCreate, ValidateUpdate, Answered
    <3> QED
      BY <3>1, <3>2
  <2>2. /\ UNCHANGED <<row, slots, suspect, disturbed>>
        /\ \E t : task' = [task EXCEPT ![p] = t]
        /\ UNCHANGED fill \/ fill' = [fill EXCEPT ![p] = NoCall]
    BY <1>4 DEF AdminAsks, AskSettings, AskCreate, AskUpdate, AskRemove, Ask, readVars,
       ValidateSettings, ValidateCreate, ValidateUpdate, Proceed, Finish
  <2>3. \A q \in Procs \ {p} : task'[q] = task[q] /\ fill'[q] = fill[q]
    BY <2>2 DEF CacheInv, TasksShaped, LockInv, CallsShaped
  <2>4. task[p].step # "publish" /\ task'[p].step # "publish"
    BY <1>4 DEF CacheInv, TasksShaped, AdminAsks, AskSettings, AskCreate, AskUpdate,
       AskRemove, Ask, Idle, NoTask,
       ValidateSettings, ValidateCreate, ValidateUpdate, Proceed, Finish, Answered
  <2>5. PendingKeys' = PendingKeys
    BY <2>3, <2>4 DEF PendingKeys, Pending
  <2> QED
    BY <2>1, <2>2, <2>3, <2>5, QuietGate
<1>5. ASSUME NEW p \in Procs,
             WriteSettings(p) \/ WriteCreate(p) \/ WriteUpdate(p) \/ WriteRemove(p)
      PROVE  GateInv'
  <2>1. task[p].step = "write" /\ p \in Admins
    BY <1>5, AdminTaskOf DEF WriteSettings, WriteCreate, WriteUpdate, WriteRemove
  <2>2. CASE Finish(p) /\ UNCHANGED <<row, slots, suspect, disturbed>>
    <3>1. \A q \in Procs \ {p} : task'[q] = task[q] /\ fill'[q] = fill[q]
      BY <2>2 DEF Finish, Proceed, CacheInv, TasksShaped, LockInv, CallsShaped
    <3>2. task'[p].step # "publish"
      BY <2>2 DEF Finish, Proceed, CacheInv, TasksShaped, NoTask
    <3>3. PendingKeys' = PendingKeys
      BY <2>1, <3>1, <3>2 DEF PendingKeys, Pending
    <3> QED
      BY <2>1, <2>2, <3>1, <3>3, QuietGate
  <2>3. CASE Procs \ Admins \subseteq disturbed'
    BY <2>3 DEF GateInv
  <2> QED
    BY <1>5, <2>2, <2>3 DEF WriteSettings, WriteCreate, WriteUpdate, WriteRemove, Commits
<1>6. ASSUME NEW p \in Procs, PublishCache(p) \/ PublishFails(p)
      PROVE  GateInv'
  <2>1. task[p].step = "publish" /\ UNCHANGED disturbed
    BY <1>6 DEF PublishCache, PublishFails
  <2>2. p \in Admins /\ PendingKeys # {}
    BY <2>1, AdminTaskOf, PublishIsPending
  <2>3. \A q \in Procs \ {p} : task'[q] = task[q]
    BY <1>6 DEF PublishCache, PublishFails, PublishRest, CacheInv, TasksShaped
  <2> QED
    BY <2>1, <2>2, <2>3 DEF GateInv, Undisturbed
<1>7. CASE Tick
  BY <1>7, QuietGate DEF Tick, readVars, PendingKeys, Pending
<1>8. ASSUME NEW k \in Keys, Expire(k)
      PROVE  GateInv'
  BY <1>8, QuietGate DEF Expire, KeyExpires, LockExpires, winVars, PendingKeys, Pending
<1>9. CASE UNCHANGED vars
  BY <1>9, QuietGate DEF vars, winVars, readVars, PendingKeys, Pending
<1> QED
  BY <1>1, <1>2, <1>3, <1>4, <1>5, <1>6, <1>7, <1>8, <1>9 DEF Next, AdminStep

(* The gate, for any number of students, administrators, caches and slots, *)
(* with every fault of the model: a request under which nothing was        *)
(* changed admits its student exactly when the database would at the       *)
(* instant it read the clock, and whom it turns away for good cannot       *)
(* register at any later instant.                                          *)
THEOREM GateIsRight == Spec => []GateFollowsDatabase
<1> DEFINE Inv == CacheInv /\ TypeInv /\ GateInv
<1>1. Init => Inv
  BY CacheInvInit, TypeInit DEF Init, GateInv, NoTask
<1>2. Inv /\ [Next]_vars => Inv'
  BY NextKeepsCache, NextTyped, NextKeepsGate
<1>3. Inv => GateFollowsDatabase
  BY DEF GateInv, Undisturbed, GateKnows, GateFollowsDatabase, RefusedForGood
<1> QED
  BY <1>1, <1>2, <1>3, PTL DEF Spec

----------------------------------------------------------------------------
(* The order of the windows, with one administrator at a time: what the    *)
(* request validated is still what its statement finds.                    *)
OneAdmin == \A p, q \in Admins : p = q

AdminKnows(p) ==
  LET t == task[p]
  IN  /\ t.step = "validate" /\ "settings" \notin suspect => Holds(p, "settings", {Settings})
      /\ t.step = "write" /\ t.op = "settings" /\ "settings" \notin suspect =>
           t.next = Patched(Settings, t.patch) /\ ValidRange(t.next)
      /\ t.step = "write" /\ t.op = "create" => ValidSlot(t.input)
      /\ t.step = "write" /\ t.op = "update" /\ slots[t.id] # NoRow =>
           ValidSlot(Patched(slots[t.id], t.patch))

ValidInv == WindowsStayValid /\ \A p \in Admins : AdminKnows(p)

(* A step that leaves the rows as they are, and the administrators' tasks. *)
LEMMA QuietAdmins ==
  ASSUME ValidInv, UNCHANGED <<row, slots>>, suspect \subseteq suspect',
         \A q \in Admins : \/ task'[q] = task[q] /\ fill'[q] = fill[q]
                           \/ AdminKnows(q)'
  PROVE  ValidInv'
<1>1. WindowsStayValid'
  BY SameDatabase DEF ValidInv, WindowsStayValid
<1>2. ASSUME NEW q \in Admins, task'[q] = task[q], fill'[q] = fill[q]
      PROVE  AdminKnows(q)'
  BY <1>2, SameDatabase DEF ValidInv, AdminKnows, Holds
<1> QED
  BY <1>1, <1>2 DEF ValidInv

LEMMA ValidateKeepsValid ==
  ASSUME CacheInv, TypeInv, ValidInv, NEW p \in Procs,
         ValidateSettings(p) \/ ValidateCreate(p) \/ ValidateUpdate(p)
  PROVE  ValidInv'
<1>1. task[p].step = "validate" /\ fill[p].at = "answered"
  BY DEF ValidateSettings, ValidateCreate, ValidateUpdate, Answered
<1>2. p \in Admins /\ task[p] \in AdminTasks
  BY <1>1, AdminTaskOf
<1>3. "settings" \notin suspect => fill[p].value = Settings
  BY <1>1, <1>2 DEF ValidInv, AdminKnows, Holds
<1>4. UNCHANGED <<row, slots, suspect>> /\ \E t : Proceed(p, t)
  BY DEF ValidateSettings, ValidateCreate, ValidateUpdate, Finish
<1>5. \A q \in Procs \ {p} : task'[q] = task[q] /\ fill'[q] = fill[q]
  BY <1>4 DEF Proceed, CacheInv, TasksShaped, LockInv, CallsShaped
<1>6. Admins \subseteq Procs /\ Settings' = Settings
  BY <1>4, SameDatabase, WindowsAssumption
<1>7. ASSUME AdminKnows(p)'
      PROVE  ValidInv'
  BY <1>4, <1>5, <1>6, <1>7, QuietAdmins
<1>8. ASSUME Finish(p)
      PROVE  ValidInv'
  <2>1. task'[p] = NoTask
    BY <1>8 DEF Finish, Proceed, CacheInv, TasksShaped
  <2>2. AdminKnows(p)'
    BY <2>1 DEF AdminKnows, NoTask
  <2> QED
    BY <1>7, <2>2
<1>9. ASSUME NEW t, Proceed(p, t)
      PROVE  task'[p] = t
  BY <1>9 DEF Proceed, CacheInv, TasksShaped
<1>10. CASE ValidateSettings(p)
  <2> DEFINE next == Patched(fill[p].value, task[p].patch)
             t == [step |-> "write", op |-> "settings", patch |-> task[p].patch, next |-> next]
  <2>1. (Proceed(p, t) /\ ValidRange(next)) \/ Finish(p)
    BY <1>10 DEF ValidateSettings
  <2>2. t.step = "write" /\ t.op = "settings" /\ t.patch = task[p].patch /\ t.next = next
    OBVIOUS
  <2>3. "settings" \notin suspect => next = Patched(Settings, task[p].patch)
    BY <1>3
  <2> HIDE DEF t, next
  <2>4. CASE Proceed(p, t) /\ ValidRange(next)
    <3>1. task'[p] = t
      BY <1>9, <2>4
    <3>2. AdminKnows(p)'
      BY <1>4, <1>6, <2>2, <2>3, <2>4, <3>1 DEF AdminKnows, Patched
    <3> QED
      BY <1>7, <3>2
  <2> QED
    BY <1>8, <2>1, <2>4
<1>11. CASE ValidateCreate(p)
  <2> DEFINE t == [task[p] EXCEPT !.step = "write"]
  <2>1. (Proceed(p, t) /\ ValidSlot(task[p].input)) \/ Finish(p)
    BY <1>11 DEF ValidateCreate, AcceptedSlot
  <2>2. task[p] \in [step : {"validate", "write"}, op : {"create"}, input : SlotInputs]
    BY <1>1, <1>2, <1>11 DEF AdminTasks, ValidateCreate
  <2>3. t.step = "write" /\ t.op = "create" /\ t.input = task[p].input
    BY <2>2
  <2> HIDE DEF t
  <2>4. CASE Proceed(p, t) /\ ValidSlot(task[p].input)
    <3>1. task'[p] = t
      BY <1>9, <2>4
    <3>2. AdminKnows(p)'
      BY <2>3, <2>4, <3>1 DEF AdminKnows
    <3> QED
      BY <1>7, <3>2
  <2> QED
    BY <1>8, <2>1, <2>4
<1>12. CASE ValidateUpdate(p)
  <2> DEFINE current == slots[task[p].id]
             next == Patched(current, task[p].patch)
             t == [step |-> "write", op |-> "update", id |-> task[p].id,
                   patch |-> task[p].patch, semester |-> current.semester,
                   target |-> next.semester]
  <2>1. (Proceed(p, t) /\ ValidSlot(next)) \/ Finish(p)
    BY <1>12 DEF ValidateUpdate, AcceptedSlot
  <2>2. t.step = "write" /\ t.op = "update" /\ t.patch = task[p].patch /\ t.id = task[p].id
    OBVIOUS
  <2> HIDE DEF t
  <2>3. CASE Proceed(p, t) /\ ValidSlot(next)
    <3>1. task'[p] = t
      BY <1>9, <2>3
    <3>2. AdminKnows(p)'
      BY <1>4, <2>2, <2>3, <3>1 DEF AdminKnows, Patched
    <3> QED
      BY <1>7, <3>2
  <2> QED
    BY <1>8, <2>1, <2>3
<1> QED
  BY <1>10, <1>11, <1>12

(* The statements.  The row a patch meets is the one it was validated with. *)
LEMMA WriteKeepsValid ==
  ASSUME OneAdmin, CacheInv, TypeInv, ValidInv, NEW p \in Procs,
         WriteSettings(p) \/ WriteCreate(p) \/ WriteUpdate(p) \/ WriteRemove(p)
  PROVE  ValidInv'
<1>1. task[p].step = "write"
  BY DEF WriteSettings, WriteCreate, WriteUpdate, WriteRemove
<1>2. p \in Admins /\ task[p] \in AdminTasks
  BY <1>1, AdminTaskOf
<1>3. AdminKnows(p) /\ \A q \in Admins : q = p
  BY <1>2 DEF ValidInv, OneAdmin
<1>4. Finish(p) \/ \E op, keys, value : Publish(p, op, keys, value)
  BY DEF WriteSettings, WriteCreate, WriteUpdate, WriteRemove
<1>5. task'[p].step \in {"idle", "publish"}
  <2>1. CASE Finish(p)
    BY <2>1 DEF Finish, Proceed, NoTask, CacheInv, TasksShaped
  <2>2. CASE \E op, keys, value : Publish(p, op, keys, value)
    BY <2>2 DEF Publish, CacheInv, TasksShaped
  <2> QED
    BY <1>4, <2>1, <2>2
<1>6. \A q \in Admins : AdminKnows(q)'
  BY <1>3, <1>5 DEF AdminKnows
<1>7. suspect \subseteq suspect' /\ DOMAIN slots = SlotIds
  BY DEF WriteSettings, WriteCreate, WriteUpdate, WriteRemove, Commits, CacheInv
<1>8. CASE WriteSettings(p)
  <2>1. task[p].op = "settings" /\ UNCHANGED slots
        /\ row' = IF row = NoRow THEN task[p].next ELSE Patched(row, task[p].patch)
    BY <1>8 DEF WriteSettings
  <2>2. task[p].next \in SettingsRow
    BY <1>1, <1>2, <2>1 DEF AdminTasks
  <2>3. "settings" \notin suspect =>
           task[p].next = Patched(Settings, task[p].patch) /\ ValidRange(task[p].next)
    BY <1>1, <1>3, <2>1 DEF AdminKnows
  <2>4. ASSUME "settings" \notin suspect
        PROVE  ValidRange(Settings')
    <3>1. row' = task[p].next
      BY <2>1, <2>3, <2>4 DEF Settings
    <3> QED
      BY <2>2, <2>3, <2>4, <3>1, WindowsDataAssumption DEF Settings
  <2> QED
    BY <1>6, <1>7, <2>1, <2>4 DEF ValidInv, WindowsStayValid, ValidRange
<1>9. ASSUME UNCHANGED row, \A i \in SlotIds : \/ slots'[i] \in {slots[i], NoRow}
                                               \/ ValidSlot(slots'[i])
      PROVE  ValidInv'
  BY <1>6, <1>7, <1>9 DEF ValidInv, WindowsStayValid, Settings
<1>10. CASE WriteCreate(p)
  <2>1. ValidSlot(task[p].input) /\ UNCHANGED row
    BY <1>1, <1>3, <1>10 DEF AdminKnows, WriteCreate
  <2>2. PICK i \in SlotIds : slots' = [slots EXCEPT ![i] = task[p].input]
    BY <1>10 DEF WriteCreate
  <2> QED
    BY <1>7, <1>9, <2>1, <2>2
<1>11. CASE WriteUpdate(p)
  <2>1. task[p].op = "update" /\ UNCHANGED row
    BY <1>11 DEF WriteUpdate
  <2>2. task[p].id \in SlotIds /\ task[p].patch \in SlotPatches
    BY <1>1, <1>2, <2>1 DEF AdminTasks
  <2>3. CASE slots[task[p].id] = NoRow
    BY <1>9, <1>11, <2>1, <2>3 DEF WriteUpdate
  <2>4. CASE slots[task[p].id] # NoRow
    <3> DEFINE patched == Patched(slots[task[p].id], task[p].patch)
               new == [patched EXCEPT !.semester = task[p].target]
    <3>1. ValidSlot(patched)
      BY <1>1, <1>3, <2>1, <2>4 DEF AdminKnows
    <3>2. patched \in SlotRow
      BY <2>2, <2>4, PatchedSlot DEF TypeInv, DataTyped
    <3>3. slots' = [slots EXCEPT ![task[p].id] = new]
      BY <1>11, <2>4 DEF WriteUpdate
    <3> HIDE DEF patched
    <3>4. ValidSlot(new)
      BY <3>1, <3>2 DEF ValidSlot, SlotRow
    <3> HIDE DEF new
    <3> QED
      BY <1>7, <1>9, <2>1, <2>2, <3>3, <3>4
  <2> QED
    BY <2>3, <2>4
<1>12. CASE WriteRemove(p)
  <2>1. UNCHANGED row /\ (UNCHANGED slots \/ slots' = [slots EXCEPT ![task[p].id] = NoRow])
    BY <1>12 DEF WriteRemove
  <2> QED
    BY <1>7, <1>9, <2>1
<1> QED
  BY <1>8, <1>10, <1>11, <1>12

LEMMA NextKeepsValid ==
  ASSUME OneAdmin, CacheInv, TypeInv, ValidInv, [Next]_vars
  PROVE  ValidInv'
<1>1. Admins \subseteq Procs
  BY WindowsAssumption
<1>2. ASSUME NEW p \in Procs, p \notin Admins,
             \E t : task' = [task EXCEPT ![p] = t] \/ UNCHANGED task,
             UNCHANGED <<row, slots, suspect>>,
             \A q \in Procs \ {p} : fill'[q] = fill[q]
      PROVE  ValidInv'
  <2>1. \A q \in Admins : task'[q] = task[q] /\ fill'[q] = fill[q]
    BY <1>1, <1>2 DEF CacheInv, TasksShaped
  <2> QED
    BY <1>2, <2>1, QuietAdmins
<1>3. ASSUME NEW p \in Procs, NEW student \in Students, Enter(p, student)
      PROVE  ValidInv'
  BY <1>2, <1>3 DEF Enter, readVars
<1>4. ASSUME NEW p \in Procs, GateStep(p)
      PROVE  ValidInv'
  <2>1. p \notin Admins
    BY <1>4 DEF TypeInv, RequestTyped, TasksOf, AdminTasks, NoTask, GateStep, ReadSemester,
       CheckSemester, FindCurrent, FindCurrentSlot, FindNext, FindNextSlot, FindAssigned,
       Leave, Answered
  <2>2. UNCHANGED <<row, slots, suspect>> /\ \E t : Proceed(p, t)
    BY <1>4 DEF GateStep, ReadSemester, CheckSemester, FindCurrent, FindCurrentSlot,
       FindNext, FindNextSlot, FindAssigned, Leave, Decide, Step, Finish
  <2> QED
    BY <1>2, <2>1, <2>2 DEF Proceed, CacheInv, LockInv, CallsShaped
<1>5. ASSUME NEW p \in Procs, ReadCache(p) \/ ReadCacheFails(p)
      PROVE  ValidInv'
  <2>1. /\ UNCHANGED winVars /\ Reads(p)
        /\ \/ Get(p, KeyRead(p)) \/ GetFails(p, KeyRead(p))
           \/ ReadStep(p, db) \/ ReadFault(p)
    BY <1>5 DEF ReadCache, ReadCacheFails
  <2>2. PICK k, d : k = KeyRead(p) /\ d = db
    OBVIOUS
  <2>3. CallsShaped /\ k \in Keys
    BY <2>1, <2>2, KeyReadIsKey DEF CacheInv, LockInv, TypeInv, RequestTyped
  <2>4. Get(p, k) \/ GetFails(p, k) \/ ReadStep(p, d) \/ ReadFault(p)
    BY <2>1, <2>2
  <2>5. \A q \in Procs \ {p} : fill'[q] = fill[q]
    BY <2>3, <2>4, CommandMovesOne
  <2>6. CASE p \notin Admins
    BY <1>2, <2>1, <2>5, <2>6 DEF winVars
  <2>7. CASE p \in Admins
    <3>1. task[p].step = "validate"
      BY <2>1, <2>7 DEF TypeInv, RequestTyped, TasksOf, AdminTasks, NoTask, Reads,
         SettingsSteps, SlotSteps
    <3>2. ASSUME "settings" \notin suspect
          PROVE  Holds(p, "settings", {Settings})'
      <4>1. k = "settings" /\ d[k] = Settings
        BY <2>2, <2>3, <3>1 DEF KeyRead, SettingsSteps, db
      <4>2. PICK s : s = Settings
        OBVIOUS
      <4>3. Holds(p, k, {s})
        BY <2>7, <3>1, <3>2, <4>1, <4>2 DEF ValidInv, AdminKnows
      <4>4. \A q \in Procs : task[q].step # "publish"
        BY <2>7, <3>1, AdminTaskOf DEF OneAdmin
      <4>5. k \notin suspect \cup PendingKeys
        BY <3>2, <4>1, <4>4 DEF PendingKeys, Pending
      <4>6. cache[k] \in {Missing} \cup {s}
        BY <2>2, <2>3, <4>1, <4>2, <4>5 DEF CacheInv, CacheFresh
      <4>7. Holds(p, k, {s})'
        BY <2>3, <2>4, <4>1, <4>2, <4>3, <4>6, CommandHolds
      <4>8. Settings' = s
        BY <2>1, <4>2, SameDatabase DEF winVars
      <4> QED
        BY <4>1, <4>7, <4>8 DEF Holds
    <3>3. AdminKnows(p)'
      BY <2>1, <3>1, <3>2 DEF AdminKnows, winVars
    <3> QED
      BY <1>1, <2>1, <2>5, <3>3, QuietAdmins DEF winVars
  <2> QED
    BY <2>6, <2>7
<1>6. ASSUME NEW p \in Procs, AdminAsks(p)
      PROVE  ValidInv'
  <2>1. PICK t : Ask(p, t) /\ (t.step = "validate" \/ (t.step = "write" /\ t.op = "remove"))
    <3>1. ASSUME NEW patch, Ask(p, [step |-> "validate", op |-> "settings", patch |-> patch])
          PROVE  \E t : Ask(p, t) /\ t.step = "validate"
      BY <3>1
    <3>2. ASSUME NEW input, Ask(p, [step |-> "validate", op |-> "create", input |-> input])
          PROVE  \E t : Ask(p, t) /\ t.step = "validate"
      BY <3>2
    <3>3. ASSUME NEW i, NEW patch,
                 Ask(p, [step |-> "validate", op |-> "update", id |-> i, patch |-> patch])
          PROVE  \E t : Ask(p, t) /\ t.step = "validate"
      BY <3>3
    <3>4. ASSUME NEW i, NEW semester,
                 Ask(p, [step |-> "write", op |-> "remove", id |-> i, semester |-> semester])
          PROVE  \E t : Ask(p, t) /\ t.step = "write" /\ t.op = "remove"
      BY <3>4
    <3> QED
      BY <1>6, <3>1, <3>2, <3>3, <3>4
      DEF AdminAsks, AskSettings, AskCreate, AskUpdate, AskRemove
  <2>2. /\ task'[p] = t /\ \A q \in Procs \ {p} : task'[q] = task[q]
        /\ task[p] = NoTask /\ UNCHANGED <<fill, row, slots, suspect>>
    BY <2>1 DEF Ask, Idle, CacheInv, TasksShaped, readVars
  <2>3. fill'[p] = NoCall
    BY <2>2 DEF TypeInv, RequestTyped, Reads, NoTask, SettingsSteps, SlotSteps
  <2>4. AdminKnows(p)'
    BY <2>1, <2>2, <2>3 DEF AdminKnows, Holds, NoCall
  <2> QED
    BY <1>1, <2>2, <2>4, QuietAdmins
<1>7. ASSUME NEW p \in Procs, PublishCache(p) \/ PublishFails(p)
      PROVE  ValidInv'
  <2>1. /\ task[p].step = "publish" /\ p \in Admins
        /\ UNCHANGED <<fill, row, slots>> /\ suspect \subseteq suspect'
    BY <1>7, AdminTaskOf DEF PublishCache, PublishFails, readVars
  <2>2. \A q \in Procs \ {p} : task'[q] = task[q]
    BY <1>7 DEF PublishCache, PublishFails, PublishRest, CacheInv, TasksShaped
  <2>3. task'[p].step \in {"idle", "publish"}
    <3>1. task'[p] \in {NoTask, [task[p] EXCEPT !.keys = Tail(task[p].keys)]}
      BY <1>7 DEF PublishCache, PublishFails, PublishRest, CacheInv, TasksShaped
    <3>2. "step" \in DOMAIN task[p]
      BY DEF CacheInv, TasksShaped
    <3>3. [task[p] EXCEPT !.keys = Tail(task[p].keys)].step = "publish"
      BY <2>1, <3>2
    <3>4. NoTask.step = "idle"
      BY DEF NoTask
    <3>5. CASE task'[p] = NoTask
      BY <3>4, <3>5
    <3>6. CASE task'[p] = [task[p] EXCEPT !.keys = Tail(task[p].keys)]
      BY <3>3, <3>6
    <3> QED
      BY <3>1, <3>5, <3>6
  <2>4. AdminKnows(p)'
    BY <2>3 DEF AdminKnows
  <2> QED
    BY <1>1, <2>1, <2>2, <2>4, QuietAdmins
<1>8. CASE Tick
  BY <1>8, QuietAdmins DEF Tick, readVars
<1>9. ASSUME NEW k \in Keys, Expire(k)
      PROVE  ValidInv'
  BY <1>9, QuietAdmins DEF Expire, KeyExpires, LockExpires, winVars
<1>10. CASE UNCHANGED vars
  BY <1>10, QuietAdmins DEF vars, winVars, readVars
<1> QED
  BY <1>3, <1>4, <1>5, <1>6, <1>7, <1>8, <1>9, <1>10, ValidateKeepsValid, WriteKeepsValid
  DEF Next, AdminStep

(* One administrator at a time cannot turn a window round: the partial     *)
(* update, validated merged with a cached copy, leaves the registration    *)
(* opening before it closes and every slot in order, whatever the reads of *)
(* other requests, expiries and faults do to the cache, until an           *)
(* invalidation of the settings is lost or overtaken.                      *)
THEOREM WindowsKeepTheirOrder ==
  ASSUME OneAdmin, ValidRange(DefaultSettings),
         \A i \in SlotIds : InitialSlots[i] # NoRow => ValidSlot(InitialSlots[i])
  PROVE  Spec => []WindowsStayValid
<1> DEFINE Inv == CacheInv /\ TypeInv /\ ValidInv
<1>1. Init => Inv
  <2> SUFFICES ASSUME Init PROVE ValidInv
    BY CacheInvInit, TypeInit
  <2>1. WindowsStayValid
    BY DEF Init, WindowsStayValid, Settings
  <2>2. \A p \in Procs : task[p].step = "idle"
    BY DEF Init, NoTask
  <2> QED
    BY <2>1, <2>2, WindowsAssumption DEF ValidInv, AdminKnows
<1>2. Inv /\ [Next]_vars => Inv'
  BY NextKeepsCache, NextTyped, NextKeepsValid
<1>3. Inv => WindowsStayValid
  BY DEF ValidInv
<1> QED
  BY <1>1, <1>2, <1>3, PTL DEF Spec
=============================================================================
