------------------------ MODULE RegistrationWindows ------------------------
(***************************************************************************)
(* When students may register: SettingsService and RegistrationSlots-      *)
(* Service with their caches, the administrators who change them, and the  *)
(* gate every login and every authenticated request of a student passes    *)
(* (assertStudentCanRegister, called by AuthService.login and by           *)
(* JwtStrategy.validate).                                                  *)
(*                                                                         *)
(* A process of Procs is one call: an administrator's request or a         *)
(* student's.  It runs from one await to the next.                         *)
(***************************************************************************)
EXTENDS ReadThrough, SlotWindows

CONSTANTS
  Admins,           \* the calls of administrators; the others are students'
  Students,         \* student codes, numbers
  Semesters,        \* the semesters, each the key of its slot list
  SlotIds,          \* primary keys of registration slots
  DefaultSettings,  \* DEFAULT_SETTINGS
  SettingsPatches,  \* the partial updates administrators send
  SlotInputs,       \* the slots they create
  SlotPatches,      \* the partial updates of slots they send
  InitialSlots,     \* the slots in the database at the start
  Times,            \* the instants the clock shows
  NoRow,            \* no database row
  MaxWrites,        \* bound: requests of administrators
  MaxErrors         \* bound: commands that Redis, or loads the database, fails

ASSUME WindowsAssumption ==
  /\ Keys = {"settings"} \cup Semesters /\ "settings" \notin Semesters
  /\ LenientKeys = {"settings"}
  /\ Admins \subseteq Procs
  /\ Times \subseteq Instant
  /\ DOMAIN InitialSlots = SlotIds

(* The rows, and the fields of them that an update may bring. *)
SettingsRow == [semester : Semesters, open : Instant, close : Instant]
SlotRow ==
  [semester : Semesters, from : Nat, to : Nat, startDate : Nat, endDate : Nat,
   startTime : Nat, endTime : Nat]
IsSettingsPatch(patch) ==
  /\ "semester" \in DOMAIN patch => patch.semester \in Semesters
  /\ \A f \in {"open", "close"} \cap DOMAIN patch : patch[f] \in Instant
IsSlotPatch(patch) ==
  /\ "semester" \in DOMAIN patch => patch.semester \in Semesters
  /\ \A f \in DOMAIN patch \ {"semester"} : patch[f] \in Nat

ASSUME WindowsDataAssumption ==
  /\ Students \subseteq Nat
  /\ DefaultSettings \in SettingsRow /\ NoRow \notin SettingsRow
  /\ \A patch \in SettingsPatches : IsSettingsPatch(patch)
  /\ SlotInputs \subseteq SlotRow
  /\ \A patch \in SlotPatches : IsSlotPatch(patch)
  /\ \A i \in SlotIds : InitialSlots[i] # NoRow => InitialSlots[i] \in SlotRow

VARIABLES
  row,        \* the system_settings row, or NoRow
  slots,      \* slots[i]: the registration_slots row i, or NoRow
  now,        \* the clock
  task,       \* task[p]: the request p serves and where it stands
  suspect,    \* keys whose cache may be stale: a fill or a SET was overtaken
              \* by a commit, an invalidation was lost, or a slot had left
              \* the list that its update clears
  disturbed,  \* students' calls during which such a key or a commit was seen
  writes, errors

winVars == <<row, slots, now, task, suspect, disturbed>>
counts  == <<writes, errors>>
vars    == <<readVars, winVars, counts>>

NoTask == [step |-> "idle"]

(* loadSettingsFromDb, loadSlotsFromDb: what a load returns for each key.  *)
Settings == IF row = NoRow THEN DefaultSettings ELSE row
SlotsOf(semester) ==
  {slots[i] : i \in {j \in SlotIds : slots[j] # NoRow /\ slots[j].semester = semester}}
db == [k \in Keys |-> IF k = "settings" THEN Settings ELSE SlotsOf(k)]

(* { ...current, ...patch } *)
Patched(current, patch) ==
  [f \in DOMAIN current |-> IF f \in DOMAIN patch THEN patch[f] ELSE current[f]]

(* p goes on after an await: its call to the cache, if any, is consumed. *)
Proceed(p, t) ==
  /\ task' = [task EXCEPT ![p] = t]
  /\ fill' = [fill EXCEPT ![p] = NoCall]
  /\ UNCHANGED <<cache, lock, expired>>

Finish(p) == Proceed(p, NoTask)

(* The answer of the cache to p's read in this step of its request. *)
Answered(p, step) == task[p].step = step /\ fill[p].at = "answered"

(***************************************************************************)
(* Reads: each step of a request that reads through the cache.             *)
(***************************************************************************)
SettingsSteps == {"semester", "check", "current", "next", "validate"}
SlotSteps     == {"current_slots", "next_slots", "assigned"}

KeyRead(p) == IF task[p].step \in SettingsSteps THEN "settings" ELSE task[p].semester

Reads(p) == task[p].step \in SettingsSteps \cup SlotSteps

ReadCache(p) ==
  /\ Reads(p)
  /\ Get(p, KeyRead(p)) \/ ReadStep(p, db)
  /\ UNCHANGED <<winVars, counts>>

ReadCacheFails(p) ==
  /\ Reads(p)
  /\ errors < MaxErrors
  /\ errors' = errors + 1
  /\ GetFails(p, KeyRead(p)) \/ ReadFault(p)
  /\ UNCHANGED <<winVars, writes>>

(***************************************************************************)
(* The gate.                                                               *)
(***************************************************************************)
Pending(k) ==
  \E p \in Procs : task[p].step = "publish" /\ k \in {task[p].keys[i] : i \in DOMAIN task[p].keys}

(* A student logs in or sends a request. *)
Enter(p, student) ==
  /\ p \notin Admins
  /\ task[p] = NoTask
  /\ task' = [task EXCEPT ![p] = [step |-> "semester", student |-> student]]
  /\ disturbed' = IF suspect # {} \/ \E k \in Keys : Pending(k)
                  THEN disturbed \cup {p} ELSE disturbed \ {p}
  /\ UNCHANGED <<readVars, row, slots, now, suspect, counts>>

Decide(p, outcome) ==
  Proceed(p, [step |-> "answered", student |-> task[p].student,
              at |-> task[p].at, outcome |-> outcome])

(* const { currentSemester } = await settingsService.getAll(), then the    *)
(* clock is read for the rest of the request.                              *)
ReadSemester(p) ==
  /\ Answered(p, "semester")
  /\ Proceed(p, [step |-> "check", student |-> task[p].student, at |-> now,
                 semester |-> fill[p].value.semester])
  /\ UNCHANGED <<row, slots, now, suspect, disturbed, counts>>

(* assertCurrentSemester; the settings are kept for the last answer. *)
CheckSemester(p) ==
  /\ Answered(p, "check")
  /\ IF fill[p].value.semester # task[p].semester
     THEN Decide(p, "other_semester")
     ELSE Proceed(p, [step |-> "current", student |-> task[p].student,
                      at |-> task[p].at, semester |-> task[p].semester,
                      status |-> WindowStatus(fill[p].value, task[p].at)])
  /\ UNCHANGED <<row, slots, now, suspect, disturbed, counts>>

Step(p, step) == Proceed(p, [task[p] EXCEPT !.step = step])

\* Mutant: the slots are looked up whatever the registration window says.
FindCurrentAlways(p) ==
  /\ Answered(p, "current")
  /\ Step(p, "current_slots")
  /\ UNCHANGED <<row, slots, now, suspect, disturbed, counts>>

(* findCurrentForStudent up to its slots *)
FindCurrent(p) ==
  /\ Answered(p, "current")
  /\ IF /\ fill[p].value.semester = task[p].semester
        /\ WindowStatus(fill[p].value, task[p].at) = "RUNNING"
     THEN Step(p, "current_slots")
     ELSE Step(p, "next")
  /\ UNCHANGED <<row, slots, now, suspect, disturbed, counts>>

FindCurrentSlot(p) ==
  /\ Answered(p, "current_slots")
  /\ IF CurrentSlots(fill[p].value, task[p].student, task[p].at) # {}
     THEN Decide(p, "admitted")
     ELSE Step(p, "next")
  /\ UNCHANGED <<row, slots, now, suspect, disturbed, counts>>

(* findNextForStudent *)
FindNext(p) ==
  /\ Answered(p, "next")
  /\ IF /\ fill[p].value.semester = task[p].semester
        /\ WindowStatus(fill[p].value, task[p].at) # "CLOSED"
     THEN Step(p, "next_slots")
     ELSE Step(p, "assigned")
  /\ UNCHANGED <<row, slots, now, suspect, disturbed, counts>>

FindNextSlot(p) ==
  /\ Answered(p, "next_slots")
  /\ IF NextSlots(fill[p].value, task[p].student, task[p].at) # {}
     THEN Decide(p, "wait")
     ELSE Step(p, "assigned")
  /\ UNCHANGED <<row, slots, now, suspect, disturbed, counts>>

(* findAssignedSlot, and the window's status of the second read. *)
FindAssigned(p) ==
  /\ Answered(p, "assigned")
  /\ Decide(p, IF AssignedSlots(fill[p].value, task[p].student) = {} THEN "not_assigned"
               ELSE IF task[p].status = "UPCOMING" THEN "wait" ELSE "over")
  /\ UNCHANGED <<row, slots, now, suspect, disturbed, counts>>

Leave(p) ==
  /\ task[p].step = "answered"
  /\ Finish(p)
  /\ UNCHANGED <<row, slots, now, suspect, disturbed, counts>>

GateStep(p) ==
  \/ ReadSemester(p) \/ CheckSemester(p) \/ FindCurrent(p) \/ FindCurrentSlot(p)
  \/ FindNext(p) \/ FindNextSlot(p) \/ FindAssigned(p) \/ Leave(p)

(***************************************************************************)
(* Administrators.                                                         *)
(***************************************************************************)
Idle(p) == p \in Admins /\ task[p] = NoTask /\ writes < MaxWrites

Ask(p, request) ==
  /\ Idle(p)
  /\ writes' = writes + 1
  /\ task' = [task EXCEPT ![p] = request]
  /\ UNCHANGED <<readVars, row, slots, now, suspect, disturbed, errors>>

(* PATCH settings, POST slot, PATCH slot: each begins with getAll(). *)
AskSettings(p) ==
  \E patch \in SettingsPatches :
    Ask(p, [step |-> "validate", op |-> "settings", patch |-> patch])
AskCreate(p) ==
  \E input \in SlotInputs :
    /\ \E i \in SlotIds : slots[i] = NoRow   \* bound: primary keys
    /\ Ask(p, [step |-> "validate", op |-> "create", input |-> input])
AskUpdate(p) ==
  \E i \in SlotIds, patch \in SlotPatches :
    Ask(p, [step |-> "validate", op |-> "update", id |-> i, patch |-> patch])
(* DELETE slot: findOne refuses an unknown id. *)
AskRemove(p) ==
  \E i \in SlotIds :
    /\ slots[i] # NoRow
    /\ Ask(p, [step |-> "write", op |-> "remove", id |-> i,
               semester |-> slots[i].semester])

(* assertValidRegistrationRange on the settings the cache answered *)
ValidRange(settings) == Before(settings.open, settings.close)

\* Mutant: the settings as they are get validated, not the merged ones.
ValidateSettingsUnmerged(p) ==
  /\ Answered(p, "validate") /\ task[p].op = "settings"
  /\ ValidRange(fill[p].value)
  /\ Proceed(p, [step |-> "write", op |-> "settings", patch |-> task[p].patch,
                 next |-> Patched(fill[p].value, task[p].patch)])
  /\ UNCHANGED <<row, slots, now, suspect, disturbed, counts>>

ValidateSettings(p) ==
  /\ Answered(p, "validate") /\ task[p].op = "settings"
  /\ LET next == Patched(fill[p].value, task[p].patch)
     IN  IF ValidRange(next)
         THEN Proceed(p, [step |-> "write", op |-> "settings",
                          patch |-> task[p].patch, next |-> next])
         ELSE Finish(p)
  /\ UNCHANGED <<row, slots, now, suspect, disturbed, counts>>

AcceptedSlot(slot, settings) ==
  /\ slot.semester = settings.semester
  /\ ValidSlot(slot)
  /\ WithinRegistration(slot, settings)

ValidateCreate(p) ==
  /\ Answered(p, "validate") /\ task[p].op = "create"
  /\ IF AcceptedSlot(task[p].input, fill[p].value)
     THEN Proceed(p, [task[p] EXCEPT !.step = "write"])
     ELSE Finish(p)
  /\ UNCHANGED <<row, slots, now, suspect, disturbed, counts>>

(* findOne, then the checks on the row it read with the patch applied.     *)
(* The semester is written whether the patch has one or not.               *)
ValidateUpdate(p) ==
  /\ Answered(p, "validate") /\ task[p].op = "update"
  /\ LET current == slots[task[p].id]
         next    == Patched(current, task[p].patch)
     IN  IF current # NoRow /\ AcceptedSlot(next, fill[p].value)
         THEN Proceed(p, [step |-> "write", op |-> "update", id |-> task[p].id,
                          patch |-> task[p].patch, semester |-> current.semester,
                          target |-> next.semester])
         ELSE Finish(p)
  /\ UNCHANGED <<row, slots, now, suspect, disturbed, counts>>

(* A commit that changes what `keys' cache and whose request will refresh  *)
(* `cleared'.  A fill that has loaded and not yet stored one of them, or a *)
(* settings row on its way to the cache, is overtaken; a list the slot was *)
(* moved into since the request read it stays as it is cached; the calls   *)
(* of students are disturbed.                                              *)
Commits(keys, cleared) ==
  /\ suspect' = suspect
       \cup {k \in keys : \E q \in Procs : Storing(q, k)}
       \cup {k \in keys \cap {"settings"} : Pending(k)}
       \cup (keys \ cleared)
  /\ disturbed' = disturbed \cup (Procs \ Admins)

Publish(p, op, keys, value) ==
  task' = [task EXCEPT ![p] = [step |-> "publish", op |-> op, keys |-> keys,
                               value |-> value]]

(* upsert: the row in the database gets the patched columns only *)
WriteSettings(p) ==
  /\ task[p].step = "write" /\ task[p].op = "settings"
  /\ row' = IF row = NoRow THEN task[p].next ELSE Patched(row, task[p].patch)
  /\ Commits({"settings"}, {"settings"})
  /\ Publish(p, "settings", <<"settings">>, Settings')
  /\ UNCHANGED <<readVars, slots, now, counts>>

\* Mutant: a new slot does not clear its semester's list.
WriteCreateKeepsCache(p) ==
  /\ task[p].step = "write" /\ task[p].op = "create"
  /\ \E i \in SlotIds :
       /\ slots[i] = NoRow
       /\ slots' = [slots EXCEPT ![i] = task[p].input]
  /\ Commits({task[p].input.semester}, {task[p].input.semester})
  /\ Finish(p)
  /\ UNCHANGED <<row, now, counts>>

WriteCreate(p) ==
  /\ task[p].step = "write" /\ task[p].op = "create"
  /\ \E i \in SlotIds :
       /\ slots[i] = NoRow
       /\ slots' = [slots EXCEPT ![i] = task[p].input]
  /\ Commits({task[p].input.semester}, {task[p].input.semester})
  /\ Publish(p, "slot", <<task[p].input.semester>>, Missing)
  /\ UNCHANGED <<readVars, row, now, counts>>

(* Both semesters' lists are cleared when the slot moves.  An unknown id   *)
(* is Prisma's P2025: the request fails.                                   *)
WriteUpdate(p) ==
  /\ task[p].step = "write" /\ task[p].op = "update"
  /\ IF slots[task[p].id] = NoRow
     THEN Finish(p) /\ UNCHANGED <<slots, suspect, disturbed>>
     ELSE LET old == slots[task[p].id]
              new == [Patched(old, task[p].patch) EXCEPT !.semester = task[p].target]
          IN  /\ slots' = [slots EXCEPT ![task[p].id] = new]
              /\ Commits({old.semester, new.semester}, {task[p].semester, new.semester})
              /\ Publish(p, "slot",
                         IF new.semester = task[p].semester THEN <<new.semester>>
                         ELSE <<task[p].semester, new.semester>>, Missing)
              /\ UNCHANGED readVars
  /\ UNCHANGED <<row, now, counts>>

WriteRemove(p) ==
  /\ task[p].step = "write" /\ task[p].op = "remove"
  /\ IF slots[task[p].id] = NoRow
     THEN Finish(p) /\ UNCHANGED <<slots, suspect, disturbed>>
     ELSE /\ slots' = [slots EXCEPT ![task[p].id] = NoRow]
          /\ Commits({slots[task[p].id].semester}, {task[p].semester})
          /\ Publish(p, "slot", <<task[p].semester>>, Missing)
          /\ UNCHANGED readVars
  /\ UNCHANGED <<row, now, counts>>

PublishRest(p) ==
  LET keys == task[p].keys
  IN  task' = [task EXCEPT ![p] = IF Len(keys) = 1 THEN NoTask
                                  ELSE [task[p] EXCEPT !.keys = Tail(keys)]]

(* writeSettingsCache SETs the row, clearRegistrationSlotsCache DELs. *)
PublishCache(p) ==
  /\ task[p].step = "publish"
  /\ cache' = [cache EXCEPT ![Head(task[p].keys)] = task[p].value]
  /\ PublishRest(p)
  /\ UNCHANGED <<lock, fill, expired, row, slots, now, suspect, disturbed, counts>>

(* Both swallow the error. *)
PublishFails(p) ==
  /\ task[p].step = "publish"
  /\ errors < MaxErrors
  /\ errors' = errors + 1
  /\ suspect' = suspect \cup {Head(task[p].keys)}
  /\ PublishRest(p)
  /\ UNCHANGED <<readVars, row, slots, now, disturbed, writes>>

AdminAsks(p) == AskSettings(p) \/ AskCreate(p) \/ AskUpdate(p) \/ AskRemove(p)

AdminStep(p) ==
  \/ ValidateSettings(p) \/ ValidateCreate(p) \/ ValidateUpdate(p)
  \/ WriteSettings(p) \/ WriteCreate(p) \/ WriteUpdate(p) \/ WriteRemove(p)
  \/ PublishCache(p)

----------------------------------------------------------------------------
Tick ==
  /\ now' \in Times
  /\ Before(now, now')
  /\ UNCHANGED <<readVars, row, slots, task, suspect, disturbed, counts>>

Expire(k) == (KeyExpires(k) \/ LockExpires(k)) /\ UNCHANGED <<winVars, counts>>

Init ==
  /\ ReadInit
  /\ row = NoRow
  /\ slots = InitialSlots
  /\ now \in Times /\ \A t \in Times : NotAfter(now, t)
  /\ task = [p \in Procs |-> NoTask]
  /\ suspect = {} /\ disturbed = {}
  /\ writes = 0 /\ errors = 0

Next ==
  \/ \E p \in Procs :
       \/ \E student \in Students : Enter(p, student)
       \/ ReadCache(p) \/ ReadCacheFails(p) \/ GateStep(p)
       \/ AdminAsks(p) \/ AdminStep(p) \/ PublishFails(p)
  \/ Tick
  \/ \E k \in Keys : Expire(k)

Spec == Init /\ [][Next]_vars

(***************************************************************************)
(* A request goes on: its awaits return, a waiting call finds the value or *)
(* reaches its deadline, and cached values expire.  Who asks, faults and   *)
(* the expiry of locks have no fairness.                                   *)
(***************************************************************************)
Fairness ==
  /\ \A p \in Procs : WF_vars(ReadCache(p) \/ GateStep(p) \/ AdminStep(p))
  /\ \A k \in Keys : WF_vars(KeyExpires(k) /\ UNCHANGED <<winVars, counts>>)

FairSpec == Spec /\ Fairness

----------------------------------------------------------------------------
(* The caches of settings and slots are exact, however fills, expiries and *)
(* updates interleave, between an update's commit and its SET or DEL and   *)
(* after the accidents `suspect' records: a fill that a commit overtook, an *)
(* invalidation Redis refused, a slot that two requests moved at once.     *)
CachedIsCurrent ==
  \A k \in Keys :
    k \notin suspect /\ ~ Pending(k) => cache[k] \in {Missing, db[k]}

(* A student may register at t: inside the window, with an open slot. *)
MayRegister(student, t) ==
  /\ WindowStatus(Settings, t) = "RUNNING"
  /\ \E s \in SlotsOf(Settings.semester) : CoversStudent(s, student) /\ ActiveAt(s, t)

(* The gate takes up to eight reads of two caches.  When nothing was       *)
(* changed under it, it admits a student exactly inside the window, and    *)
(* whom it turns away for good cannot come in later.                       *)
GateFollowsDatabase ==
  \A p \in Procs \ (Admins \cup disturbed) :
    task[p].step = "answered" =>
      /\ task[p].outcome = "admitted" <=> MayRegister(task[p].student, task[p].at)
      /\ task[p].outcome \in {"over", "not_assigned"} =>
           \A t \in Times : NotAfter(task[p].at, t) => ~ MayRegister(task[p].student, t)
      /\ task[p].outcome # "other_semester"

(* A partial update is validated merged with a cached copy, and the write  *)
(* patches the row: a single request keeps the window opening before it    *)
(* closes and every slot in order, unless the cache it was validated       *)
(* against is suspect.  (Two updates, the second validated against the     *)
(* cache the first has not refreshed yet, can invert the window.)          *)
WindowsStayValid ==
  /\ "settings" \notin suspect => ValidRange(Settings)
  /\ \A i \in SlotIds : slots[i] # NoRow => ValidSlot(slots[i])

(* Stale entries do not last: when updates stop, every cache ends up, and  *)
(* stays, at the database's value.                                         *)
CachesConverge == \A k \in Keys : <>[](cache[k] \in {Missing, db[k]})

(* No call waits for ever, whoever holds the lock and even if its holder   *)
(* died: every request is answered.                                        *)
CallsAnswered ==
  \A p \in Procs : task[p].step # "idle" ~> task[p].step \in {"idle", "answered"}
=============================================================================
