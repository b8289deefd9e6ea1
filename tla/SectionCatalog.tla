--------------------------- MODULE SectionCatalog ---------------------------
(***************************************************************************)
(* Courses and class sections: ClassSectionsService and CoursesService,    *)
(* their caches, the administrators who edit them and the visitors who     *)
(* read them while registrations move the seat counts.                     *)
(*                                                                         *)
(* Redis holds a lookup per section code, one section listing, the course  *)
(* cache (listings and single courses are cleared together: one key        *)
(* stands for them) and the slot counter of each section.  A process runs  *)
(* from one await to the next.                                             *)
(***************************************************************************)
EXTENDS ReadThrough

CONSTANTS
  Admins,         \* calls of administrators; the others are visitors
  Codes,          \* section codes of the semester, keys of the lookups
  Sections,       \* primary keys of class_sections
  Courses,        \* primary keys of courses
  Visits,         \* what visitors ask for: "lookup", "listing", "courses"
  SectionInputs,  \* the sections administrators create
  SectionPatches, \* the partial updates they send
  Imports,        \* sets of rows of validated import files
  InitialSections, InitialCourses,
  Null,           \* an empty column
  NoRow,          \* no database row
  Reconciling,    \* whether the scheduler's reconcile job runs
  MaxWrites,      \* bound: requests of administrators
  MaxSeats,       \* bound: reservations
  MaxErrors       \* bound: commands that Redis, or loads the database, fails

ASSUME CatalogAssumption ==
  /\ Keys = Codes \cup {"courses"} /\ {"courses", "list"} \cap Codes = {}
  /\ LenientKeys = {}
  /\ Admins \subseteq Procs

(* A row of class_sections as far as it is modelled, and the partial row   *)
(* that an update sends.  An import checks neither capacity nor count for  *)
(* its sign.                                                               *)
SectionRow ==
  [code : Codes, course : Courses, cap : Int, count : Int,
   day : Int \cup {Null}, from : Int \cup {Null}, to : Int \cup {Null},
   time : STRING \cup {Null}]

IsPatch(patch) ==
  /\ DOMAIN patch \subseteq {"code", "course", "cap", "count",
                             "day", "from", "to", "time"}
  /\ "code" \in DOMAIN patch => patch.code \in Codes
  /\ "course" \in DOMAIN patch => patch.course \in Courses
  /\ \A f \in DOMAIN patch \cap {"cap", "count"} : patch[f] \in Int
  /\ \A f \in DOMAIN patch \cap {"day", "from", "to"} : patch[f] \in Int \cup {Null}
  /\ "time" \in DOMAIN patch => patch.time \in STRING \cup {Null}

(* What comes from outside: the database the semester starts with, where a *)
(* foreign key keeps the course of every section, and validated requests.  *)
ASSUME DataAssumption ==
  /\ NoRow \notin SectionRow /\ NoRow \notin Nat
  /\ InitialSections \in [Sections -> SectionRow \cup {NoRow}]
  /\ InitialCourses \in [Courses -> Nat \cup {NoRow}]
  /\ \A i \in Sections : InitialSections[i] # NoRow
                           => InitialCourses[InitialSections[i].course] # NoRow
  /\ SectionInputs \subseteq SectionRow
  /\ \A rows \in Imports : rows \subseteq SectionRow
  /\ \A patch \in SectionPatches : IsPatch(patch)

VARIABLES
  sections,   \* sections[i]: the class_sections row i, or NoRow
  courses,    \* courses[c]: version of the course's data, or NoRow
  referenced, \* sections that batch items refer to
  reserved,   \* reserved[i]: seats taken from the counter, not yet settled
  counter,    \* counter[i]: reg:section:slots, or Missing
  list,       \* the cached section listing, or Missing
  recon,      \* where reconcile stands and the counters it has in hand
  task,       \* task[p]: the request p serves and where it stands
  suspect,    \* keys, or "list", that a commit overtook or whose
              \* invalidation was lost
  writes, seats, errors

dbVars     == <<sections, courses, referenced>>
redisVars  == <<counter, list>>
counts     == <<writes, seats, errors>>
vars == <<readVars, dbVars, redisVars, reserved, recon, task, suspect, counts>>

NoTask == [step |-> "idle"]
Idle == [at |-> "idle", slots |-> << >>]

Max0(n) == IF n > 0 THEN n ELSE 0
FreeSeats(s) == Max0(s.cap - s.count)

Existing == {i \in Sections : sections[i] # NoRow}

(* A row as a query with include: { course: true } returns it. *)
WithCourse(i) == [id |-> i, row |-> sections[i], course |-> courses[sections[i].course]]
Lookup(code) == {WithCourse(i) : i \in {j \in Existing : sections[j].code = code}}
Listing == {WithCourse(i) : i \in Existing}
CourseRows == {<<c, courses[c]>> : c \in {d \in Courses : courses[d] # NoRow}}

db == [k \in Keys |-> IF k = "courses" THEN CourseRows ELSE Lookup(k)]

Goes(p, t) == task' = [task EXCEPT ![p] = t]

(* writeSectionSlotsCache: one pipeline of SETs with the free seats of the *)
(* rows at hand.                                                           *)
SlotsOf(items) ==
  [i \in Sections |-> IF \E x \in items : x.id = i
                      THEN FreeSeats((CHOOSE x \in items : x.id = i).row)
                      ELSE counter[i]]

----------------------------------------------------------------------------
(* Visitors.                                                               *)

Visitor(p) == p \notin Admins /\ task[p] = NoTask

AskLookup(p) ==
  \E code \in Codes :
    Goes(p, [step |-> "lookup", key |-> code, items |-> {}])
AskCourses(p) == Goes(p, [step |-> "courses", key |-> "courses", items |-> {}])
AskListing(p) == Goes(p, [step |-> "list_get"])

Visit(p) ==
  /\ Visitor(p)
  /\ \/ "lookup" \in Visits /\ AskLookup(p)
     \/ "courses" \in Visits /\ AskCourses(p)
     \/ "listing" \in Visits /\ AskListing(p)
  /\ UNCHANGED <<readVars, dbVars, redisVars, reserved, recon, suspect, counts>>

(* findBySectionCode writes the slot counters inside loadFromDb: after the *)
(* query and before the lookup is SET or answered.                         *)
Loaded(p) == task[p].step = "lookup" /\ task[p].items # {}
LoadedItems(p, items) ==
  IF task[p].step = "lookup" THEN Goes(p, [task[p] EXCEPT !.items = items])
  ELSE UNCHANGED task

Reading(p) == task[p].step \in {"lookup", "courses"} /\ ~ Loaded(p)

ReadLoads(p) ==
  /\ Reading(p)
  /\ Load(p, db) \/ LoadDirect(p, db)
  /\ LoadedItems(p, db[task[p].key])
  /\ UNCHANGED <<dbVars, redisVars, reserved, recon, suspect, counts>>

WriteLoadedSlots(p) ==
  /\ Loaded(p)
  /\ counter' = SlotsOf(task[p].items)
  /\ Goes(p, [task[p] EXCEPT !.items = {}])
  /\ UNCHANGED <<readVars, dbVars, list, reserved, recon, suspect, counts>>

ReadCache(p) ==
  /\ Reading(p)
  /\ \/ fill[p].at = "idle" /\ Get(p, task[p].key)
     \/ TryLock(p) \/ Store(p) \/ Release(p) \/ Poll(p) \/ GiveUp(p)
  /\ UNCHANGED <<dbVars, redisVars, reserved, recon, task, suspect, counts>>

ReadCacheFails(p) ==
  /\ Reading(p)
  /\ errors < MaxErrors
  /\ errors' = errors + 1
  /\ GetFails(p, task[p].key) \/ ReadFault(p)
  /\ UNCHANGED <<dbVars, redisVars, reserved, recon, task, suspect, writes, seats>>

(* withCurrentRegisteredCounts only reads; the response goes out. *)
Respond(p) ==
  /\ Reading(p)
  /\ fill[p].at = "answered"
  /\ fill' = [fill EXCEPT ![p] = NoCall]
  /\ Goes(p, NoTask)
  /\ UNCHANGED <<cache, lock, expired, dbVars, redisVars, reserved, recon, suspect, counts>>

(* readSectionListCache: no lock, and Redis errors count as a miss. *)
ListGet(p) ==
  /\ task[p].step = "list_get"
  /\ Goes(p, IF list # Missing THEN [step |-> "list_slots", items |-> list]
             ELSE [step |-> "list_load"])
  /\ UNCHANGED <<readVars, dbVars, redisVars, reserved, recon, suspect, counts>>

ListLoad(p) ==
  /\ task[p].step = "list_load"
  /\ Goes(p, [step |-> "list_store", items |-> Listing])
  /\ UNCHANGED <<readVars, dbVars, redisVars, reserved, recon, suspect, counts>>

ListStore(p) ==
  /\ task[p].step = "list_store"
  /\ list' = task[p].items
  /\ Goes(p, [task[p] EXCEPT !.step = "list_slots"])
  /\ UNCHANGED <<readVars, dbVars, counter, reserved, recon, suspect, counts>>

(* The counters are SET from the response, cached or not. *)
ListSlots(p) ==
  /\ task[p].step = "list_slots"
  /\ counter' = SlotsOf(task[p].items)
  /\ Goes(p, NoTask)
  /\ UNCHANGED <<readVars, dbVars, list, reserved, recon, suspect, counts>>

ListFails(p) ==
  /\ errors < MaxErrors
  /\ errors' = errors + 1
  /\ \/ task[p].step = "list_get" /\ Goes(p, [step |-> "list_load"])
     \/ task[p].step = "list_store" /\ Goes(p, [task[p] EXCEPT !.step = "list_slots"])
     \/ task[p].step = "list_slots" /\ Goes(p, NoTask)
     \/ Loaded(p) /\ Goes(p, [task[p] EXCEPT !.items = {}])
  /\ UNCHANGED <<readVars, dbVars, redisVars, reserved, recon, suspect, writes, seats>>

----------------------------------------------------------------------------
(* Administrators.                                                         *)

Ask(p, request) ==
  /\ p \in Admins /\ task[p] = NoTask
  /\ writes < MaxWrites
  /\ request.step = "insert" => Existing # Sections   \* bound: primary keys
  /\ writes' = writes + 1
  /\ Goes(p, request)
  /\ UNCHANGED <<readVars, dbVars, redisVars, reserved, recon, suspect, seats, errors>>

Patched(row, patch) ==
  [f \in DOMAIN row |-> IF f \in DOMAIN patch THEN patch[f] ELSE row[f]]

(* "Schedule fields must be fully provided or fully empty", and in order. *)
ValidSchedule(row) ==
  /\ Null \notin {row.from, row.to} => row.from <= row.to
  /\ (row.day = Null) = (row.from = Null)
  /\ (row.from = Null) = (row.to = Null)
  /\ (row.to = Null) = (row.time = Null)

(* @@unique([sectionCode, timeRange, dayOfWeek]); NULLs never collide.     *)
SameSlot(a, b) ==
  a.code = b.code /\ a.time = b.time /\ a.day = b.day /\ Null \notin {a.time, a.day}
Collides(i, row) == \E j \in Existing \ {i} : SameSlot(sections[j], row)

(* A statement that changes what `keys' and the listing are computed from. *)
Overtakes(keys, relist) ==
  suspect' = suspect
    \cup {k \in keys : \E p \in Procs : Storing(p, k)}
    \cup {k \in {"list"} : relist /\ \E p \in Procs : task[p].step = "list_store"}

(* create: the course must exist, the schedule be valid ... *)
AskCreate(p) ==
  \E row \in SectionInputs :
    /\ courses[row.course] # NoRow
    /\ ValidSchedule(row)
    /\ Ask(p, [step |-> "insert", rows |-> {row}, skip |-> FALSE])

(* ... an import: every row is valid, its courses exist, and rows with the *)
(* schedule key of an earlier one were dropped.                            *)
AskImport(p) ==
  \E rows \in Imports :
    /\ \A row \in rows : ValidSchedule(row) /\ courses[row.course] # NoRow
    /\ Ask(p, [step |-> "insert", rows |-> rows, skip |-> TRUE])

\* Mutant: an update checks the row as it is, without the patch.
AskUpdateUnmerged(p) ==
  \E i \in Existing, patch \in SectionPatches :
    /\ ValidSchedule(sections[i])
    /\ Ask(p, [step |-> "update", id |-> i, patch |-> patch, code |-> sections[i].code])

(* update: findUnique, the checks on the row read with the patch applied. *)
AskUpdate(p) ==
  \E i \in Existing, patch \in SectionPatches :
    /\ "course" \in DOMAIN patch => courses[patch.course] # NoRow
    /\ ValidSchedule(Patched(sections[i], patch))
    /\ Ask(p, [step |-> "update", id |-> i, patch |-> patch, code |-> sections[i].code])

AskRemove(p) ==
  \E i \in Existing :
    Ask(p, [step |-> "remove", id |-> i, code |-> sections[i].code])

(* createMany with skipDuplicates inserts the rows that collide with none; *)
(* a course deleted meanwhile fails the whole statement, as a collision    *)
(* does that of a single create.                                           *)
Insert(p) ==
  /\ task[p].step = "insert"
  /\ LET rows == {r \in task[p].rows : ~ Collides(NoRow, r)}
         refused == \/ \E r \in task[p].rows : courses[r.course] = NoRow
                    \/ ~ task[p].skip /\ rows # task[p].rows
     IN  \/ refused /\ Goes(p, NoTask) /\ UNCHANGED <<sections, suspect>>
         \/ /\ ~ refused
            /\ \E place \in [rows -> Sections \ Existing] :
                 /\ \A r, s \in rows : place[r] = place[s] => r = s
                 /\ sections' = [i \in Sections |->
                      IF \E r \in rows : place[r] = i
                      THEN CHOOSE r \in rows : place[r] = i ELSE sections[i]]
                 /\ Goes(p, [step |-> "forget",
                             codes |-> {r.code : r \in task[p].rows},
                             ids |-> IF task[p].skip THEN {}
                                     ELSE {place[r] : r \in rows}])
            /\ Overtakes({r.code : r \in rows}, TRUE)
  /\ UNCHANGED <<readVars, courses, referenced, redisVars, reserved, recon, counts>>

\* Mutant: only the lookup of the section's new code is forgotten.
UpdateForgetsNew(p) ==
  /\ task[p].step = "update"
  /\ LET old == sections[task[p].id]
         new == Patched(old, task[p].patch)
     IN  /\ old # NoRow /\ ~ Collides(task[p].id, new)
         /\ sections' = [sections EXCEPT ![task[p].id] = new]
         /\ Overtakes({old.code, new.code}, TRUE)
         /\ Goes(p, [step |-> "forget", codes |-> {new.code}, ids |-> {task[p].id}])
  /\ UNCHANGED <<readVars, courses, referenced, redisVars, reserved, recon, counts>>

Update(p) ==
  /\ task[p].step = "update"
  /\ LET old == sections[task[p].id]
         new == Patched(old, task[p].patch)
     IN  IF old = NoRow \/ Collides(task[p].id, new) \/ courses[new.course] = NoRow
         THEN Goes(p, NoTask) /\ UNCHANGED <<sections, suspect>>
         ELSE /\ sections' = [sections EXCEPT ![task[p].id] = new]
              /\ Overtakes({old.code, new.code}, TRUE)
              /\ Goes(p, [step |-> "forget", codes |-> {task[p].code, new.code},
                          ids |-> {task[p].id}])
  /\ UNCHANGED <<readVars, courses, referenced, redisVars, reserved, recon, counts>>

(* A section that registrations refer to is kept (P2003). *)
Remove(p) ==
  /\ task[p].step = "remove"
  /\ IF sections[task[p].id] = NoRow \/ task[p].id \in referenced
     THEN Goes(p, NoTask) /\ UNCHANGED <<sections, suspect>>
     ELSE /\ sections' = [sections EXCEPT ![task[p].id] = NoRow]
          /\ Overtakes({sections[task[p].id].code}, TRUE)
          /\ Goes(p, [step |-> "forget", codes |-> {task[p].code}, ids |-> {task[p].id}])
  /\ UNCHANGED <<readVars, courses, referenced, redisVars, reserved, recon, counts>>

(* invalidateSectionLookupCaches: one DEL of the lookups and the counters, *)
(* then SCAN and DEL of the listings; errors are logged only.              *)
Forget(p) ==
  /\ task[p].step = "forget"
  /\ cache' = [k \in Keys |-> IF k \in task[p].codes THEN Missing ELSE cache[k]]
  /\ counter' = [i \in Sections |-> IF i \in task[p].ids THEN Missing ELSE counter[i]]
  /\ Goes(p, [step |-> "forget_list"])
  /\ UNCHANGED <<lock, fill, expired, dbVars, list, reserved, recon, suspect, counts>>

ForgetList(p) ==
  /\ task[p].step = "forget_list"
  /\ list' = Missing
  /\ Goes(p, NoTask)
  /\ UNCHANGED <<readVars, dbVars, counter, reserved, recon, suspect, counts>>

\* Mutant: a course is deleted whatever refers to it.
WriteCourseUnreferenced(p) ==
  /\ task[p].step = "course"
  /\ \E c \in Courses : courses' = [courses EXCEPT ![c] = NoRow]
  /\ Overtakes({"courses"}, FALSE)
  /\ Goes(p, [step |-> "forget_courses"])
  /\ UNCHANGED <<readVars, sections, referenced, redisVars, reserved, recon, counts>>

(* Courses: create and import add rows, update changes one, remove takes   *)
(* one without sections (P2003), and all clear courses:*, nothing else.  A *)
(* refused write changes nothing and is left out.                          *)
AskCourse(p) == Ask(p, [step |-> "course"])

AddCourses ==
  \E new \in SUBSET {c \in Courses : courses[c] = NoRow} \ {{}} :
    courses' = [c \in Courses |-> IF c \in new THEN 1 ELSE courses[c]]

EditCourse ==
  \E c \in Courses : courses[c] # NoRow /\ courses' = [courses EXCEPT ![c] = @ + 1]

DropCourse ==
  \E c \in Courses :
    /\ courses[c] # NoRow
    /\ \A i \in Existing : sections[i].course # c
    /\ courses' = [courses EXCEPT ![c] = NoRow]

WriteCourse(p) ==
  /\ task[p].step = "course"
  /\ AddCourses \/ EditCourse \/ DropCourse
  /\ Overtakes({"courses"}, FALSE)
  /\ Goes(p, [step |-> "forget_courses"])
  /\ UNCHANGED <<readVars, sections, referenced, redisVars, reserved, recon, counts>>

(* clearCoursesCache spares the lock keys. *)
ForgetCourses(p) ==
  /\ task[p].step = "forget_courses"
  /\ cache' = [cache EXCEPT !["courses"] = Missing]
  /\ Goes(p, NoTask)
  /\ UNCHANGED <<lock, fill, expired, dbVars, redisVars, reserved, recon, suspect, counts>>

ForgetFails(p) ==
  /\ errors < MaxErrors
  /\ errors' = errors + 1
  /\ \/ /\ task[p].step = "forget"
        /\ suspect' = suspect \cup task[p].codes
        /\ Goes(p, [step |-> "forget_list"])
     \/ /\ task[p].step = "forget_list"
        /\ suspect' = suspect \cup {"list"}
        /\ Goes(p, NoTask)
     \/ /\ task[p].step = "forget_courses"
        /\ suspect' = suspect \cup {"courses"}
        /\ Goes(p, NoTask)
  /\ UNCHANGED <<readVars, dbVars, redisVars, reserved, recon, writes, seats>>

AdminAsks(p) ==
  AskCreate(p) \/ AskImport(p) \/ AskUpdate(p) \/ AskRemove(p) \/ AskCourse(p)

AdminStep(p) ==
  \/ Insert(p) \/ Update(p) \/ Remove(p) \/ Forget(p) \/ ForgetList(p)
  \/ WriteCourse(p) \/ ForgetCourses(p)

----------------------------------------------------------------------------
(* The registration pipeline, reduced to what it does to one section.      *)

Bump(i, n) == counter' = [counter EXCEPT ![i] = IF @ = Missing THEN n ELSE @ + n]

(* createBatch: DECRBY, then the batch item that refers to the section. *)
Reserve(i) ==
  /\ seats < MaxSeats
  /\ seats' = seats + 1
  /\ i \in Existing
  /\ Bump(i, -1)
  /\ reserved' = [reserved EXCEPT ![i] = @ + 1]
  /\ referenced' = referenced \cup {i}
  /\ UNCHANGED <<readVars, sections, courses, list, recon, task, suspect, writes, errors>>

(* The worker: UPDATE ... WHERE sl_dk < sl_max, or the seat goes back. *)
Settle(i) ==
  /\ reserved[i] > 0
  /\ reserved' = [reserved EXCEPT ![i] = @ - 1]
  /\ IF sections[i].count < sections[i].cap
     THEN sections' = [sections EXCEPT ![i].count = @ + 1] /\ UNCHANGED counter
     ELSE Bump(i, 1) /\ UNCHANGED sections
  /\ UNCHANGED <<readVars, courses, referenced, list, recon, task, suspect, counts>>

(* reconcileCurrentSemesterSlots: one query, ... *)
ReconcileLoad ==
  /\ Reconciling /\ recon.at = "idle"
  /\ recon' = [at |-> "compare", slots |-> [i \in Existing |-> FreeSeats(sections[i])]]
  /\ UNCHANGED <<readVars, dbVars, redisVars, reserved, task, suspect, counts>>

Differing(picked) ==
  /\ recon.at = "compare"
  /\ recon' = IF picked = {} THEN Idle
              ELSE [at |-> "write", slots |-> [i \in picked |-> recon.slots[i]]]
  /\ UNCHANGED <<readVars, dbVars, redisVars, reserved, task, suspect, counts>>

\* Mutant: reconcile fills missing counters only, like the heal job.
ReconcileMissing == Differing({i \in DOMAIN recon.slots : counter[i] = Missing})

(* ... MGET, and a pipeline of SETs of the counters that differ.           *)
ReconcileCompare ==
  Differing({i \in DOMAIN recon.slots : counter[i] # recon.slots[i]})

ReconcileWrite ==
  /\ recon.at = "write"
  /\ counter' = [i \in Sections |-> IF i \in DOMAIN recon.slots THEN recon.slots[i]
                                    ELSE counter[i]]
  /\ recon' = Idle
  /\ UNCHANGED <<readVars, dbVars, list, reserved, task, suspect, counts>>

\* Mutant: the listing is SET without EX.
ListKept == list # Missing /\ UNCHANGED vars

(* The TTLs of Redis. *)
ExpireList ==
  /\ list # Missing
  /\ list' = Missing
  /\ UNCHANGED <<readVars, dbVars, counter, reserved, recon, task, suspect, counts>>

Expire(k) ==
  /\ KeyExpires(k) \/ LockExpires(k)
  /\ UNCHANGED <<dbVars, redisVars, reserved, recon, task, suspect, counts>>

----------------------------------------------------------------------------
Init ==
  /\ ReadInit
  /\ sections = InitialSections /\ courses = InitialCourses
  /\ referenced = {} /\ reserved = [i \in Sections |-> 0]
  /\ counter = [i \in Sections |-> Missing] /\ list = Missing
  /\ recon = Idle
  /\ task = [p \in Procs |-> NoTask]
  /\ suspect = {}
  /\ writes = 0 /\ seats = 0 /\ errors = 0

VisitorStep(p) ==
  \/ ReadLoads(p) \/ WriteLoadedSlots(p) \/ ReadCache(p) \/ Respond(p)
  \/ ListGet(p) \/ ListLoad(p) \/ ListStore(p) \/ ListSlots(p)

Next ==
  \/ \E p \in Procs :
       \/ Visit(p) \/ VisitorStep(p) \/ ReadCacheFails(p) \/ ListFails(p)
       \/ AdminAsks(p) \/ AdminStep(p) \/ ForgetFails(p)
  \/ \E i \in Sections : Reserve(i) \/ Settle(i)
  \/ ReconcileLoad \/ ReconcileCompare \/ ReconcileWrite
  \/ ExpireList \/ \E k \in Keys : Expire(k)

Spec == Init /\ [][Next]_vars

(***************************************************************************)
(* Requests and workers go on, the reconcile cron keeps firing and cached  *)
(* entries reach their TTL.                                                *)
(***************************************************************************)
Fairness ==
  /\ \A p \in Procs : WF_vars(VisitorStep(p) \/ AdminStep(p))
  /\ WF_vars(\E i \in Sections : Settle(i))
  /\ WF_vars(ReconcileLoad \/ ReconcileCompare \/ ReconcileWrite)
  /\ WF_vars(ExpireList)
  /\ \A k \in Keys : WF_vars(KeyExpires(k) /\
       UNCHANGED <<dbVars, redisVars, reserved, recon, task, suspect, counts>>)

FairSpec == Spec /\ Fairness

----------------------------------------------------------------------------
(* Every variable holds a value of its type. *)
CatalogTypeOK ==
  /\ \A i \in Existing : /\ sections[i].code \in Codes
                         /\ courses[sections[i].course] # NoRow
                         /\ sections[i].count \in Int /\ sections[i].cap \in Int
  /\ \A i \in Sections : (counter[i] = Missing \/ counter[i] \in Int) /\ reserved[i] \in Nat
  /\ referenced \subseteq Existing
  /\ suspect \subseteq Keys \cup {"list"}

(* No request leaves a section with half a schedule or one that ends       *)
(* before it starts, although an update sends only some of its columns.    *)
(* This is so for one administrator: of two updates that overlap, each is  *)
(* checked against a row the other has not written yet.                    *)
SchedulesWhole == \A i \in Existing : ValidSchedule(sections[i])

(* What an administrator edits: seat counts and course data change without *)
(* an invalidation.                                                        *)
Edited(items) ==
  {[id |-> x.id, row |-> [x.row EXCEPT !.count = 0]] : x \in items}

Forgetting(k) ==
  \E p \in Procs : \/ task[p].step = "forget" /\ k \in task[p].codes \cup {"list"}
                   \/ task[p].step = "forget_list" /\ k = "list"
                   \/ task[p].step = "forget_courses" /\ k = "courses"
Exact(k) == k \notin suspect /\ ~ Forgetting(k)

(* Once an edit has answered, nobody reads the old section, course or      *)
(* listing from a cache: both section codes of a renamed section, and every*)
(* listing, are forgotten.  The exceptions are a fill that the edit's      *)
(* commit overtook and an invalidation that Redis refused.                 *)
CatalogCurrent ==
  /\ \A k \in Codes : Exact(k) /\ cache[k] # Missing
                       => Edited(cache[k]) = Edited(Lookup(k))
  /\ Exact("courses") => cache["courses"] \in {Missing, CourseRows}
  /\ Exact("list") /\ list # Missing => Edited(list) = Edited(Listing)

(* When editing and registering stop, every cache ends up at the database: *)
(* also the course data inside lookups and listings, which no course       *)
(* update invalidates, and the seat counts.                                *)
CatalogConverges ==
  <>[](/\ \A k \in Keys : cache[k] \in {Missing, db[k]}
       /\ list \in {Missing, Listing})

(* A listing keeps writing the slot counters from rows it cached up to     *)
(* half an hour ago; reconcile has the last word all the same.             *)
SeatCountersConverge ==
  <>[](\A i \in Existing : counter[i] \in {Missing, FreeSeats(sections[i])})
=============================================================================
