------------------------ MODULE SectionCatalogProofs ------------------------
(***************************************************************************)
(* Theorems about SectionCatalog: its rows keep their types and references,*)
(* no edit leaves half a schedule, and nobody reads an old section from a  *)
(* cache once the edit has answered.                                       *)
(***************************************************************************)
EXTENDS SectionCatalog, ReadThroughProofs

USE CatalogAssumption, DataAssumption

----------------------------------------------------------------------------
(* Rows, tasks and counters hold values of their types.                    *)

Items == [id : Sections, row : SectionRow, course : Nat]

Tasks ==
  [step : {"idle", "list_get", "list_load", "forget_list", "course",
           "forget_courses"}]
  \cup [step : {"lookup"}, key : Codes, items : SUBSET Items]
  \cup [step : {"courses"}, key : {"courses"}, items : {{}}]
  \cup [step : {"list_store", "list_slots"}, items : SUBSET Items]
  \cup [step : {"insert"}, rows : SUBSET SectionRow, skip : BOOLEAN]
  \cup [step : {"update"}, id : Sections, patch : SectionPatches, code : Codes]
  \cup [step : {"remove"}, id : Sections, code : Codes]
  \cup [step : {"forget"}, codes : SUBSET Codes, ids : SUBSET Sections]

TasksTyped == task \in [Procs -> Tasks]

(* The foreign keys: the course of a section, the section of a batch item  *)
(* whose seat is still to be settled.                                      *)
RowsTyped ==
  /\ sections \in [Sections -> SectionRow \cup {NoRow}]
  /\ courses \in [Courses -> Nat \cup {NoRow}]
  /\ \A i \in Existing : courses[sections[i].course] # NoRow
  /\ referenced \subseteq Existing
  /\ reserved \in [Sections -> Nat]
  /\ \A i \in Sections : reserved[i] > 0 => i \in referenced

CountersTyped ==
  /\ counter \in [Sections -> Int \cup {Missing}]
  /\ list = Missing \/ list \subseteq Items
  /\ \A i \in DOMAIN recon.slots : recon.slots[i] \in Int
  /\ suspect \subseteq Keys \cup {"list"}

(* What a task is, by where it stands. *)
LEMMA TaskFields ==
  ASSUME NEW t \in Tasks
  PROVE  /\ t.step = "lookup" => /\ t = [step |-> "lookup", key |-> t.key, items |-> t.items]
                                 /\ t.key \in Codes /\ t.items \subseteq Items
         /\ t.step = "courses" => t = [step |-> "courses", key |-> "courses", items |-> {}]
         /\ t.step \in {"list_store", "list_slots"} =>
              t = [step |-> t.step, items |-> t.items] /\ t.items \subseteq Items
         /\ t.step = "insert" => t.rows \subseteq SectionRow
         /\ t.step = "update" => t.id \in Sections /\ t.patch \in SectionPatches
                                 /\ t.code \in Codes
         /\ t.step = "remove" => t.id \in Sections /\ t.code \in Codes
         /\ t.step = "forget" => t.codes \subseteq Codes /\ t.ids \subseteq Sections
  BY DEF Tasks

(* A lookup that has been read from the database, or written to the slot   *)
(* counters.                                                               *)
LEMMA LookupWith ==
  ASSUME NEW t \in Tasks, t.step = "lookup", NEW items \in SUBSET Items
  PROVE  /\ [t EXCEPT !.items = items] \in Tasks
         /\ [t EXCEPT !.items = items]
              = [step |-> "lookup", key |-> t.key, items |-> items]
<1>1. [t EXCEPT !.items = items]
        = [step |-> "lookup", key |-> t.key, items |-> items]
  BY TaskFields
<1>2. [step |-> "lookup", key |-> t.key, items |-> items] \in Tasks
  BY TaskFields DEF Tasks
<1> QED
  BY <1>1, <1>2

LEMMA GoesTyped ==
  ASSUME TasksTyped, NEW p \in Procs, NEW t \in Tasks, Goes(p, t)
  PROVE  /\ TasksTyped'
         /\ task'[p] = t
         /\ \A q \in Procs : q # p => task'[q] = task[q]
  BY DEF TasksTyped, Goes

LEMMA PatchedRow ==
  ASSUME NEW row \in SectionRow, NEW patch \in SectionPatches
  PROVE  Patched(row, patch) \in SectionRow
<1> DEFINE new == Patched(row, patch)
<1>1. DOMAIN row = {"code", "course", "cap", "count", "day", "from", "to", "time"}
  BY DEF SectionRow
<1>2. \A f \in DOMAIN row :
        new[f] = IF f \in DOMAIN patch THEN patch[f] ELSE row[f]
  BY DEF Patched
<1>3. new = [code |-> new.code, course |-> new.course, cap |-> new.cap,
             count |-> new.count, day |-> new.day, from |-> new.from,
             to |-> new.to, time |-> new.time]
  BY <1>1 DEF Patched
<1>4. IsPatch(patch)
  OBVIOUS
<1> HIDE DEF new
<1>5. /\ new.code \in Codes /\ new.course \in Courses
      /\ new.cap \in Int /\ new.count \in Int
      /\ new.day \in Int \cup {Null} /\ new.from \in Int \cup {Null}
      /\ new.to \in Int \cup {Null} /\ new.time \in STRING \cup {Null}
  BY <1>1, <1>2, <1>4 DEF IsPatch, SectionRow
<1>6. new \in SectionRow
  BY <1>3, <1>5 DEF SectionRow
<1> QED
  BY <1>6 DEF new

(* What a query returns. *)
LEMMA QueriedItems ==
  ASSUME RowsTyped
  PROVE  /\ \A code : Lookup(code) \subseteq Items
         /\ Listing \subseteq Items
<1>1. ASSUME NEW i \in Existing PROVE WithCourse(i) \in Items
  <2>1. i \in Sections /\ sections[i] \in SectionRow
    BY DEF RowsTyped, Existing
  <2>2. courses[sections[i].course] \in Nat
    BY <2>1 DEF RowsTyped, SectionRow
  <2> QED
    BY <2>1, <2>2 DEF WithCourse, Items
<1> QED
  BY <1>1 DEF Lookup, Listing

LEMMA SlotsTyped ==
  ASSUME CountersTyped, NEW items \in SUBSET Items
  PROVE  SlotsOf(items) \in [Sections -> Int \cup {Missing}]
<1>1. ASSUME NEW i \in Sections, \E x \in items : x.id = i
      PROVE  FreeSeats((CHOOSE x \in items : x.id = i).row) \in Int
  <2>1. PICK x \in items : x = CHOOSE y \in items : y.id = i
    BY <1>1
  <2>2. x.row \in SectionRow
    BY DEF Items
  <2>3. x.row.cap \in Int /\ x.row.count \in Int
    BY <2>2 DEF SectionRow
  <2> QED
    BY <2>1, <2>3 DEF FreeSeats, Max0
<1> QED
  BY <1>1 DEF SlotsOf, CountersTyped

(* The statements that write rows.  A foreign key refuses a section whose  *)
(* course is gone and keeps a section that batch items refer to.           *)
LEMMA InsertKeepsRows ==
  ASSUME RowsTyped, TasksTyped, NEW p \in Procs, Insert(p)
  PROVE  RowsTyped'
<1>1. task[p].rows \subseteq SectionRow
  BY TaskFields DEF TasksTyped, Insert
<1>2. CASE UNCHANGED sections
  BY <1>2 DEF Insert, RowsTyped, Existing
<1> DEFINE rows == {r \in task[p].rows : ~ Collides(NoRow, r)}
<1>3. ASSUME \A r \in task[p].rows : courses[r.course] # NoRow,
             NEW place \in [rows -> Sections \ Existing],
             sections' = [i \in Sections |->
                      IF \E r \in rows : place[r] = i
                      THEN CHOOSE r \in rows : place[r] = i ELSE sections[i]]
      PROVE  RowsTyped'
  <2>1. \A i \in Sections : \/ sections'[i] = sections[i]
                            \/ /\ i \notin Existing
                               /\ sections'[i] \in SectionRow
                               /\ courses[sections'[i].course] # NoRow
    BY <1>1, <1>3
  <2>2. sections' \in [Sections -> SectionRow \cup {NoRow}]
    BY <1>3, <2>1 DEF RowsTyped
  <2>3. UNCHANGED <<courses, referenced, reserved>>
    BY DEF Insert
  <2>4. referenced \subseteq Existing'
    BY <2>1 DEF RowsTyped, Existing
  <2>5. \A i \in Existing' : courses[sections'[i].course] # NoRow
    BY <2>1 DEF RowsTyped, Existing
  <2> QED
    BY <2>2, <2>3, <2>4, <2>5 DEF RowsTyped
<1>4. \/ UNCHANGED sections
      \/ /\ \A r \in task[p].rows : courses[r.course] # NoRow
         /\ \E place \in [rows -> Sections \ Existing] :
              sections' = [i \in Sections |->
                      IF \E r \in rows : place[r] = i
                      THEN CHOOSE r \in rows : place[r] = i ELSE sections[i]]
  BY DEF Insert
<1> HIDE DEF rows
<1> QED
  BY <1>2, <1>3, <1>4

LEMMA UpdateKeepsRows ==
  ASSUME RowsTyped, TasksTyped, NEW p \in Procs, Update(p)
  PROVE  RowsTyped'
<1> DEFINE i   == task[p].id
           new == Patched(sections[i], task[p].patch)
<1>1. i \in Sections /\ task[p].patch \in SectionPatches
  BY TaskFields DEF TasksTyped, Update
<1>2. CASE UNCHANGED sections
  BY <1>2 DEF Update, RowsTyped, Existing
<1>3. CASE /\ sections[i] # NoRow
           /\ courses[new.course] # NoRow
           /\ sections' = [sections EXCEPT ![i] = new]
  <2>1. new \in SectionRow
    BY <1>1, <1>3, PatchedRow DEF RowsTyped
  <2> HIDE DEF new, i
  <2>2. /\ sections' \in [Sections -> SectionRow \cup {NoRow}]
        /\ sections'[i] = new /\ new # NoRow
        /\ \A j \in Sections : j # i => sections'[j] = sections[j]
    BY <1>1, <1>3, <2>1 DEF RowsTyped
  <2>3. UNCHANGED <<courses, referenced, reserved>>
    BY DEF Update
  <2>4. Existing' = Existing
    BY <1>3, <2>2 DEF Existing
  <2> QED
    BY <1>3, <2>2, <2>3, <2>4 DEF RowsTyped, Existing
<1> QED
  BY <1>2, <1>3 DEF Update

LEMMA RemoveKeepsRows ==
  ASSUME RowsTyped, TasksTyped, NEW p \in Procs, Remove(p)
  PROVE  RowsTyped'
<1>1. task[p].id \in Sections
  BY TaskFields DEF TasksTyped, Remove
<1>2. CASE UNCHANGED sections
  BY <1>2 DEF Remove, RowsTyped, Existing
<1>3. CASE /\ task[p].id \notin referenced
           /\ sections' = [sections EXCEPT ![task[p].id] = NoRow]
  <2>1. sections' \in [Sections -> SectionRow \cup {NoRow}]
    BY <1>1, <1>3 DEF RowsTyped
  <2>2. Existing' = Existing \ {task[p].id}
    BY <1>1, <1>3 DEF RowsTyped, Existing
  <2>3. UNCHANGED <<courses, referenced, reserved>>
    BY DEF Remove
  <2> QED
    BY <1>1, <1>3, <2>1, <2>2, <2>3 DEF RowsTyped, Existing
<1> QED
  BY <1>2, <1>3 DEF Remove

LEMMA CourseKeepsRows ==
  ASSUME RowsTyped, NEW p \in Procs, WriteCourse(p)
  PROVE  RowsTyped'
<1>1. courses' \in [Courses -> Nat \cup {NoRow}]
  BY DEF WriteCourse, AddCourses, EditCourse, DropCourse, RowsTyped
<1>2. \A i \in Existing : courses'[sections[i].course] # NoRow
  <2> SUFFICES ASSUME NEW i \in Existing
               PROVE  courses'[sections[i].course] # NoRow
    OBVIOUS
  <2>1. sections[i].course \in Courses /\ courses[sections[i].course] \in Nat
    BY DEF RowsTyped, Existing, SectionRow
  <2>2. \A n \in Nat : n # NoRow /\ n + 1 # NoRow
    OBVIOUS
  <2>3. CASE AddCourses
    BY <2>1, <2>2, <2>3 DEF AddCourses
  <2>4. CASE EditCourse
    BY <2>1, <2>2, <2>4 DEF EditCourse, RowsTyped
  <2>5. CASE DropCourse
    BY <2>1, <2>2, <2>5 DEF DropCourse, RowsTyped
  <2> QED
    BY <2>3, <2>4, <2>5 DEF WriteCourse
<1>3. UNCHANGED <<sections, referenced, reserved>>
  BY DEF WriteCourse
<1> QED
  BY <1>1, <1>2, <1>3 DEF RowsTyped, Existing

(* What the worker writes into a row is its count. *)
LEMMA CountedRow ==
  ASSUME NEW row \in SectionRow, NEW n \in Int
  PROVE  /\ [row EXCEPT !.count = n] \in SectionRow
         /\ [[row EXCEPT !.count = n] EXCEPT !.count = 0] = [row EXCEPT !.count = 0]
         /\ [row EXCEPT !.count = n].course = row.course
         /\ [row EXCEPT !.count = n].code = row.code
  BY DEF SectionRow

LEMMA SettleWrites ==
  ASSUME RowsTyped, NEW i \in Sections, Settle(i)
  PROVE  /\ i \in Existing
         /\ \/ UNCHANGED sections
            \/ \E n \in Int : sections' = [sections EXCEPT ![i] = [sections[i] EXCEPT !.count = n]]
<1>1. i \in Existing
  BY DEF RowsTyped, Settle
<1>2. sections[i] \in SectionRow /\ sections[i].count \in Int
  BY <1>1 DEF RowsTyped, Existing, SectionRow
<1>3. CASE sections' = [sections EXCEPT ![i].count = @ + 1]
  <2>1. sections' = [sections EXCEPT ![i] = [sections[i] EXCEPT !.count = sections[i].count + 1]]
    BY <1>3
  <2>2. sections[i].count + 1 \in Int
    BY <1>2
  <2> QED
    BY <1>1, <2>1, <2>2
<1> QED
  BY <1>1, <1>3 DEF Settle

LEMMA SettleKeepsRows ==
  ASSUME RowsTyped, NEW i \in Sections, Settle(i)
  PROVE  RowsTyped'
<1>1. i \in Existing /\ sections[i] \in SectionRow /\ sections[i] # NoRow
  BY SettleWrites DEF RowsTyped, Existing
<1>2. /\ reserved' \in [Sections -> Nat]
      /\ \A j \in Sections : reserved'[j] > 0 => reserved[j] > 0
  BY DEF RowsTyped, Settle
<1>3. UNCHANGED <<courses, referenced>>
  BY DEF Settle
<1>4. /\ sections' \in [Sections -> SectionRow \cup {NoRow}]
      /\ Existing' = Existing
      /\ \A j \in Existing : sections'[j].course = sections[j].course
  <2>1. CASE UNCHANGED sections
    BY <2>1 DEF RowsTyped, Existing
  <2>2. ASSUME NEW n \in Int,
               sections' = [sections EXCEPT ![i] = [sections[i] EXCEPT !.count = n]]
        PROVE  /\ sections' \in [Sections -> SectionRow \cup {NoRow}]
               /\ Existing' = Existing
               /\ \A j \in Existing : sections'[j].course = sections[j].course
    <3> DEFINE row == [sections[i] EXCEPT !.count = n]
    <3>1. /\ row \in SectionRow /\ row # NoRow
          /\ row.course = sections[i].course
      BY <1>1, CountedRow
    <3>2. sections' = [sections EXCEPT ![i] = row]
      BY <2>2
    <3> HIDE DEF row
    <3>3. /\ sections'[i] = row
          /\ \A j \in Sections : j # i => sections'[j] = sections[j]
      BY <3>2 DEF RowsTyped
    <3> QED
      BY <1>1, <3>1, <3>2, <3>3 DEF RowsTyped, Existing
  <2> QED
    BY <2>1, <2>2, SettleWrites
<1> QED
  BY <1>2, <1>3, <1>4 DEF RowsTyped

LEMMA ReserveKeepsRows ==
  ASSUME RowsTyped, NEW i \in Sections, Reserve(i)
  PROVE  RowsTyped'
  BY DEF RowsTyped, Reserve, Existing

(* Who writes rows. *)
RowWriters(p) == Insert(p) \/ Update(p) \/ Remove(p) \/ WriteCourse(p)

LEMMA RowSteps ==
  ASSUME [Next]_vars
  PROVE  \/ UNCHANGED <<dbVars, reserved>>
         \/ \E p \in Procs : RowWriters(p)
         \/ \E i \in Sections : Reserve(i) \/ Settle(i)
<1>1. ASSUME NEW p \in Procs,
             Visit(p) \/ VisitorStep(p) \/ ReadCacheFails(p) \/ ListFails(p)
      PROVE  UNCHANGED <<dbVars, reserved>>
  BY <1>1 DEF Visit, VisitorStep, ReadCacheFails, ListFails, ReadLoads,
              WriteLoadedSlots, ReadCache, Respond,
              ListGet, ListLoad, ListStore, ListSlots
<1>2. ASSUME NEW p \in Procs, AdminAsks(p) \/ ForgetFails(p)
      PROVE  UNCHANGED <<dbVars, reserved>>
  BY <1>2 DEF AdminAsks, AskCreate, AskImport, AskUpdate, AskRemove, AskCourse,
              Ask, ForgetFails
<1>3. ASSUME NEW p \in Procs, AdminStep(p)
      PROVE  UNCHANGED <<dbVars, reserved>> \/ RowWriters(p)
  BY <1>3 DEF AdminStep, RowWriters, Forget, ForgetList, ForgetCourses
<1>4. ASSUME \/ ReconcileLoad \/ ReconcileCompare \/ ReconcileWrite
             \/ ExpireList \/ \E k \in Keys : Expire(k)
      PROVE  UNCHANGED <<dbVars, reserved>>
  BY <1>4 DEF ReconcileLoad, ReconcileCompare, Differing, ReconcileWrite,
              ExpireList, Expire
<1> QED
  BY <1>1, <1>2, <1>3, <1>4 DEF Next, vars

LEMMA RowsStayTyped ==
  ASSUME RowsTyped, TasksTyped, [Next]_vars
  PROVE  RowsTyped'
<1>1. CASE UNCHANGED <<dbVars, reserved>>
  BY <1>1 DEF dbVars, RowsTyped, Existing
<1> QED
  BY <1>1, RowSteps, InsertKeepsRows, UpdateKeepsRows, RemoveKeepsRows,
     CourseKeepsRows, ReserveKeepsRows, SettleKeepsRows DEF RowWriters

(* Requests are made of what the database and the inputs offer. *)
LEMMA AsksStayTyped ==
  ASSUME RowsTyped, TasksTyped, NEW p \in Procs, AdminAsks(p)
  PROVE  TasksTyped'
<1>1. \A i \in Existing : i \in Sections /\ sections[i].code \in Codes
  BY DEF RowsTyped, Existing, SectionRow
<1>2. CASE AskCreate(p)
  <2>1. PICK row \in SectionInputs :
          Goes(p, [step |-> "insert", rows |-> {row}, skip |-> FALSE])
    BY <1>2 DEF AskCreate, Ask
  <2>2. [step |-> "insert", rows |-> {row}, skip |-> FALSE] \in Tasks
    BY DEF Tasks
  <2> QED
    BY <2>1, <2>2, GoesTyped
<1>3. CASE AskImport(p)
  <2>1. PICK rows \in Imports :
          Goes(p, [step |-> "insert", rows |-> rows, skip |-> TRUE])
    BY <1>3 DEF AskImport, Ask
  <2>2. [step |-> "insert", rows |-> rows, skip |-> TRUE] \in Tasks
    BY DEF Tasks
  <2> QED
    BY <2>1, <2>2, GoesTyped
<1>4. CASE AskUpdate(p)
  <2>1. PICK i \in Existing, patch \in SectionPatches :
          Goes(p, [step |-> "update", id |-> i, patch |-> patch, code |-> sections[i].code])
    BY <1>4 DEF AskUpdate, Ask
  <2>2. [step |-> "update", id |-> i, patch |-> patch, code |-> sections[i].code] \in Tasks
    BY <1>1 DEF Tasks
  <2> QED
    BY <2>1, <2>2, GoesTyped
<1>5. CASE AskRemove(p)
  <2>1. PICK i \in Existing :
          Goes(p, [step |-> "remove", id |-> i, code |-> sections[i].code])
    BY <1>5 DEF AskRemove, Ask
  <2>2. [step |-> "remove", id |-> i, code |-> sections[i].code] \in Tasks
    BY <1>1 DEF Tasks
  <2> QED
    BY <2>1, <2>2, GoesTyped
<1>6. CASE AskCourse(p)
  <2>1. [step |-> "course"] \in Tasks
    BY DEF Tasks
  <2> QED
    BY <1>6, <2>1, GoesTyped DEF AskCourse, Ask
<1> QED
  BY <1>2, <1>3, <1>4, <1>5, <1>6 DEF AdminAsks

LEMMA PlainTasks ==
  /\ NoTask \in Tasks
  /\ [step |-> "list_get"] \in Tasks
  /\ [step |-> "list_load"] \in Tasks
  /\ [step |-> "forget_list"] \in Tasks
  /\ [step |-> "forget_courses"] \in Tasks
  BY DEF NoTask, Tasks

(* The edit commits, and the codes and ids to forget follow it. *)
LEMMA EditsStayTyped ==
  ASSUME RowsTyped, TasksTyped, NEW p \in Procs, Insert(p) \/ Update(p) \/ Remove(p)
  PROVE  /\ TasksTyped'
         /\ suspect' \subseteq suspect \cup Codes \cup {"list"}
<1>1. task[p] \in Tasks
  BY DEF TasksTyped
<1>2. ASSUME NEW codes \in SUBSET Codes, NEW ids \in SUBSET Sections,
             NEW keys \in SUBSET Codes,
             Goes(p, [step |-> "forget", codes |-> codes, ids |-> ids]),
             Overtakes(keys, TRUE)
      PROVE  TasksTyped' /\ suspect' \subseteq suspect \cup Codes \cup {"list"}
  <2>1. [step |-> "forget", codes |-> codes, ids |-> ids] \in Tasks
    BY DEF Tasks
  <2> QED
    BY <1>2, <2>1, GoesTyped DEF Overtakes
<1>3. ASSUME Goes(p, NoTask), UNCHANGED suspect
      PROVE  TasksTyped' /\ suspect' \subseteq suspect \cup Codes \cup {"list"}
  BY <1>3, PlainTasks, GoesTyped
<1>4. CASE Insert(p)
  <2>1. \A r \in task[p].rows : r.code \in Codes
    BY <1>1, <1>4, TaskFields DEF Insert, SectionRow
  <2> DEFINE rows  == {r \in task[p].rows : ~ Collides(NoRow, r)}
             codes == {r.code : r \in task[p].rows}
             keys  == {r.code : r \in rows}
  <2>2. codes \subseteq Codes /\ keys \subseteq Codes
    BY <2>1
  <2>3. \/ Goes(p, NoTask) /\ UNCHANGED suspect
        \/ /\ \E place \in [rows -> Sections \ Existing] :
                Goes(p, [step |-> "forget", codes |-> codes,
                         ids |-> IF task[p].skip THEN {}
                                 ELSE {place[r] : r \in rows}])
           /\ Overtakes(keys, TRUE)
    BY <1>4 DEF Insert
  <2>4. \A place \in [rows -> Sections \ Existing] :
          (IF task[p].skip THEN {} ELSE {place[r] : r \in rows}) \subseteq Sections
    OBVIOUS
  <2> HIDE DEF rows, codes, keys
  <2>5. ASSUME NEW place \in [rows -> Sections \ Existing],
               Goes(p, [step |-> "forget", codes |-> codes,
                        ids |-> IF task[p].skip THEN {}
                                ELSE {place[r] : r \in rows}]),
               Overtakes(keys, TRUE)
        PROVE  TasksTyped' /\ suspect' \subseteq suspect \cup Codes \cup {"list"}
    <3>1. PICK ids \in SUBSET Sections :
            ids = IF task[p].skip THEN {} ELSE {place[r] : r \in rows}
      BY <2>4
    <3>2. Goes(p, [step |-> "forget", codes |-> codes, ids |-> ids])
      BY <2>5, <3>1
    <3> QED
      BY <1>2, <2>2, <2>5, <3>2
  <2> QED
    BY <1>3, <2>3, <2>5
<1>5. CASE Update(p)
  <2>1. /\ task[p].id \in Sections /\ task[p].patch \in SectionPatches
        /\ task[p].code \in Codes
    BY <1>1, <1>5, TaskFields DEF Update
  <2>2. \/ Goes(p, NoTask) /\ UNCHANGED suspect
        \/ /\ sections[task[p].id] # NoRow
           /\ Overtakes({sections[task[p].id].code,
                         Patched(sections[task[p].id], task[p].patch).code}, TRUE)
           /\ Goes(p, [step |-> "forget",
                       codes |-> {task[p].code,
                                  Patched(sections[task[p].id], task[p].patch).code},
                       ids |-> {task[p].id}])
    BY <1>5 DEF Update
  <2>3. CASE sections[task[p].id] # NoRow
    <3>1. /\ sections[task[p].id] \in SectionRow
          /\ Patched(sections[task[p].id], task[p].patch) \in SectionRow
      BY <2>1, <2>3, PatchedRow DEF RowsTyped
    <3>2. /\ sections[task[p].id].code \in Codes
          /\ Patched(sections[task[p].id], task[p].patch).code \in Codes
      BY <3>1 DEF SectionRow
    <3> QED
      BY <1>2, <1>3, <2>1, <2>2, <3>2
  <2> QED
    BY <1>3, <2>2, <2>3
<1>6. CASE Remove(p)
  <2>1. task[p].id \in Sections /\ task[p].code \in Codes
    BY <1>1, <1>6, TaskFields DEF Remove
  <2>2. \/ Goes(p, NoTask) /\ UNCHANGED suspect
        \/ /\ sections[task[p].id] # NoRow
           /\ Overtakes({sections[task[p].id].code}, TRUE)
           /\ Goes(p, [step |-> "forget", codes |-> {task[p].code},
                       ids |-> {task[p].id}])
    BY <1>6 DEF Remove
  <2>3. sections[task[p].id] # NoRow => sections[task[p].id].code \in Codes
    BY <2>1 DEF RowsTyped, SectionRow
  <2> QED
    BY <1>2, <1>3, <2>1, <2>2, <2>3
<1> QED
  BY <1>4, <1>5, <1>6

(* Visitors carry what a query or the cached listing gave them. *)
LEMMA VisitsStayTyped ==
  ASSUME RowsTyped, TasksTyped, CountersTyped, NEW p \in Procs,
         Visit(p) \/ VisitorStep(p) \/ ReadCacheFails(p) \/ ListFails(p)
  PROVE  /\ TasksTyped'
         /\ UNCHANGED <<recon, suspect>>
         /\ counter' \in [Sections -> Int \cup {Missing}]
         /\ list' = Missing \/ list' \subseteq Items
<1>1. task[p] \in Tasks
  BY DEF TasksTyped
<1>2. UNCHANGED <<recon, suspect>>
  BY DEF Visit, VisitorStep, ReadCacheFails, ListFails, ReadLoads,
         WriteLoadedSlots, ReadCache, Respond, ListGet, ListLoad, ListStore,
         ListSlots
<1>3. ASSUME UNCHANGED counter
      PROVE  counter' \in [Sections -> Int \cup {Missing}]
  BY <1>3 DEF CountersTyped
<1>4. ASSUME UNCHANGED list
      PROVE  list' = Missing \/ list' \subseteq Items
  BY <1>4 DEF CountersTyped
<1>5. ASSUME UNCHANGED task PROVE TasksTyped'
  BY <1>5 DEF TasksTyped
<1>6. CASE Visit(p)
  <2>1. /\ \A code \in Codes : [step |-> "lookup", key |-> code, items |-> {}] \in Tasks
        /\ [step |-> "courses", key |-> "courses", items |-> {}] \in Tasks
    BY DEF Tasks
  <2>2. TasksTyped'
    BY <1>6, <2>1, PlainTasks, GoesTyped DEF Visit, AskLookup, AskCourses, AskListing
  <2> QED
    BY <1>2, <1>3, <1>4, <1>6, <2>2 DEF Visit, redisVars
<1>7. CASE ReadLoads(p)
  <2>1. TasksTyped'
    <3>1. CASE task[p].step = "lookup"
      <4>1. PICK items \in SUBSET Items : items = db[task[p].key]
        <5>1. task[p].key \in Codes
          BY <1>1, <3>1, TaskFields
        <5> QED
          BY <5>1, QueriedItems DEF db
      <4>2. Goes(p, [task[p] EXCEPT !.items = items])
        BY <1>7, <3>1, <4>1 DEF ReadLoads, LoadedItems
      <4> QED
        BY <1>1, <3>1, <4>2, LookupWith, GoesTyped
    <3>2. CASE task[p].step # "lookup"
      BY <1>5, <1>7, <3>2 DEF ReadLoads, LoadedItems
    <3> QED
      BY <3>1, <3>2
  <2> QED
    BY <1>2, <1>3, <1>4, <1>7, <2>1 DEF ReadLoads, redisVars
<1>8. CASE WriteLoadedSlots(p)
  <2>1. task[p].items \subseteq Items
    BY <1>1, <1>8, TaskFields DEF WriteLoadedSlots, Loaded
  <2>2. counter' \in [Sections -> Int \cup {Missing}]
    BY <1>8, <2>1, SlotsTyped DEF WriteLoadedSlots
  <2>3. TasksTyped'
    <3>1. task[p].step = "lookup" /\ {} \in SUBSET Items
      BY <1>8 DEF WriteLoadedSlots, Loaded
    <3>2. [task[p] EXCEPT !.items = {}] \in Tasks
      BY <1>1, <3>1, LookupWith
    <3> QED
      BY <1>8, <3>2, GoesTyped DEF WriteLoadedSlots
  <2> QED
    BY <1>2, <1>4, <1>8, <2>2, <2>3 DEF WriteLoadedSlots
<1>9. CASE ReadCache(p) \/ ReadCacheFails(p)
  BY <1>2, <1>3, <1>4, <1>5, <1>9 DEF ReadCache, ReadCacheFails, redisVars
<1>10. CASE Respond(p)
  BY <1>2, <1>3, <1>4, <1>10, PlainTasks, GoesTyped DEF Respond, redisVars
<1>11. CASE ListGet(p)
  <2>1. list # Missing => [step |-> "list_slots", items |-> list] \in Tasks
    BY DEF CountersTyped, Tasks
  <2>2. TasksTyped'
    BY <1>11, <2>1, PlainTasks, GoesTyped DEF ListGet
  <2> QED
    BY <1>2, <1>3, <1>4, <1>11, <2>2 DEF ListGet, redisVars
<1>12. CASE ListLoad(p)
  <2>1. [step |-> "list_store", items |-> Listing] \in Tasks
    BY QueriedItems DEF Tasks
  <2>2. TasksTyped'
    BY <1>12, <2>1, GoesTyped DEF ListLoad
  <2> QED
    BY <1>2, <1>3, <1>4, <1>12, <2>2 DEF ListLoad, redisVars
<1>13. ASSUME task[p].step = "list_store",
              Goes(p, [task[p] EXCEPT !.step = "list_slots"])
       PROVE  TasksTyped' /\ task[p].items \subseteq Items
  <2>1. [task[p] EXCEPT !.step = "list_slots"]
          = [step |-> "list_slots", items |-> task[p].items]
    BY <1>1, <1>13, TaskFields
  <2>2. [step |-> "list_slots", items |-> task[p].items] \in Tasks
    BY <1>1, <1>13, TaskFields DEF Tasks
  <2> QED
    BY <1>1, <1>13, <2>1, <2>2, GoesTyped, TaskFields
<1>14. CASE ListStore(p)
  BY <1>2, <1>3, <1>13, <1>14 DEF ListStore
<1>15. CASE ListSlots(p)
  <2>1. task[p].items \subseteq Items
    BY <1>1, <1>15, TaskFields DEF ListSlots
  <2>2. counter' \in [Sections -> Int \cup {Missing}]
    BY <1>15, <2>1, SlotsTyped DEF ListSlots
  <2>3. TasksTyped'
    BY <1>15, PlainTasks, GoesTyped DEF ListSlots
  <2> QED
    BY <1>2, <1>4, <1>15, <2>2, <2>3 DEF ListSlots
<1>16. CASE ListFails(p)
  <2>1. CASE Loaded(p) /\ Goes(p, [task[p] EXCEPT !.items = {}])
    <3>1. task[p].step = "lookup" /\ {} \in SUBSET Items
      BY <2>1 DEF Loaded
    <3>2. [task[p] EXCEPT !.items = {}] \in Tasks
      BY <1>1, <3>1, LookupWith
    <3> QED
      BY <1>2, <1>3, <1>4, <1>16, <2>1, <3>2, GoesTyped DEF ListFails, redisVars
  <2>2. CASE task[p].step = "list_store" /\ Goes(p, [task[p] EXCEPT !.step = "list_slots"])
    BY <1>2, <1>3, <1>4, <1>13, <1>16, <2>2 DEF ListFails, redisVars
  <2>3. CASE \/ Goes(p, [step |-> "list_load"])
             \/ Goes(p, NoTask)
    BY <1>2, <1>3, <1>4, <1>16, <2>3, PlainTasks, GoesTyped DEF ListFails, redisVars
  <2> QED
    BY <1>16, <2>1, <2>2, <2>3 DEF ListFails
<1> QED
  BY <1>6, <1>7, <1>8, <1>9, <1>10, <1>11, <1>12, <1>14, <1>15, <1>16 DEF VisitorStep

LEMMA TasksAndCountersStayTyped ==
  ASSUME RowsTyped, TasksTyped, CountersTyped, [Next]_vars
  PROVE  TasksTyped' /\ CountersTyped'
<1>1. ASSUME NEW p \in Procs,
             Visit(p) \/ VisitorStep(p) \/ ReadCacheFails(p) \/ ListFails(p)
      PROVE  TasksTyped' /\ CountersTyped'
  BY <1>1, VisitsStayTyped DEF CountersTyped
<1>2. ASSUME NEW p \in Procs, AdminAsks(p)
      PROVE  TasksTyped' /\ CountersTyped'
  <2>1. UNCHANGED <<counter, list, recon, suspect>>
    BY <1>2 DEF AdminAsks, AskCreate, AskImport, AskUpdate, AskRemove, AskCourse,
                Ask, redisVars
  <2> QED
    BY <1>2, <2>1, AsksStayTyped DEF CountersTyped
<1>3. ASSUME NEW p \in Procs, Insert(p) \/ Update(p) \/ Remove(p)
      PROVE  TasksTyped' /\ CountersTyped'
  <2>1. UNCHANGED <<counter, list, recon>>
    BY <1>3 DEF Insert, Update, Remove, redisVars
  <2>2. suspect' \subseteq suspect \cup Codes \cup {"list"}
    BY <1>3, EditsStayTyped
  <2> QED
    BY <1>3, <2>1, <2>2, EditsStayTyped DEF CountersTyped
<1>4. ASSUME NEW p \in Procs, Forget(p) \/ ForgetList(p) \/ ForgetCourses(p)
      PROVE  TasksTyped' /\ CountersTyped'
  <2>1. TasksTyped'
    BY <1>4, PlainTasks, GoesTyped DEF Forget, ForgetList, ForgetCourses
  <2>2. /\ counter' \in [Sections -> Int \cup {Missing}]
        /\ list' \in {list, Missing}
        /\ UNCHANGED <<recon, suspect>>
    BY <1>4 DEF Forget, ForgetList, ForgetCourses, CountersTyped, redisVars
  <2> QED
    BY <2>1, <2>2 DEF CountersTyped
<1>5. ASSUME NEW p \in Procs, WriteCourse(p)
      PROVE  TasksTyped' /\ CountersTyped'
  <2>1. TasksTyped'
    BY <1>5, PlainTasks, GoesTyped DEF WriteCourse
  <2>2. UNCHANGED <<counter, list, recon>> /\ suspect' \subseteq suspect \cup {"courses"}
    BY <1>5 DEF WriteCourse, Overtakes, redisVars
  <2> QED
    BY <2>1, <2>2 DEF CountersTyped
<1>6. ASSUME NEW p \in Procs, ForgetFails(p)
      PROVE  TasksTyped' /\ CountersTyped'
  <2>1. task[p] \in Tasks
    BY DEF TasksTyped
  <2>2. TasksTyped'
    BY <1>6, PlainTasks, GoesTyped DEF ForgetFails
  <2>3. task[p].step = "forget" => task[p].codes \subseteq Codes
    BY <2>1, TaskFields
  <2>4. UNCHANGED <<counter, list, recon>> /\ suspect' \subseteq suspect \cup Keys \cup {"list"}
    BY <1>6, <2>3 DEF ForgetFails, redisVars
  <2> QED
    BY <2>2, <2>4 DEF CountersTyped
<1>7. ASSUME NEW i \in Sections, Reserve(i) \/ Settle(i)
      PROVE  TasksTyped' /\ CountersTyped'
  <2>1. UNCHANGED <<task, list, recon, suspect>>
    BY <1>7 DEF Reserve, Settle
  <2>2. counter' \in [Sections -> Int \cup {Missing}]
    BY <1>7 DEF Reserve, Settle, Bump, CountersTyped
  <2> QED
    BY <2>1, <2>2 DEF TasksTyped, CountersTyped
<1>8. ASSUME ReconcileLoad \/ ReconcileCompare \/ ReconcileWrite
      PROVE  TasksTyped' /\ CountersTyped'
  <2>1. UNCHANGED <<task, list, suspect>>
    BY <1>8 DEF ReconcileLoad, ReconcileCompare, Differing, ReconcileWrite, redisVars
  <2>2. counter' \in [Sections -> Int \cup {Missing}]
    BY <1>8 DEF ReconcileLoad, ReconcileCompare, Differing, ReconcileWrite,
                redisVars, CountersTyped
  <2>3. \A i \in DOMAIN recon'.slots : recon'.slots[i] \in Int
    <3>1. CASE ReconcileLoad
      <4>1. \A i \in Existing : FreeSeats(sections[i]) \in Int
        BY DEF RowsTyped, Existing, SectionRow, FreeSeats, Max0
      <4> QED
        BY <3>1, <4>1 DEF ReconcileLoad
    <3>2. DOMAIN Idle.slots = {}
      BY DEF Idle
    <3>3. CASE ReconcileCompare
      BY <3>2, <3>3 DEF ReconcileCompare, Differing, CountersTyped
    <3>4. CASE ReconcileWrite
      BY <3>2, <3>4 DEF ReconcileWrite
    <3> QED
      BY <1>8, <3>1, <3>3, <3>4
  <2> QED
    BY <2>1, <2>2, <2>3 DEF TasksTyped, CountersTyped
<1>9. ASSUME ExpireList \/ \E k \in Keys : Expire(k)
      PROVE  TasksTyped' /\ CountersTyped'
  BY <1>9 DEF ExpireList, Expire, redisVars, TasksTyped, CountersTyped
<1>10. CASE UNCHANGED vars
  BY <1>10 DEF vars, redisVars, TasksTyped, CountersTyped
<1> QED
  BY <1>1, <1>2, <1>3, <1>4, <1>5, <1>6, <1>7, <1>8, <1>9, <1>10 DEF Next, AdminStep

TypeInv == RowsTyped /\ TasksTyped /\ CountersTyped

LEMMA TypeInit == Init => TypeInv
<1> SUFFICES ASSUME Init PROVE TypeInv
  OBVIOUS
<1>1. RowsTyped
  BY DEF Init, RowsTyped, Existing
<1>2. TasksTyped
  BY PlainTasks DEF Init, TasksTyped
<1>3. CountersTyped
  BY DEF Init, CountersTyped, Idle
<1> QED
  BY <1>1, <1>2, <1>3 DEF TypeInv

LEMMA TypeStep == TypeInv /\ [Next]_vars => TypeInv'
  BY RowsStayTyped, TasksAndCountersStayTyped DEF TypeInv

(* Every variable holds a value of its type, and the foreign keys hold:    *)
(* through creates, imports, updates and removals of any number of         *)
(* administrators at once, registrations and reconcile, no section is left *)
(* without its course and no batch item without its section.               *)
THEOREM CatalogTyped == Spec => []CatalogTypeOK
<1>1. TypeInv => CatalogTypeOK
  BY DEF TypeInv, RowsTyped, CountersTyped, CatalogTypeOK, Existing, SectionRow
<1> QED
  BY <1>1, TypeInit, TypeStep, PTL DEF Spec

----------------------------------------------------------------------------
(* One administrator: what an update was checked against is still there    *)
(* when it is written.                                                     *)

OneAdmin == \A p, q \in Admins : p = q

EditSteps == {"insert", "update", "remove", "forget", "forget_list", "course",
              "forget_courses"}
PlainSteps == {"idle", "lookup", "courses", "list_get", "list_load",
               "list_store", "list_slots"}

(* Only administrators edit; what one is about to write was validated,     *)
(* and the section it read, if still there, has the code it read.          *)
Prepared(p) ==
  /\ task[p].step \in EditSteps => p \in Admins
  /\ task[p].step \in {"update", "remove"} /\ sections[task[p].id] # NoRow
       => sections[task[p].id].code = task[p].code
  /\ task[p].step = "insert" => \A row \in task[p].rows : ValidSchedule(row)
  /\ task[p].step = "update" /\ sections[task[p].id] # NoRow
       => ValidSchedule(Patched(sections[task[p].id], task[p].patch))

(* A valid schedule stays one when the worker counts a seat. *)
LEMMA ScheduleOfCounted ==
  ASSUME NEW row \in SectionRow, NEW n \in Int
  PROVE  LET counted == [row EXCEPT !.count = n]
         IN  /\ ValidSchedule(counted) <=> ValidSchedule(row)
             /\ \A patch \in SectionPatches :
                  ValidSchedule(Patched(counted, patch)) <=> ValidSchedule(Patched(row, patch))
<1> DEFINE counted == [row EXCEPT !.count = n]
<1>1. /\ DOMAIN row = {"code", "course", "cap", "count", "day", "from", "to", "time"}
      /\ DOMAIN counted = DOMAIN row
      /\ \A f \in DOMAIN row : f # "count" => counted[f] = row[f]
  BY DEF SectionRow
<1>2. ValidSchedule(counted) <=> ValidSchedule(row)
  BY <1>1 DEF ValidSchedule
<1>3. ASSUME NEW patch \in SectionPatches
      PROVE  ValidSchedule(Patched(counted, patch)) <=> ValidSchedule(Patched(row, patch))
  <2>1. \A f \in {"day", "from", "to", "time"} :
          Patched(counted, patch)[f] = Patched(row, patch)[f]
    BY <1>1 DEF Patched
  <2> QED
    BY <2>1 DEF ValidSchedule
<1> QED
  BY <1>2, <1>3

LEMMA OthersWait ==
  ASSUME TasksTyped, NEW p \in Procs, NEW t, task' = [task EXCEPT ![p] = t]
  PROVE  task'[p] = t /\ \A q \in Procs : q # p => task'[q] = task[q]
  BY DEF TasksTyped

(* A visitor's request never comes to write rows. *)
LEMMA VisitsStayPlain ==
  ASSUME TypeInv, NEW p \in Procs,
         Visit(p) \/ VisitorStep(p) \/ ReadCacheFails(p) \/ ListFails(p)
  PROVE  /\ task[p].step \in PlainSteps
         /\ task'[p].step \in PlainSteps
         /\ \A q \in Procs : q # p => task'[q] = task[q]
<1>t. TasksTyped /\ task[p] \in Tasks
  BY DEF TypeInv, TasksTyped
<1>1. task[p].step \in PlainSteps
  BY DEF Visit, Visitor, NoTask, VisitorStep, ReadCacheFails, ListFails, ReadLoads,
         WriteLoadedSlots, ReadCache, Respond, ListGet, ListLoad, ListStore,
         ListSlots, Reading, Loaded, PlainSteps
<1>2. \/ UNCHANGED task
      \/ \E t : Goes(p, t) /\ t.step \in PlainSteps
  <2>1. CASE Visit(p)
    <3>1. /\ \A code : [step |-> "lookup", key |-> code, items |-> {}].step \in PlainSteps
          /\ [step |-> "courses", key |-> "courses", items |-> {}].step \in PlainSteps
          /\ [step |-> "list_get"].step \in PlainSteps
      BY DEF PlainSteps
    <3>2. CASE AskLookup(p)
      BY <3>1, <3>2 DEF AskLookup
    <3>3. CASE AskCourses(p)
      BY <3>1, <3>3 DEF AskCourses
    <3>4. CASE AskListing(p)
      BY <3>1, <3>4 DEF AskListing
    <3> QED
      BY <2>1, <3>2, <3>3, <3>4 DEF Visit
  <2>2. ASSUME NEW items, task[p].step = "lookup", Goes(p, [task[p] EXCEPT !.items = items])
        PROVE  \E t : Goes(p, t) /\ t.step \in PlainSteps
    <3>1. [task[p] EXCEPT !.items = items]
            = [step |-> "lookup", key |-> task[p].key, items |-> items]
      BY <1>t, <2>2, TaskFields
    <3>2. [step |-> "lookup", key |-> task[p].key, items |-> items].step \in PlainSteps
      BY DEF PlainSteps
    <3> QED
      BY <2>2, <3>1, <3>2
  <2>3. ASSUME task[p].step = "list_store", Goes(p, [task[p] EXCEPT !.step = "list_slots"])
        PROVE  \E t : Goes(p, t) /\ t.step \in PlainSteps
    <3>1. [task[p] EXCEPT !.step = "list_slots"]
            = [step |-> "list_slots", items |-> task[p].items]
      BY <1>t, <2>3, TaskFields
    <3>2. [step |-> "list_slots", items |-> task[p].items].step \in PlainSteps
      BY DEF PlainSteps
    <3> QED
      BY <2>3, <3>1, <3>2
  <2>4. CASE ReadLoads(p)
    BY <2>2, <2>4 DEF ReadLoads, LoadedItems
  <2>5. CASE WriteLoadedSlots(p)
    BY <2>2, <2>5 DEF WriteLoadedSlots, Loaded
  <2>6. CASE ReadCache(p) \/ ReadCacheFails(p)
    BY <2>6 DEF ReadCache, ReadCacheFails
  <2>7. CASE Respond(p) \/ ListGet(p) \/ ListLoad(p) \/ ListSlots(p)
    BY <2>7 DEF Respond, ListGet, ListLoad, ListSlots, NoTask, PlainSteps
  <2>8. CASE ListStore(p)
    BY <2>3, <2>8 DEF ListStore
  <2>9. CASE ListFails(p)
    <3>1. CASE Loaded(p) /\ Goes(p, [task[p] EXCEPT !.items = {}])
      BY <2>2, <3>1 DEF Loaded
    <3>2. CASE task[p].step = "list_store" /\ Goes(p, [task[p] EXCEPT !.step = "list_slots"])
      BY <2>3, <3>2
    <3>3. CASE Goes(p, [step |-> "list_load"]) \/ Goes(p, NoTask)
      BY <3>3 DEF NoTask, PlainSteps
    <3> QED
      BY <2>9, <3>1, <3>2, <3>3 DEF ListFails
  <2> QED
    BY <2>1, <2>4, <2>5, <2>6, <2>7, <2>8, <2>9 DEF VisitorStep
<1>3. CASE UNCHANGED task
  BY <1>1, <1>3
<1>4. ASSUME NEW t, Goes(p, t), t.step \in PlainSteps
      PROVE  task'[p].step \in PlainSteps /\ \A q \in Procs : q # p => task'[q] = task[q]
  BY <1>t, <1>4, OthersWait DEF Goes
<1> QED
  BY <1>1, <1>2, <1>3, <1>4

(* An administrator's step ends an edit or brings it further, and moves    *)
(* nobody else's.                                                          *)
LEMMA EditsMoveOn ==
  ASSUME TypeInv, NEW p \in Procs, AdminStep(p) \/ ForgetFails(p)
  PROVE  /\ task[p].step \in EditSteps
         /\ task'[p].step \in {"idle", "forget", "forget_list", "forget_courses"}
         /\ \A q \in Procs : q # p => task'[q] = task[q]
<1>t. TasksTyped
  BY DEF TypeInv
<1>1. task[p].step \in EditSteps
  BY DEF AdminStep, ForgetFails, Insert, Update, Remove, Forget, ForgetList,
         WriteCourse, ForgetCourses, EditSteps
<1> DEFINE Moved == /\ task'[p].step \in {"idle", "forget", "forget_list", "forget_courses"}
                    /\ \A q \in Procs : q # p => task'[q] = task[q]
<1>2. ASSUME NEW t, Goes(p, t), t.step \in {"idle", "forget", "forget_list", "forget_courses"}
      PROVE  Moved
  BY <1>t, <1>2, OthersWait DEF Goes
<1> HIDE DEF Moved
<1>3. ASSUME NEW codes, NEW ids,
             Goes(p, [step |-> "forget", codes |-> codes, ids |-> ids])
      PROVE  Moved
  <2>1. [step |-> "forget", codes |-> codes, ids |-> ids].step = "forget"
    OBVIOUS
  <2> QED
    BY <1>2, <1>3, <2>1
<1>4. ASSUME \/ Goes(p, NoTask)
             \/ Goes(p, [step |-> "forget_list"])
             \/ Goes(p, [step |-> "forget_courses"])
      PROVE  Moved
  <2>1. /\ NoTask.step = "idle"
        /\ [step |-> "forget_list"].step = "forget_list"
        /\ [step |-> "forget_courses"].step = "forget_courses"
    BY DEF NoTask
  <2> QED
    BY <1>2, <1>4, <2>1
<1>5. Moved
  <2>1. CASE Insert(p)
    <3> DEFINE rows == {r \in task[p].rows : ~ Collides(NoRow, r)}
               codes == {r.code : r \in task[p].rows}
    <3>1. \/ Goes(p, NoTask)
          \/ \E place \in [rows -> Sections \ Existing] :
               Goes(p, [step |-> "forget", codes |-> codes,
                        ids |-> IF task[p].skip THEN {}
                                ELSE {place[r] : r \in rows}])
      BY <2>1 DEF Insert
    <3> HIDE DEF rows, codes
    <3> QED
      BY <1>3, <1>4, <3>1
  <2>2. CASE Update(p)
    <3>1. \/ Goes(p, NoTask)
          \/ Goes(p, [step |-> "forget",
                      codes |-> {task[p].code,
                                 Patched(sections[task[p].id], task[p].patch).code},
                      ids |-> {task[p].id}])
      BY <2>2 DEF Update
    <3> QED
      BY <1>3, <1>4, <3>1
  <2>3. CASE Remove(p)
    BY <1>3, <1>4, <2>3 DEF Remove
  <2>4. CASE Forget(p) \/ ForgetList(p) \/ WriteCourse(p) \/ ForgetCourses(p)
    BY <1>4, <2>4 DEF Forget, ForgetList, WriteCourse, ForgetCourses
  <2>5. CASE ForgetFails(p)
    BY <1>4, <2>5 DEF ForgetFails
  <2> QED
    BY <2>1, <2>2, <2>3, <2>4, <2>5 DEF AdminStep
<1> QED
  BY <1>1, <1>5 DEF Moved

(* What an administrator asks is validated against the section as it is.   *)
LEMMA AsksArePrepared ==
  ASSUME TypeInv, NEW p \in Procs, AdminAsks(p)
  PROVE  /\ Prepared(p)'
         /\ task[p] = NoTask
         /\ \A q \in Procs : q # p => task'[q] = task[q]
         /\ task'[p].step \in {"insert", "update", "remove", "course"}
<1>t. TasksTyped
  BY DEF TypeInv
<1>0. ASSUME NEW t, Ask(p, t)
      PROVE  /\ p \in Admins
             /\ UNCHANGED sections
             /\ task[p] = NoTask
             /\ task'[p] = t
             /\ \A q \in Procs : q # p => task'[q] = task[q]
  BY <1>t, <1>0, OthersWait DEF Ask, Goes, dbVars
<1>1. CASE AskCreate(p)
  <2>1. PICK row \in SectionInputs :
          /\ ValidSchedule(row)
          /\ Ask(p, [step |-> "insert", rows |-> {row}, skip |-> FALSE])
    BY <1>1 DEF AskCreate
  <2> QED
    BY <1>0, <2>1 DEF Prepared
<1>2. CASE AskImport(p)
  <2>1. PICK rows \in Imports :
          /\ \A row \in rows : ValidSchedule(row)
          /\ Ask(p, [step |-> "insert", rows |-> rows, skip |-> TRUE])
    BY <1>2 DEF AskImport
  <2> QED
    BY <1>0, <2>1 DEF Prepared
<1>3. CASE AskUpdate(p)
  <2>1. PICK i \in Existing, patch \in SectionPatches :
          /\ ValidSchedule(Patched(sections[i], patch))
          /\ Ask(p, [step |-> "update", id |-> i, patch |-> patch, code |-> sections[i].code])
    BY <1>3 DEF AskUpdate
  <2>2. /\ p \in Admins
        /\ UNCHANGED sections
        /\ task[p] = NoTask
        /\ task'[p] = [step |-> "update", id |-> i, patch |-> patch, code |-> sections[i].code]
        /\ \A q \in Procs : q # p => task'[q] = task[q]
    BY <1>0, <2>1
  <2>3. ValidSchedule(Patched(sections'[task'[p].id], task'[p].patch))
    BY <2>1, <2>2
  <2> QED
    BY <2>2, <2>3 DEF Prepared
<1>4. CASE AskRemove(p)
  <2>1. PICK i \in Existing :
          Ask(p, [step |-> "remove", id |-> i, code |-> sections[i].code])
    BY <1>4 DEF AskRemove
  <2> QED
    BY <1>0, <2>1 DEF Prepared
<1>5. CASE AskCourse(p)
  BY <1>0, <1>5 DEF AskCourse, Prepared
<1> QED
  BY <1>1, <1>2, <1>3, <1>4, <1>5 DEF AdminAsks

(* The edit of the only administrator is written as it was validated.      *)
LEMMA EditsKeepSchedules ==
  ASSUME TypeInv, SchedulesWhole, NEW p \in Procs, Prepared(p),
         Insert(p) \/ Update(p) \/ Remove(p)
  PROVE  SchedulesWhole'
<1>1. CASE UNCHANGED sections
  BY <1>1 DEF SchedulesWhole, Existing
<1>2. CASE Insert(p)
  <2>1. \A row \in task[p].rows : ValidSchedule(row)
    BY <1>2 DEF Insert, Prepared
  <2> DEFINE rows == {r \in task[p].rows : ~ Collides(NoRow, r)}
  <2>2. \/ UNCHANGED sections
        \/ \E place \in [rows -> Sections \ Existing] :
              sections' = [i \in Sections |->
                      IF \E r \in rows : place[r] = i
                      THEN CHOOSE r \in rows : place[r] = i ELSE sections[i]]
    BY <1>2 DEF Insert
  <2>3. rows \subseteq task[p].rows
    OBVIOUS
  <2> HIDE DEF rows
  <2>4. \/ UNCHANGED sections
        \/ \A i \in Sections : sections'[i] = sections[i] \/ sections'[i] \in task[p].rows
    BY <2>2, <2>3
  <2> QED
    BY <1>1, <2>1, <2>4 DEF SchedulesWhole, Existing
<1>3. CASE Update(p)
  <2> DEFINE i   == task[p].id
             new == Patched(sections[i], task[p].patch)
  <2>1. i \in Sections
    BY <1>3, TaskFields DEF Update, TypeInv, TasksTyped
  <2>2. CASE sections[i] # NoRow /\ sections' = [sections EXCEPT ![i] = new]
    <3>1. ValidSchedule(new)
      BY <1>3, <2>2 DEF Update, Prepared
    <3> HIDE DEF new, i
    <3>2. /\ sections'[i] = new
          /\ \A j \in Sections : j # i => sections'[j] = sections[j]
      BY <2>1, <2>2 DEF TypeInv, RowsTyped
    <3> QED
      BY <3>1, <3>2 DEF SchedulesWhole, Existing
  <2> QED
    BY <1>1, <1>3, <2>2 DEF Update
<1>4. CASE Remove(p)
  <2>1. CASE sections' = [sections EXCEPT ![task[p].id] = NoRow]
    <3>1. \A j \in Sections : sections'[j] # NoRow => sections'[j] = sections[j]
      BY <2>1 DEF TypeInv, RowsTyped
    <3> QED
      BY <3>1 DEF SchedulesWhole, Existing
  <2> QED
    BY <1>1, <1>4, <2>1 DEF Remove
<1> QED
  BY <1>2, <1>3, <1>4

AllPrepared == \A p \in Procs : Prepared(p)

LEMMA PreparedKept ==
  ASSUME AllPrepared, NEW p \in Procs, UNCHANGED sections, UNCHANGED task
  PROVE  Prepared(p)'
  BY DEF AllPrepared, Prepared

LEMMA PreparedSettle ==
  ASSUME TypeInv, AllPrepared, NEW i \in Sections, Settle(i)
  PROVE  AllPrepared' /\ (SchedulesWhole => SchedulesWhole')
<1>1. CASE UNCHANGED sections
  BY <1>1, PreparedKept DEF Settle, AllPrepared, SchedulesWhole, Existing
<1>2. ASSUME NEW n \in Int,
             sections' = [sections EXCEPT ![i] = [sections[i] EXCEPT !.count = n]]
      PROVE  AllPrepared' /\ (SchedulesWhole => SchedulesWhole')
  <2> DEFINE row == [sections[i] EXCEPT !.count = n]
  <2>1. sections[i] \in SectionRow /\ i \in Existing
    BY SettleWrites DEF TypeInv, RowsTyped, Existing
  <2>2. /\ row \in SectionRow /\ row.code = sections[i].code
        /\ ValidSchedule(row) <=> ValidSchedule(sections[i])
        /\ \A patch \in SectionPatches :
             ValidSchedule(Patched(row, patch)) <=> ValidSchedule(Patched(sections[i], patch))
    BY <2>1, CountedRow, ScheduleOfCounted
  <2>3. sections' = [sections EXCEPT ![i] = row]
    BY <1>2
  <2> HIDE DEF row
  <2>4. /\ sections'[i] = row
        /\ \A j \in Sections : j # i => sections'[j] = sections[j]
    BY <2>3 DEF TypeInv, RowsTyped
  <2>5. SchedulesWhole => SchedulesWhole'
    BY <2>1, <2>2, <2>4 DEF SchedulesWhole, Existing
  <2>6. ASSUME NEW p \in Procs PROVE Prepared(p)'
    <3>1. Prepared(p) /\ task' = task
      BY DEF AllPrepared, Settle
    <3>2. task[p].step \in {"update", "remove"} => task[p].id \in Sections
      BY TaskFields DEF TypeInv, TasksTyped
    <3>3. task[p].step = "update" => task[p].patch \in SectionPatches
      BY TaskFields DEF TypeInv, TasksTyped
    <3>4. sections[i] # NoRow
      BY <2>1 DEF Existing
    <3> QED
      BY <2>2, <2>4, <3>1, <3>2, <3>3, <3>4 DEF Prepared
  <2> QED
    BY <2>5, <2>6 DEF AllPrepared
<1> QED
  BY <1>1, <1>2, SettleWrites DEF TypeInv

LEMMA SchedulesStep ==
  ASSUME OneAdmin, TypeInv, AllPrepared, [Next]_vars
  PROVE  AllPrepared' /\ (SchedulesWhole => SchedulesWhole')
<1>0. ASSUME UNCHANGED sections PROVE SchedulesWhole => SchedulesWhole'
  BY <1>0 DEF SchedulesWhole, Existing
<1>1. ASSUME NEW p \in Procs,
             Visit(p) \/ VisitorStep(p) \/ ReadCacheFails(p) \/ ListFails(p)
      PROVE  AllPrepared' /\ (SchedulesWhole => SchedulesWhole')
  <2>1. UNCHANGED sections
    BY <1>1 DEF Visit, VisitorStep, ReadCacheFails, ListFails, ReadLoads,
                WriteLoadedSlots, ReadCache, Respond,
                ListGet, ListLoad, ListStore, ListSlots, dbVars
  <2>2. Prepared(p)'
    BY <1>1, VisitsStayPlain DEF Prepared, PlainSteps, EditSteps
  <2>3. \A q \in Procs : q # p => Prepared(q)'
    BY <1>1, <2>1, VisitsStayPlain DEF AllPrepared, Prepared
  <2> QED
    BY <1>0, <2>1, <2>2, <2>3 DEF AllPrepared
<1>2. ASSUME NEW p \in Procs, AdminAsks(p)
      PROVE  AllPrepared' /\ (SchedulesWhole => SchedulesWhole')
  <2>1. UNCHANGED sections
    BY <1>2 DEF AdminAsks, AskCreate, AskImport, AskUpdate, AskRemove, AskCourse,
                Ask, dbVars
  <2>2. \A q \in Procs : q # p => Prepared(q)'
    BY <1>2, <2>1, AsksArePrepared DEF AllPrepared, Prepared
  <2> QED
    BY <1>0, <1>2, <2>1, <2>2, AsksArePrepared DEF AllPrepared
<1>3. ASSUME NEW p \in Procs, AdminStep(p) \/ ForgetFails(p)
      PROVE  AllPrepared' /\ (SchedulesWhole => SchedulesWhole')
  <2>1. /\ task[p].step \in EditSteps
        /\ task'[p].step \in {"idle", "forget", "forget_list", "forget_courses"}
        /\ \A q \in Procs : q # p => task'[q] = task[q]
    BY <1>3, EditsMoveOn
  <2>2. p \in Admins
    BY <2>1 DEF AllPrepared, Prepared
  <2>3. Prepared(p)'
    BY <2>1, <2>2 DEF Prepared
  <2>4. ASSUME NEW q \in Procs, q # p PROVE Prepared(q)'
    <3>1. task[q].step \notin EditSteps
      BY <2>2, <2>4 DEF AllPrepared, Prepared, OneAdmin
    <3> QED
      BY <2>1, <2>4, <3>1 DEF Prepared, EditSteps
  <2>5. CASE Insert(p) \/ Update(p) \/ Remove(p)
    <3>1. SchedulesWhole => SchedulesWhole'
      BY <2>5, EditsKeepSchedules DEF AllPrepared
    <3> QED
      BY <2>3, <2>4, <3>1 DEF AllPrepared
  <2>6. CASE \/ Forget(p) \/ ForgetList(p) \/ WriteCourse(p)
             \/ ForgetCourses(p) \/ ForgetFails(p)
    <3>1. UNCHANGED sections
      BY <2>6 DEF Forget, ForgetList, WriteCourse, ForgetCourses, ForgetFails, dbVars
    <3> QED
      BY <1>0, <2>3, <2>4, <3>1 DEF AllPrepared
  <2> QED
    BY <1>3, <2>5, <2>6 DEF AdminStep
<1>4. ASSUME NEW i \in Sections, Reserve(i) \/ Settle(i)
      PROVE  AllPrepared' /\ (SchedulesWhole => SchedulesWhole')
  <2>1. CASE Reserve(i)
    BY <1>0, <2>1, PreparedKept DEF Reserve, AllPrepared
  <2> QED
    BY <1>4, <2>1, PreparedSettle
<1>5. ASSUME \/ ReconcileLoad \/ ReconcileCompare \/ ReconcileWrite
             \/ ExpireList \/ \E k \in Keys : Expire(k)
      PROVE  AllPrepared' /\ (SchedulesWhole => SchedulesWhole')
  <2>1. UNCHANGED <<sections, task>>
    BY <1>5 DEF ReconcileLoad, ReconcileCompare, Differing, ReconcileWrite,
                ExpireList, Expire, dbVars
  <2> QED
    BY <1>0, <2>1, PreparedKept DEF AllPrepared
<1>6. CASE UNCHANGED vars
  BY <1>0, <1>6, PreparedKept DEF AllPrepared, vars, dbVars
<1> QED
  BY <1>1, <1>2, <1>3, <1>4, <1>5, <1>6 DEF Next

LEMMA PreparedInit == Init => AllPrepared
<1>1. NoTask.step = "idle"
  BY DEF NoTask
<1>2. Init => \A p \in Procs : task[p] = NoTask
  BY DEF Init
<1> QED
  BY <1>1, <1>2 DEF AllPrepared, Prepared, EditSteps

(* No request leaves a section with half a schedule or one that ends       *)
(* before it starts, although an update sends only some of its columns and *)
(* runs between registrations that write the same row: for one             *)
(* administrator at a time, and a database that starts with whole          *)
(* schedules.                                                              *)
THEOREM SchedulesStayWhole ==
  ASSUME OneAdmin,
         \A i \in Sections : InitialSections[i] # NoRow => ValidSchedule(InitialSections[i])
  PROVE  Spec => []SchedulesWhole
<1>1. Init => SchedulesWhole
  BY DEF Init, SchedulesWhole, Existing
<1>2. /\ TypeInv /\ AllPrepared /\ [Next]_vars => AllPrepared'
      /\ TypeInv /\ AllPrepared /\ SchedulesWhole /\ [Next]_vars => SchedulesWhole'
  BY SchedulesStep
<1> QED
  BY <1>1, <1>2, PreparedInit, TypeInit, TypeStep, PTL DEF Spec

----------------------------------------------------------------------------
(* What an administrator edits, as the queries show it.                    *)

Strip(i) == [id |-> i, row |-> [sections[i] EXCEPT !.count = 0]]

LEMMA EditedRows ==
  ASSUME NEW S
  PROVE  /\ Edited({WithCourse(i) : i \in S}) = {Strip(i) : i \in S}
         /\ Edited({WithCourse(i)' : i \in S}) = {Strip(i)' : i \in S}
<1>1. ASSUME NEW i
      PROVE  /\ [id |-> WithCourse(i).id, row |-> [WithCourse(i).row EXCEPT !.count = 0]]
                  = Strip(i)
             /\ [id |-> WithCourse(i)'.id, row |-> [WithCourse(i)'.row EXCEPT !.count = 0]]
                  = Strip(i)'
  BY DEF WithCourse, Strip
<1>2. Edited({WithCourse(i) : i \in S}) = {Strip(i) : i \in S}
  BY <1>1 DEF Edited
<1>3. Edited({WithCourse(i)' : i \in S}) = {Strip(i)' : i \in S}
  BY <1>1 DEF Edited
<1> QED
  BY <1>2, <1>3

(* A section that shows an administrator the same before and after a step. *)
SameSection(i) ==
  \/ sections'[i] = sections[i]
  \/ /\ sections[i] # NoRow /\ sections'[i] # NoRow
     /\ sections'[i].code = sections[i].code
     /\ [sections'[i] EXCEPT !.count = 0] = [sections[i] EXCEPT !.count = 0]

(* A step that writes sections of some codes only. *)
LEMMA OtherLookups ==
  ASSUME NEW K,
         \A i \in Sections :
            \/ SameSection(i)
            \/ /\ sections[i] # NoRow => sections[i].code \in K
               /\ sections'[i] # NoRow => sections'[i].code \in K,
         NEW k, k \notin K
  PROVE  Edited(Lookup(k))' = Edited(Lookup(k))
<1>1. PICK S : S = {j \in Existing : sections[j].code = k}
  OBVIOUS
<1>2. PICK T : T = {j \in Existing' : sections'[j].code = k}
  OBVIOUS
<1>3. S = T /\ \A i \in S : Strip(i)' = Strip(i)
  <2>1. \A i \in S : i \in Sections /\ sections[i] # NoRow /\ sections[i].code = k
    BY <1>1 DEF Existing
  <2>2. \A i \in T : i \in Sections /\ sections'[i] # NoRow /\ sections'[i].code = k
    BY <1>2 DEF Existing
  <2>3. \A i \in S \cup T : SameSection(i)
    BY <2>1, <2>2
  <2>4. \A i \in S : i \in T
    BY <1>2, <2>1, <2>3 DEF Existing, SameSection
  <2>5. \A i \in T : i \in S
    BY <1>1, <2>2, <2>3 DEF Existing, SameSection
  <2>6. \A i \in S : Strip(i)' = Strip(i)
    BY <2>3 DEF SameSection, Strip
  <2> QED
    BY <2>4, <2>5, <2>6
<1>4. /\ Lookup(k) = {WithCourse(i) : i \in S}
      /\ Lookup(k)' = {WithCourse(i)' : i \in T}
  BY <1>1, <1>2 DEF Lookup
<1>5. /\ Edited(Lookup(k)) = {Strip(i) : i \in S}
      /\ Edited(Lookup(k))' = {Strip(i)' : i \in S}
  BY <1>3, <1>4, EditedRows
<1> QED
  BY <1>3, <1>5

(* A step that edits no section. *)
LEMMA SameListing ==
  ASSUME \A i \in Sections : SameSection(i)
  PROVE  Edited(Listing)' = Edited(Listing)
<1>1. PICK S : S = Existing
  OBVIOUS
<1>2. PICK T : T = Existing'
  OBVIOUS
<1>3. S = T /\ \A i \in S : Strip(i)' = Strip(i)
  BY <1>1, <1>2 DEF Existing, SameSection, Strip
<1>4. /\ Listing = {WithCourse(i) : i \in S}
      /\ Listing' = {WithCourse(i)' : i \in T}
  BY <1>1, <1>2 DEF Listing
<1>5. /\ Edited(Listing) = {Strip(i) : i \in S}
      /\ Edited(Listing)' = {Strip(i)' : i \in S}
  BY <1>3, <1>4, EditedRows
<1> QED
  BY <1>3, <1>5

(* The values of a key that an administrator cannot tell from a fresh one. *)
View == [k \in Keys |-> IF k = "courses" THEN {CourseRows}
                        ELSE {items \in SUBSET Items : Edited(items) = Edited(Lookup(k))}]

Forgotten == {k \in Keys \cup {"list"} : Forgetting(k)}

ListCurrent ==
  /\ \A p \in Procs : task[p].step = "list_store" /\ "list" \notin suspect
                        => Edited(task[p].items) = Edited(Listing)
  /\ Exact("list") /\ list # Missing => Edited(list) = Edited(Listing)

(* Every fill that no commit has overtaken holds, and every cache that is  *)
(* not about to be forgotten has, what a query shows now.                  *)
ViewInv ==
  /\ LockInv
  /\ FillsWithin(View, suspect)
  /\ CacheWithin(View, suspect \cup Forgotten)
  /\ ListCurrent

LEMMA ViewInit == Init => ViewInv
<1> SUFFICES ASSUME Init PROVE ViewInv
  OBVIOUS
<1>1. LockInv /\ FillsWithin(View, suspect) /\ CacheWithin(View, suspect \cup Forgotten)
  BY LockInvInit, WithinInit DEF Init
<1>2. NoTask.step # "list_store"
  BY DEF NoTask
<1>3. ListCurrent
  BY <1>2 DEF Init, ListCurrent
<1> QED
  BY <1>1, <1>3 DEF ViewInv

LEMMA ViewIsCurrent == ASSUME ViewInv PROVE CatalogCurrent
<1>1. \A k \in Keys : Exact(k) => k \notin suspect \cup Forgotten
  BY DEF Exact, Forgotten
<1>2. ASSUME NEW k \in Codes, Exact(k), cache[k] # Missing
      PROVE  Edited(cache[k]) = Edited(Lookup(k))
  <2>1. cache[k] \in View[k] /\ k # "courses"
    BY <1>1, <1>2 DEF ViewInv, CacheWithin
  <2> QED
    BY <2>1 DEF View
<1>3. ASSUME Exact("courses")
      PROVE  cache["courses"] \in {Missing, CourseRows}
  <2>1. View["courses"] = {CourseRows}
    BY DEF View
  <2> QED
    BY <1>1, <1>3, <2>1 DEF ViewInv, CacheWithin
<1> QED
  BY <1>2, <1>3 DEF ViewInv, ListCurrent, CatalogCurrent

(* The keys whose sections a step leaves alone. *)
LEMMA CodesKept ==
  ASSUME NEW K,
         \A i \in Sections :
            \/ SameSection(i)
            \/ /\ sections[i] # NoRow => sections[i].code \in K
               /\ sections'[i] # NoRow => sections'[i].code \in K
  PROVE  \A k \in Codes \ K : View'[k] = View[k]
<1> SUFFICES ASSUME NEW k \in Codes \ K PROVE View'[k] = View[k]
  OBVIOUS
<1>1. Edited(Lookup(k))' = Edited(Lookup(k))
  BY OtherLookups
<1>2. PICK e : e = Edited(Lookup(k))
  OBVIOUS
<1>3. k \in Keys /\ k # "courses"
  OBVIOUS
<1>4. View[k] = {items \in SUBSET Items : Edited(items) = e}
  BY <1>2, <1>3 DEF View
<1>5. View'[k] = {items \in SUBSET Items : Edited(items) = e}
  BY <1>1, <1>2, <1>3 DEF View
<1> QED
  BY <1>4, <1>5

LEMMA SameRows ==
  ASSUME UNCHANGED <<sections, courses>>
  PROVE  View' = View /\ Listing' = Listing
  BY DEF View, CourseRows, Lookup, Listing, Existing, WithCourse, Edited

(* A query shows what it shows. *)
LEMMA QueriedView ==
  ASSUME RowsTyped
  PROVE  \A k \in Keys : db[k] \in View[k]
  BY QueriedItems DEF db, View

(* What is fresh, and what is to be forgotten, when tasks move. *)
LEMMA VisitsKeepForgotten ==
  ASSUME TypeInv, NEW p \in Procs,
         Visit(p) \/ VisitorStep(p) \/ ReadCacheFails(p) \/ ListFails(p)
  PROVE  Forgotten' = Forgotten
<1>1. \A q \in Procs : \/ task'[q] = task[q]
                       \/ /\ task[q].step \notin {"forget", "forget_list", "forget_courses"}
                          /\ task'[q].step \notin {"forget", "forget_list", "forget_courses"}
  BY VisitsStayPlain DEF PlainSteps
<1>2. PICK F : F = Forgotten
  OBVIOUS
<1>3. PICK G : G = Forgotten'
  OBVIOUS
<1>4. ASSUME NEW k \in Keys \cup {"list"} PROVE k \in F <=> k \in G
  BY <1>1, <1>2, <1>3 DEF Forgotten, Forgetting
<1>5. F \subseteq Keys \cup {"list"} /\ G \subseteq Keys \cup {"list"}
  BY <1>2, <1>3 DEF Forgotten
<1> QED
  BY <1>2, <1>3, <1>4, <1>5

(* A visitor's read, to its answer. *)
LEMMA ReadsKeepView ==
  ASSUME TypeInv, ViewInv, NEW p \in Procs,
         ReadLoads(p) \/ ReadCache(p) \/ ReadCacheFails(p) \/ Respond(p)
  PROVE  ViewInv'
<1>0. VisitorStep(p) \/ ReadCacheFails(p)
  BY DEF VisitorStep
<1>1. UNCHANGED <<sections, courses, suspect, list>>
  BY DEF ReadLoads, ReadCache, ReadCacheFails, Respond, dbVars, redisVars
<1>2. View' = View /\ Listing' = Listing /\ Forgotten' = Forgotten
  BY <1>0, <1>1, SameRows, VisitsKeepForgotten
<1>3. PICK v : v = View
  OBVIOUS
<1>4. PICK s : s = suspect
  OBVIOUS
<1>5. PICK u : u = suspect \cup Forgotten
  OBVIOUS
<1>6. PICK d : d = db
  OBVIOUS
<1>7. \A k \in Keys : d[k] \in v[k]
  BY <1>3, <1>6, QueriedView DEF TypeInv
<1>8. FillsWithin(v, s) /\ CacheWithin(v, u) /\ LockInv /\ s \subseteq u
  BY <1>3, <1>4, <1>5 DEF ViewInv
<1>9. LockInv' /\ FillsWithin(v, s)' /\ CacheWithin(v, u)'
  <2>1. ASSUME NEW k, Get(p, k) \/ GetFails(p, k)
        PROVE  LockInv' /\ FillsWithin(v, s)' /\ CacheWithin(v, u)'
    <3>1. LockInv' /\ FillsWithin(v, s)' /\ UNCHANGED cache
      BY <2>1, <1>8, GetStep, GetStaysWithin
    <3> QED
      BY <3>1, <1>8 DEF CacheWithin
  <2>2. CASE ReadStep(p, d)
    BY <2>2, <1>7, <1>8, ReadStepKeepsLock, ReadStepKeepsWithin
  <2>3. CASE ReadFault(p)
    BY <2>3, <1>8, ReadFaultKeepsLock, ReadFaultKeepsWithin
  <2>4. CASE Respond(p)
    <3>1. fill' = [fill EXCEPT ![p] = NoCall] /\ UNCHANGED <<cache, lock, expired>>
      BY <2>4 DEF Respond
    <3>2. NoCall.at # "store"
      BY DEF NoCall
    <3>3. LockInv' /\ FillsWithin(v, s)'
      BY <3>1, <3>2, <1>8, AnswerTaken, FillsStayWithin DEF LockInv
    <3> QED
      BY <3>1, <3>3, <1>8 DEF CacheWithin
  <2>5. \/ \E k : Get(p, k) \/ GetFails(p, k)
        \/ ReadStep(p, d) \/ ReadFault(p) \/ Respond(p)
    BY <1>6 DEF ReadLoads, ReadCache, ReadCacheFails, ReadStep
  <2> QED
    BY <2>1, <2>2, <2>3, <2>4, <2>5
<1>10. FillsWithin(View, suspect)' /\ CacheWithin(View, suspect \cup Forgotten)'
  BY <1>1, <1>2, <1>3, <1>4, <1>5, <1>9 DEF FillsWithin, CacheWithin
<1>11. ListCurrent'
  <2>1. task'[p].step # "list_store"
    <3>1. task[p] \in Tasks /\ TasksTyped
      BY DEF TypeInv, TasksTyped
    <3>2. CASE ReadLoads(p)
      <4>1. CASE task[p].step = "lookup"
        <5>1. PICK items \in SUBSET Items : items = db[task[p].key]
          <6>1. task[p].key \in Codes
            BY <3>1, <4>1, TaskFields
          <6> QED
            BY <6>1, QueriedItems DEF TypeInv, db
        <5>2. Goes(p, [task[p] EXCEPT !.items = items])
          BY <3>2, <4>1, <5>1 DEF ReadLoads, LoadedItems
        <5>3. task'[p] = [step |-> "lookup", key |-> task[p].key, items |-> items]
          BY <3>1, <4>1, <5>2, LookupWith, GoesTyped
        <5> QED
          BY <5>3
      <4>2. CASE task[p].step = "courses"
        BY <3>2, <4>2 DEF ReadLoads, LoadedItems
      <4> QED
        BY <3>2, <4>1, <4>2 DEF ReadLoads, Reading
    <3>3. CASE ReadCache(p) \/ ReadCacheFails(p)
      BY <3>3 DEF ReadCache, ReadCacheFails, Reading
    <3>4. CASE Respond(p)
      <4>1. task'[p] = NoTask
        BY <3>1, <3>4, PlainTasks, GoesTyped DEF Respond
      <4> QED
        BY <4>1 DEF NoTask
    <3> QED
      BY <3>2, <3>3, <3>4
  <2>2. \A q \in Procs : task'[q].step = "list_store" => task'[q] = task[q]
    BY <1>0, <2>1, VisitsStayPlain
  <2>3. Exact("list")' <=> Exact("list")
    BY <1>1, <1>2 DEF Exact, Forgotten
  <2> QED
    BY <1>1, <1>2, <2>2, <2>3 DEF ViewInv, ListCurrent
<1> QED
  BY <1>9, <1>10, <1>11 DEF ViewInv

(* The rest of what visitors do: the listing, and slot counters. *)
LEMMA VisitsKeepView ==
  ASSUME TypeInv, ViewInv, NEW p \in Procs,
         \/ Visit(p) \/ WriteLoadedSlots(p) \/ ListGet(p) \/ ListLoad(p)
         \/ ListStore(p) \/ ListSlots(p) \/ ListFails(p)
  PROVE  ViewInv'
<1>0. Visit(p) \/ VisitorStep(p) \/ ListFails(p)
  BY DEF VisitorStep
<1>1. UNCHANGED <<sections, courses, suspect, readVars>>
  BY DEF Visit, WriteLoadedSlots, ListGet, ListLoad, ListStore, ListSlots, ListFails,
         dbVars
<1>2. View' = View /\ Listing' = Listing /\ Forgotten' = Forgotten
  BY <1>0, <1>1, SameRows, VisitsKeepForgotten
<1>3. LockInv' /\ FillsWithin(View, suspect)' /\ CacheWithin(View, suspect \cup Forgotten)'
  <2>1. LockInv'
    BY <1>1, LockInvIdle DEF ViewInv, readVars
  <2>2. FillsWithin(View, suspect)'
    BY <1>1, <1>2 DEF ViewInv, readVars, FillsWithin, Storing
  <2>3. CacheWithin(View, suspect \cup Forgotten)'
    BY <1>1, <1>2 DEF ViewInv, readVars, CacheWithin
  <2> QED
    BY <2>1, <2>2, <2>3
<1>4. Exact("list")' <=> Exact("list")
  BY <1>1, <1>2 DEF Exact, Forgotten
<1>5. \A q \in Procs : q # p => task'[q] = task[q]
  BY <1>0, VisitsStayPlain
<1>6. task[p] \in Tasks /\ TasksTyped
  BY DEF TypeInv, TasksTyped
<1>7. ASSUME UNCHANGED list, task'[p].step # "list_store"
      PROVE  ListCurrent'
  BY <1>1, <1>2, <1>4, <1>5, <1>7 DEF ViewInv, ListCurrent
<1>8. ASSUME task[p].step = "list_store",
             Goes(p, [task[p] EXCEPT !.step = "list_slots"])
      PROVE  task'[p].step # "list_store"
  <2>1. [task[p] EXCEPT !.step = "list_slots"]
          = [step |-> "list_slots", items |-> task[p].items]
    BY <1>6, <1>8, TaskFields
  <2>2. [step |-> "list_slots", items |-> task[p].items].step = "list_slots"
    OBVIOUS
  <2>3. task'[p] = [step |-> "list_slots", items |-> task[p].items]
    BY <1>6, <1>8, <2>1, OthersWait DEF Goes
  <2> QED
    BY <2>2, <2>3
<1>9. ASSUME task[p].step = "lookup", Goes(p, [task[p] EXCEPT !.items = {}])
      PROVE  task'[p].step # "list_store"
  <2>1. [task[p] EXCEPT !.items = {}] = [step |-> "lookup", key |-> task[p].key, items |-> {}]
    <3>1. {} \in SUBSET Items
      OBVIOUS
    <3> QED
      BY <1>6, <1>9, <3>1, LookupWith
  <2>2. [step |-> "lookup", key |-> task[p].key, items |-> {}].step = "lookup"
    OBVIOUS
  <2>3. task'[p] = [step |-> "lookup", key |-> task[p].key, items |-> {}]
    BY <1>6, <1>9, <2>1, OthersWait DEF Goes
  <2> QED
    BY <2>2, <2>3
<1>10. ASSUME NEW t, Goes(p, t), t.step # "list_store"
       PROVE  task'[p].step # "list_store"
  BY <1>6, <1>10, OthersWait DEF Goes
<1>11. /\ NoTask.step # "list_store"
       /\ [step |-> "list_get"].step # "list_store"
       /\ [step |-> "list_load"].step # "list_store"
  BY DEF NoTask
<1> SUFFICES ListCurrent'
  BY <1>3 DEF ViewInv
<1>12. CASE Visit(p)
  <2>1. /\ \A code : [step |-> "lookup", key |-> code, items |-> {}].step # "list_store"
        /\ [step |-> "courses", key |-> "courses", items |-> {}].step # "list_store"
    OBVIOUS
  <2>2. task'[p].step # "list_store"
    <3>1. CASE AskLookup(p)
      BY <1>10, <2>1, <3>1 DEF AskLookup
    <3>2. CASE AskCourses(p)
      BY <1>10, <2>1, <3>2 DEF AskCourses
    <3>3. CASE AskListing(p)
      BY <1>10, <1>11, <3>3 DEF AskListing
    <3> QED
      BY <1>12, <3>1, <3>2, <3>3 DEF Visit
  <2> QED
    BY <1>7, <1>12, <2>2 DEF Visit, redisVars
<1>13. CASE WriteLoadedSlots(p)
  BY <1>7, <1>9, <1>13 DEF WriteLoadedSlots, Loaded
<1>14. CASE ListGet(p)
  <2>1. [step |-> "list_slots", items |-> list].step # "list_store"
    OBVIOUS
  <2>2. \/ Goes(p, [step |-> "list_slots", items |-> list])
        \/ Goes(p, [step |-> "list_load"])
    BY <1>14 DEF ListGet
  <2> QED
    BY <1>7, <1>10, <1>11, <1>14, <2>1, <2>2 DEF ListGet, redisVars
<1>15. CASE ListLoad(p)
  <2>1. task'[p] = [step |-> "list_store", items |-> Listing]
    BY <1>6, <1>15, OthersWait DEF ListLoad, Goes
  <2>2. [step |-> "list_store", items |-> Listing].items = Listing
    OBVIOUS
  <2>3. task'[p].items = Listing /\ UNCHANGED list
    BY <1>15, <2>1, <2>2 DEF ListLoad, redisVars
  <2> QED
    BY <1>1, <1>2, <1>4, <1>5, <2>3 DEF ViewInv, ListCurrent
<1>16. CASE ListStore(p)
  <2>1. /\ task[p].step = "list_store" /\ list' = task[p].items
        /\ task'[p].step # "list_store"
    BY <1>8, <1>16 DEF ListStore
  <2>2. Exact("list") => "list" \notin suspect
    BY DEF Exact
  <2> QED
    BY <1>1, <1>2, <1>4, <1>5, <2>1, <2>2 DEF ViewInv, ListCurrent
<1>17. CASE ListSlots(p)
  BY <1>7, <1>10, <1>11, <1>17 DEF ListSlots
<1>18. CASE ListFails(p)
  <2>1. UNCHANGED list
    BY <1>18 DEF ListFails, redisVars
  <2>2. CASE Loaded(p) /\ Goes(p, [task[p] EXCEPT !.items = {}])
    BY <1>7, <1>9, <2>1, <2>2 DEF Loaded
  <2>3. CASE task[p].step = "list_store" /\ Goes(p, [task[p] EXCEPT !.step = "list_slots"])
    BY <1>7, <1>8, <2>1, <2>3
  <2>4. CASE Goes(p, [step |-> "list_load"]) \/ Goes(p, NoTask)
    BY <1>7, <1>10, <1>11, <2>1, <2>4
  <2> QED
    BY <1>18, <2>2, <2>3, <2>4 DEF ListFails
<1> QED
  BY <1>12, <1>13, <1>14, <1>15, <1>16, <1>17, <1>18

(* What any other step may do: change what the keys of K show, if they are *)
(* about to be forgotten and their fills are suspect; empty a cache; take  *)
(* nothing off the keys that are suspect or about to be forgotten.         *)
LEMMA ViewKept ==
  ASSUME ViewInv, UNCHANGED <<lock, fill, expired>>,
         DOMAIN cache' = Keys, suspect \subseteq suspect',
         NEW K,
         \A k \in Keys \ K : View'[k] = View[k],
         \A k \in K : k \in Forgotten' /\ \A q \in Procs : Storing(q, k) => k \in suspect',
         \A k \in Keys :
            \/ cache'[k] = Missing
            \/ /\ cache'[k] = cache[k]
               /\ k \in suspect \cup Forgotten => k \in suspect' \cup Forgotten',
         \/ Edited(Listing)' = Edited(Listing)
         \/ /\ "list" \in Forgotten'
            /\ \A q \in Procs : task[q].step = "list_store" => "list" \in suspect',
         \/ list' = Missing
         \/ /\ list' = list
            /\ "list" \in suspect \cup Forgotten => "list" \in suspect' \cup Forgotten',
         \A q \in Procs : task'[q].step = "list_store" => task'[q] = task[q]
  PROVE  ViewInv'
<1>1. LockInv'
  BY LockInvIdle DEF ViewInv
<1>2. FillsWithin(View, suspect)'
  <2> SUFFICES ASSUME NEW q \in Procs, NEW k \in Keys, Storing(q, k)', k \notin suspect'
               PROVE  fill'[q].value \in View'[k]
    BY DEF FillsWithin
  <2>1. Storing(q, k) /\ k \notin suspect
    BY DEF Storing
  <2>2. k \notin K
    BY <2>1
  <2> QED
    BY <2>1, <2>2 DEF ViewInv, FillsWithin
<1>3. CacheWithin(View, suspect \cup Forgotten)'
  BY DEF ViewInv, CacheWithin
<1>4. Exact("list")' <=> "list" \notin suspect' \cup Forgotten'
  BY DEF Exact, Forgotten
<1>5. Exact("list") <=> "list" \notin suspect \cup Forgotten
  BY DEF Exact, Forgotten
<1>6. ListCurrent'
  BY <1>4, <1>5 DEF ViewInv, ListCurrent
<1> QED
  BY <1>1, <1>2, <1>3, <1>6 DEF ViewInv

(* What one process is about to forget. *)
Owed(p) ==
  {k \in Keys \cup {"list"} :
     \/ task[p].step = "forget" /\ k \in task[p].codes \cup {"list"}
     \/ task[p].step = "forget_list" /\ k = "list"
     \/ task[p].step = "forget_courses" /\ k = "courses"}

LEMMA ForgottenByOne ==
  ASSUME NEW p \in Procs, \A q \in Procs : q # p => task'[q] = task[q]
  PROVE  /\ Forgotten \subseteq Forgotten' \cup Owed(p)
         /\ Owed(p)' \subseteq Forgotten'
<1>1. ASSUME NEW k \in Forgotten, k \notin Owed(p)
      PROVE  k \in Forgotten'
  <2>1. k \in Keys \cup {"list"} /\ Forgetting(k)
    BY <1>1 DEF Forgotten
  <2>2. PICK q \in Procs :
          \/ task[q].step = "forget" /\ k \in task[q].codes \cup {"list"}
          \/ task[q].step = "forget_list" /\ k = "list"
          \/ task[q].step = "forget_courses" /\ k = "courses"
    BY <2>1 DEF Forgetting
  <2>3. q # p
    BY <1>1, <2>1, <2>2 DEF Owed
  <2> QED
    BY <2>1, <2>2, <2>3 DEF Forgotten, Forgetting
<1>2. Owed(p)' \subseteq Forgotten'
  BY DEF Owed, Forgotten, Forgetting
<1> QED
  BY <1>1, <1>2

(* Who has nothing to forget: everybody before a commit. *)
LEMMA OwedAtNothing ==
  ASSUME NEW p \in Procs,
         task[p].step \notin {"forget", "forget_list", "forget_courses"}
  PROVE  Owed(p) = {}
  BY DEF Owed

(* A step that leaves rows, caches and fills alone. *)
LEMMA ViewAtRest ==
  ASSUME ViewInv, UNCHANGED <<readVars, sections, courses>>,
         suspect \subseteq suspect',
         Forgotten \subseteq suspect' \cup Forgotten',
         list' = list \/ list' = Missing,
         \A q \in Procs : task'[q].step = "list_store" => task'[q] = task[q]
  PROVE  ViewInv'
<1>1. View' = View /\ Listing' = Listing
  BY SameRows
<1>2. Edited(Listing)' = Edited(Listing)
  BY <1>1 DEF Edited
<1>3. /\ UNCHANGED <<lock, fill, expired>> /\ cache' = cache
      /\ DOMAIN cache = Keys
  BY DEF readVars, ViewInv, CacheWithin
<1>4. \A k \in Keys \ {} : View'[k] = View[k]
  BY <1>1
<1> QED
  BY <1>2, <1>3, <1>4, ViewKept

LEMMA AsksKeepView ==
  ASSUME TypeInv, ViewInv, NEW p \in Procs, AdminAsks(p)
  PROVE  ViewInv'
<1>1. /\ UNCHANGED <<readVars, sections, courses, suspect, list>>
  BY DEF AdminAsks, AskCreate, AskImport, AskUpdate, AskRemove, AskCourse,
         Ask, dbVars, redisVars
<1>2. /\ task[p].step = "idle"
      /\ task'[p].step \in {"insert", "update", "remove", "course"}
      /\ \A q \in Procs : q # p => task'[q] = task[q]
  BY AsksArePrepared DEF NoTask
<1>3. Forgotten \subseteq Forgotten'
  BY <1>2, ForgottenByOne, OwedAtNothing
<1> QED
  BY <1>1, <1>2, <1>3, ViewAtRest

(* A commit, with what the administrator then forgets. *)
LEMMA CommitKeepsView ==
  ASSUME TypeInv, ViewInv, NEW p \in Procs,
         task[p].step \in {"insert", "update", "remove"},
         NEW codes \in SUBSET Codes, NEW ids, NEW K \in SUBSET codes,
         UNCHANGED <<readVars, courses, list>>,
         Overtakes(K, TRUE),
         Goes(p, [step |-> "forget", codes |-> codes, ids |-> ids]),
         \A i \in Sections :
            \/ SameSection(i)
            \/ /\ sections[i] # NoRow => sections[i].code \in K
               /\ sections'[i] # NoRow => sections'[i].code \in K
  PROVE  ViewInv'
<1> DEFINE t == [step |-> "forget", codes |-> codes, ids |-> ids]
<1>1. t.step = "forget" /\ t.codes = codes
  OBVIOUS
<1>2. task'[p] = t /\ \A q \in Procs : q # p => task'[q] = task[q]
  BY OthersWait DEF Goes, TypeInv
<1> HIDE DEF t
<1>3. task'[p].step = "forget" /\ task'[p].codes = codes
  BY <1>1, <1>2
<1>4. Forgotten \subseteq Forgotten'
  BY <1>2, ForgottenByOne, OwedAtNothing
<1>5. codes \cup {"list"} \subseteq Forgotten'
  <2>1. codes \cup {"list"} \subseteq Owed(p)'
    BY <1>3 DEF Owed
  <2> QED
    BY <1>2, <2>1, ForgottenByOne
<1>6. \A k \in Keys \ K : View'[k] = View[k]
  <2>1. \A k \in Codes \ K : View'[k] = View[k]
    BY CodesKept
  <2>2. View'["courses"] = View["courses"]
    BY DEF View, CourseRows
  <2> QED
    BY <2>1, <2>2
<1>7. \A k \in K : k \in Forgotten' /\ \A q \in Procs : Storing(q, k) => k \in suspect'
  BY <1>5 DEF Overtakes
<1>8. /\ suspect \subseteq suspect'
      /\ \A q \in Procs : task[q].step = "list_store" => "list" \in suspect'
  BY DEF Overtakes
<1>9. /\ UNCHANGED <<lock, fill, expired>> /\ cache' = cache
      /\ DOMAIN cache = Keys
  BY DEF readVars, ViewInv, CacheWithin
<1>10. \A q \in Procs : task'[q].step = "list_store" => task'[q] = task[q]
  BY <1>2, <1>3
<1> QED
  BY <1>4, <1>5, <1>6, <1>7, <1>8, <1>9, <1>10, ViewKept

(* A statement that is refused. *)
LEMMA RefusalKeepsView ==
  ASSUME TypeInv, ViewInv, NEW p \in Procs,
         task[p].step \in {"insert", "update", "remove"},
         UNCHANGED <<readVars, sections, courses, suspect, list>>, Goes(p, NoTask)
  PROVE  ViewInv'
<1>1. task'[p] = NoTask /\ \A q \in Procs : q # p => task'[q] = task[q]
  BY OthersWait DEF Goes, TypeInv
<1>2. NoTask.step # "list_store"
  BY DEF NoTask
<1>3. Forgotten \subseteq Forgotten'
  BY <1>1, ForgottenByOne, OwedAtNothing
<1> QED
  BY <1>1, <1>2, <1>3, ViewAtRest

LEMMA InsertKeepsView ==
  ASSUME TypeInv, ViewInv, NEW p \in Procs, Insert(p)
  PROVE  ViewInv'
<1>1. /\ UNCHANGED <<readVars, courses, list>>
      /\ task[p].step = "insert"
  BY DEF Insert, redisVars
<1>2. \A r \in task[p].rows : r \in SectionRow /\ r.code \in Codes
  <2>1. task[p] \in Tasks
    BY DEF TypeInv, TasksTyped
  <2> QED
    BY <1>1, <2>1, TaskFields DEF SectionRow
<1> DEFINE rows  == {r \in task[p].rows : ~ Collides(NoRow, r)}
           codes == {r.code : r \in task[p].rows}
           keys  == {r.code : r \in rows}
<1>3. /\ codes \subseteq Codes /\ keys \subseteq codes
      /\ \A r \in rows : r.code \in keys
  BY <1>2
<1>4. \/ Goes(p, NoTask) /\ UNCHANGED <<sections, suspect>>
      \/ /\ \E place \in [rows -> Sections \ Existing] :
              /\ sections' = [i \in Sections |->
                      IF \E r \in rows : place[r] = i
                      THEN CHOOSE r \in rows : place[r] = i ELSE sections[i]]
              /\ Goes(p, [step |-> "forget", codes |-> codes,
                          ids |-> IF task[p].skip THEN {}
                                  ELSE {place[r] : r \in rows}])
         /\ Overtakes(keys, TRUE)
  BY DEF Insert
<1> HIDE DEF rows, codes, keys
<1>5. CASE Goes(p, NoTask) /\ UNCHANGED <<sections, suspect>>
  BY <1>1, <1>5, RefusalKeepsView
<1>6. ASSUME NEW place \in [rows -> Sections \ Existing],
             sections' = [i \in Sections |->
                      IF \E r \in rows : place[r] = i
                      THEN CHOOSE r \in rows : place[r] = i ELSE sections[i]],
             Goes(p, [step |-> "forget", codes |-> codes,
                      ids |-> IF task[p].skip THEN {}
                              ELSE {place[r] : r \in rows}]),
             Overtakes(keys, TRUE)
      PROVE  ViewInv'
  <2>1. ASSUME NEW i \in Sections
        PROVE  \/ SameSection(i)
               \/ /\ sections[i] # NoRow => sections[i].code \in keys
                  /\ sections'[i] # NoRow => sections'[i].code \in keys
    <3>1. CASE \E r \in rows : place[r] = i
      <4>1. sections'[i] \in rows /\ sections[i] = NoRow
        BY <1>6, <3>1 DEF Existing
      <4> QED
        BY <1>3, <4>1
    <3>2. CASE ~ \E r \in rows : place[r] = i
      BY <1>6, <3>2 DEF SameSection
    <3> QED
      BY <3>1, <3>2
  <2>2. PICK ids : ids = IF task[p].skip THEN {} ELSE {place[r] : r \in rows}
    OBVIOUS
  <2>3. Goes(p, [step |-> "forget", codes |-> codes, ids |-> ids])
    BY <1>6, <2>2
  <2>4. PICK c, k : c = codes /\ k = keys
    OBVIOUS
  <2>5. /\ Goes(p, [step |-> "forget", codes |-> c, ids |-> ids])
        /\ Overtakes(k, TRUE) /\ c \in SUBSET Codes /\ k \in SUBSET c
    BY <1>3, <1>6, <2>3, <2>4
  <2>6. \A i \in Sections :
            \/ SameSection(i)
            \/ /\ sections[i] # NoRow => sections[i].code \in k
               /\ sections'[i] # NoRow => sections'[i].code \in k
    BY <2>1, <2>4
  <2> QED
    BY <1>1, <2>5, <2>6, CommitKeepsView
<1> QED
  BY <1>4, <1>5, <1>6

LEMMA UpdateKeepsView ==
  ASSUME TypeInv, ViewInv, NEW p \in Procs, Prepared(p), Update(p)
  PROVE  ViewInv'
<1>1. /\ UNCHANGED <<readVars, courses, list>>
      /\ task[p].step = "update"
  BY DEF Update, redisVars
<1>2. PICK i \in Sections : i = task[p].id
  BY <1>1, TaskFields DEF TypeInv, TasksTyped
<1>3. task[p].patch \in SectionPatches
  BY <1>1, TaskFields DEF TypeInv, TasksTyped
<1>4. PICK new : new = Patched(sections[i], task[p].patch)
  OBVIOUS
<1>5. CASE Goes(p, NoTask) /\ UNCHANGED <<sections, suspect>>
  BY <1>1, <1>5, RefusalKeepsView
<1>6. CASE /\ sections[i] # NoRow
           /\ sections' = [sections EXCEPT ![i] = new]
           /\ Overtakes({sections[i].code, new.code}, TRUE)
           /\ Goes(p, [step |-> "forget", codes |-> {task[p].code, new.code},
                       ids |-> {i}])
  <2>1. PICK old : old = sections[i]
    OBVIOUS
  <2>2. old \in SectionRow /\ new \in SectionRow
    BY <1>3, <1>4, <1>6, <2>1, PatchedRow DEF TypeInv, RowsTyped
  <2>3. PICK K \in SUBSET Codes : K = {old.code, new.code}
    BY <2>2 DEF SectionRow
  <2>4. task[p].code = old.code
    BY <1>1, <1>2, <1>6, <2>1 DEF Prepared
  <2>5. /\ Overtakes(K, TRUE)
        /\ Goes(p, [step |-> "forget", codes |-> K, ids |-> {i}])
    BY <1>6, <2>1, <2>3, <2>4
  <2>6. /\ sections'[i] = new
        /\ \A j \in Sections : j # i => sections'[j] = sections[j]
    BY <1>6 DEF TypeInv, RowsTyped
  <2>7. \A j \in Sections :
            \/ SameSection(j)
            \/ /\ sections[j] # NoRow => sections[j].code \in K
               /\ sections'[j] # NoRow => sections'[j].code \in K
    BY <2>1, <2>3, <2>6 DEF SameSection
  <2>8. K \in SUBSET K
    OBVIOUS
  <2> QED
    BY <1>1, <2>5, <2>7, <2>8, CommitKeepsView
<1> QED
  BY <1>2, <1>4, <1>5, <1>6 DEF Update

LEMMA RemoveKeepsView ==
  ASSUME TypeInv, ViewInv, NEW p \in Procs, Prepared(p), Remove(p)
  PROVE  ViewInv'
<1>1. /\ UNCHANGED <<readVars, courses, list>>
      /\ task[p].step = "remove"
  BY DEF Remove, redisVars
<1>2. PICK i \in Sections : i = task[p].id
  BY <1>1, TaskFields DEF TypeInv, TasksTyped
<1>3. CASE Goes(p, NoTask) /\ UNCHANGED <<sections, suspect>>
  BY <1>1, <1>3, RefusalKeepsView
<1>4. CASE /\ sections[i] # NoRow
           /\ sections' = [sections EXCEPT ![i] = NoRow]
           /\ Overtakes({sections[i].code}, TRUE)
           /\ Goes(p, [step |-> "forget", codes |-> {task[p].code}, ids |-> {i}])
  <2>1. PICK old : old = sections[i]
    OBVIOUS
  <2>2. old \in SectionRow
    BY <1>4, <2>1 DEF TypeInv, RowsTyped
  <2>3. PICK K \in SUBSET Codes : K = {old.code}
    BY <2>2 DEF SectionRow
  <2>4. task[p].code = old.code
    BY <1>1, <1>2, <1>4, <2>1 DEF Prepared
  <2>5. /\ Overtakes(K, TRUE)
        /\ Goes(p, [step |-> "forget", codes |-> K, ids |-> {i}])
    BY <1>4, <2>1, <2>3, <2>4
  <2>6. /\ sections'[i] = NoRow
        /\ \A j \in Sections : j # i => sections'[j] = sections[j]
    BY <1>4 DEF TypeInv, RowsTyped
  <2>7. \A j \in Sections :
            \/ SameSection(j)
            \/ /\ sections[j] # NoRow => sections[j].code \in K
               /\ sections'[j] # NoRow => sections'[j].code \in K
    BY <2>1, <2>3, <2>6 DEF SameSection
  <2>8. K \in SUBSET K
    OBVIOUS
  <2> QED
    BY <1>1, <2>5, <2>7, <2>8, CommitKeepsView
<1> QED
  BY <1>2, <1>3, <1>4 DEF Remove

(* Course data: course listings and single courses are forgotten, section  *)
(* lookups show it but not as something an administrator edits there.      *)
LEMMA CourseKeepsView ==
  ASSUME TypeInv, ViewInv, NEW p \in Procs, WriteCourse(p)
  PROVE  ViewInv'
<1>1. /\ UNCHANGED <<readVars, sections, list>>
      /\ task[p].step = "course"
      /\ Overtakes({"courses"}, FALSE)
      /\ Goes(p, [step |-> "forget_courses"])
  BY DEF WriteCourse, redisVars
<1>2. /\ task'[p] = [step |-> "forget_courses"]
      /\ \A q \in Procs : q # p => task'[q] = task[q]
  BY <1>1, OthersWait DEF Goes, TypeInv
<1>3. [step |-> "forget_courses"].step = "forget_courses"
  OBVIOUS
<1>4. task'[p].step = "forget_courses"
  BY <1>2, <1>3
<1>5. Forgotten \subseteq Forgotten'
  BY <1>1, <1>2, ForgottenByOne, OwedAtNothing
<1>6. "courses" \in Forgotten'
  <2>1. "courses" \in Owed(p)'
    BY <1>4 DEF Owed
  <2> QED
    BY <1>2, <2>1, ForgottenByOne
<1>7. \A i \in Sections : SameSection(i)
  BY <1>1 DEF SameSection
<1>8. \A k \in Keys \ {"courses"} : View'[k] = View[k]
  <2>1. \A k \in Codes \ {} : View'[k] = View[k]
    BY <1>7, CodesKept
  <2> QED
    BY <2>1
<1>9. Edited(Listing)' = Edited(Listing)
  BY <1>7, SameListing
<1>10. /\ suspect \subseteq suspect'
       /\ \A q \in Procs : Storing(q, "courses") => "courses" \in suspect'
  BY <1>1 DEF Overtakes
<1>11. /\ UNCHANGED <<lock, fill, expired>> /\ cache' = cache
       /\ DOMAIN cache = Keys
  BY <1>1 DEF readVars, ViewInv, CacheWithin
<1>12. \A q \in Procs : task'[q].step = "list_store" => task'[q] = task[q]
  BY <1>2, <1>4
<1>13. \A k \in {"courses"} :
         k \in Forgotten' /\ \A q \in Procs : Storing(q, k) => k \in suspect'
  BY <1>6, <1>10
<1> QED
  BY <1>1, <1>5, <1>8, <1>9, <1>10, <1>11, <1>12, <1>13, ViewKept

(* The invalidations: what is off the list of keys to forget is empty.     *)
LEMMA ForgetKeepsView ==
  ASSUME TypeInv, ViewInv, NEW p \in Procs, Forget(p)
  PROVE  ViewInv'
<1>1. /\ UNCHANGED <<lock, fill, expired, sections, courses, list, suspect>>
      /\ task[p].step = "forget"
      /\ cache' = [k \in Keys |-> IF k \in task[p].codes THEN Missing ELSE cache[k]]
      /\ Goes(p, [step |-> "forget_list"])
  BY DEF Forget, dbVars
<1>2. /\ task'[p] = [step |-> "forget_list"]
      /\ \A q \in Procs : q # p => task'[q] = task[q]
  BY <1>1, OthersWait DEF Goes, TypeInv
<1>3. [step |-> "forget_list"].step = "forget_list"
  OBVIOUS
<1>4. task'[p].step = "forget_list"
  BY <1>2, <1>3
<1>5. /\ Forgotten \subseteq Forgotten' \cup task[p].codes
      /\ "list" \in Forgotten'
  <2>1. Owed(p) \subseteq task[p].codes \cup {"list"}
    BY <1>1 DEF Owed
  <2>2. "list" \in Owed(p)'
    BY <1>4 DEF Owed
  <2> QED
    BY <1>2, <2>1, <2>2, ForgottenByOne
<1>6. View' = View /\ Listing' = Listing
  BY <1>1, SameRows
<1>7. Edited(Listing)' = Edited(Listing)
  BY <1>6 DEF Edited
<1>8. \A k \in Keys \ {} : View'[k] = View[k]
  BY <1>6
<1>9. \A k \in Keys : \/ cache'[k] = Missing
                      \/ /\ cache'[k] = cache[k]
                         /\ k \in suspect \cup Forgotten => k \in suspect' \cup Forgotten'
  BY <1>1, <1>5
<1>10. \A q \in Procs : task'[q].step = "list_store" => task'[q] = task[q]
  BY <1>2, <1>4
<1> QED
  BY <1>1, <1>5, <1>7, <1>8, <1>9, <1>10, ViewKept

LEMMA ForgetCoursesKeepsView ==
  ASSUME TypeInv, ViewInv, NEW p \in Procs, ForgetCourses(p)
  PROVE  ViewInv'
<1>1. /\ UNCHANGED <<lock, fill, expired, sections, courses, list, suspect>>
      /\ task[p].step = "forget_courses"
      /\ cache' = [cache EXCEPT !["courses"] = Missing]
      /\ Goes(p, NoTask)
  BY DEF ForgetCourses, dbVars, redisVars
<1>2. /\ task'[p] = NoTask
      /\ \A q \in Procs : q # p => task'[q] = task[q]
  BY <1>1, OthersWait DEF Goes, TypeInv
<1>3. NoTask.step # "list_store"
  BY DEF NoTask
<1>4. Forgotten \subseteq Forgotten' \cup {"courses"}
  <2>1. Owed(p) \subseteq {"courses"}
    BY <1>1 DEF Owed
  <2> QED
    BY <1>2, <2>1, ForgottenByOne
<1>5. View' = View /\ Listing' = Listing
  BY <1>1, SameRows
<1>6. Edited(Listing)' = Edited(Listing)
  BY <1>5 DEF Edited
<1>7. \A k \in Keys \ {} : View'[k] = View[k]
  BY <1>5
<1>8. DOMAIN cache = Keys
  BY DEF ViewInv, CacheWithin
<1>9. \A k \in Keys : \/ cache'[k] = Missing
                      \/ /\ cache'[k] = cache[k]
                         /\ k \in suspect \cup Forgotten => k \in suspect' \cup Forgotten'
  BY <1>1, <1>4, <1>8
<1>10. "list" \in suspect \cup Forgotten => "list" \in suspect' \cup Forgotten'
  BY <1>1, <1>4
<1>11. \A q \in Procs : task'[q].step = "list_store" => task'[q] = task[q]
  BY <1>2, <1>3
<1>12. DOMAIN cache' = Keys
  BY <1>1, <1>8
<1> QED
  BY <1>1, <1>6, <1>7, <1>9, <1>10, <1>11, <1>12, ViewKept

LEMMA ForgetListKeepsView ==
  ASSUME TypeInv, ViewInv, NEW p \in Procs, ForgetList(p)
  PROVE  ViewInv'
<1>1. /\ UNCHANGED <<readVars, sections, courses, suspect>>
      /\ task[p].step = "forget_list"
      /\ list' = Missing
      /\ Goes(p, NoTask)
  BY DEF ForgetList, dbVars
<1>2. /\ task'[p] = NoTask
      /\ \A q \in Procs : q # p => task'[q] = task[q]
  BY <1>1, OthersWait DEF Goes, TypeInv
<1>3. NoTask.step # "list_store"
  BY DEF NoTask
<1>4. Forgotten \subseteq Forgotten' \cup {"list"}
  <2>1. Owed(p) \subseteq {"list"}
    BY <1>1 DEF Owed
  <2> QED
    BY <1>2, <2>1, ForgottenByOne
<1>5. View' = View /\ Listing' = Listing
  BY <1>1, SameRows
<1>6. Edited(Listing)' = Edited(Listing)
  BY <1>5 DEF Edited
<1>7. \A k \in Keys \ {} : View'[k] = View[k]
  BY <1>5
<1>8. /\ UNCHANGED <<lock, fill, expired>> /\ cache' = cache
      /\ DOMAIN cache = Keys
  BY <1>1 DEF readVars, ViewInv, CacheWithin
<1>9. \A k \in Keys : k \in suspect \cup Forgotten => k \in suspect' \cup Forgotten'
  BY <1>1, <1>4
<1>10. \A q \in Procs : task'[q].step = "list_store" => task'[q] = task[q]
  BY <1>2, <1>3
<1> QED
  BY <1>1, <1>6, <1>7, <1>8, <1>9, <1>10, ViewKept

(* An invalidation that Redis refuses makes its keys suspect. *)
LEMMA LostForgetKeepsView ==
  ASSUME TypeInv, ViewInv, NEW p \in Procs, ForgetFails(p)
  PROVE  ViewInv'
<1>1. /\ UNCHANGED <<readVars, sections, courses, list>>
      /\ \/ /\ task[p].step = "forget"
            /\ suspect' = suspect \cup task[p].codes
            /\ Goes(p, [step |-> "forget_list"])
         \/ /\ task[p].step = "forget_list"
            /\ suspect' = suspect \cup {"list"}
            /\ Goes(p, NoTask)
         \/ /\ task[p].step = "forget_courses"
            /\ suspect' = suspect \cup {"courses"}
            /\ Goes(p, NoTask)
  BY DEF ForgetFails, dbVars, redisVars
<1>2. /\ task'[p].step \in {"idle", "forget", "forget_list", "forget_courses"}
      /\ \A q \in Procs : q # p => task'[q] = task[q]
  BY EditsMoveOn
<1>3. Forgotten \subseteq Forgotten' \cup Owed(p) /\ Owed(p)' \subseteq Forgotten'
  BY <1>2, ForgottenByOne
<1>4. Owed(p) \subseteq suspect' \cup Forgotten'
  <2>1. CASE task[p].step = "forget"
    <3>1. [step |-> "forget_list"].step = "forget_list"
      OBVIOUS
    <3>2. task'[p] = [step |-> "forget_list"]
      BY <1>1, <2>1, OthersWait DEF Goes, TypeInv
    <3>3. "list" \in Owed(p)'
      BY <3>1, <3>2 DEF Owed
    <3>4. Owed(p) \subseteq task[p].codes \cup {"list"}
      BY <2>1 DEF Owed
    <3> QED
      BY <1>1, <1>3, <2>1, <3>3, <3>4
  <2>2. CASE task[p].step # "forget"
    BY <1>1, <2>2 DEF Owed
  <2> QED
    BY <2>1, <2>2
<1>5. suspect \subseteq suspect'
  BY <1>1
<1>6. \A q \in Procs : task'[q].step = "list_store" => task'[q] = task[q]
  BY <1>2
<1> QED
  BY <1>1, <1>3, <1>4, <1>5, <1>6, ViewAtRest

(* The worker counts seats, which no administrator edits. *)
LEMMA SeatsKeepView ==
  ASSUME TypeInv, ViewInv, NEW i \in Sections, Reserve(i) \/ Settle(i)
  PROVE  ViewInv'
<1>1. UNCHANGED <<readVars, courses, list, task, suspect>>
  BY DEF Reserve, Settle
<1>2. Forgotten' = Forgotten
  BY <1>1 DEF Forgotten, Forgetting
<1>3. \A j \in Sections : SameSection(j)
  <2>1. CASE UNCHANGED sections
    BY <2>1 DEF SameSection
  <2>2. ASSUME NEW n \in Int,
               sections' = [sections EXCEPT ![i] = [sections[i] EXCEPT !.count = n]],
               i \in Existing
        PROVE  \A j \in Sections : SameSection(j)
    <3> DEFINE row == [sections[i] EXCEPT !.count = n]
    <3>1. sections[i] \in SectionRow /\ sections[i] # NoRow
      BY <2>2 DEF TypeInv, RowsTyped, Existing
    <3>2. /\ row \in SectionRow /\ row # NoRow /\ row.code = sections[i].code
          /\ [row EXCEPT !.count = 0] = [sections[i] EXCEPT !.count = 0]
      BY <3>1, CountedRow
    <3>3. sections' = [sections EXCEPT ![i] = row]
      BY <2>2
    <3> HIDE DEF row
    <3>4. /\ sections'[i] = row
          /\ \A j \in Sections : j # i => sections'[j] = sections[j]
      BY <3>3 DEF TypeInv, RowsTyped
    <3>5. SameSection(i)
      BY <3>1, <3>2, <3>4 DEF SameSection
    <3>6. \A j \in Sections : j # i => SameSection(j)
      BY <3>4 DEF SameSection
    <3> QED
      BY <3>5, <3>6
  <2> QED
    BY <2>1, <2>2, SettleWrites DEF Reserve, TypeInv
<1>4. \A k \in Keys \ {} : View'[k] = View[k]
  <2>1. \A k \in Codes \ {} : View'[k] = View[k]
    BY <1>3, CodesKept
  <2>2. View'["courses"] = View["courses"]
    BY <1>1 DEF View, CourseRows
  <2> QED
    BY <2>1, <2>2
<1>5. Edited(Listing)' = Edited(Listing)
  BY <1>3, SameListing
<1>6. /\ UNCHANGED <<lock, fill, expired>> /\ cache' = cache
      /\ DOMAIN cache = Keys
  BY <1>1 DEF readVars, ViewInv, CacheWithin
<1> QED
  BY <1>1, <1>2, <1>4, <1>5, <1>6, ViewKept

LEMMA ExpiryKeepsView ==
  ASSUME TypeInv, ViewInv, NEW k \in Keys, Expire(k)
  PROVE  ViewInv'
<1>1. /\ UNCHANGED <<sections, courses, list, task, suspect>>
      /\ KeyExpires(k) \/ LockExpires(k)
  BY DEF Expire, dbVars, redisVars
<1>2. Forgotten' = Forgotten /\ View' = View /\ Listing' = Listing
  BY <1>1, SameRows DEF Forgotten, Forgetting
<1>3. PICK v : v = View
  OBVIOUS
<1>4. PICK s : s = suspect
  OBVIOUS
<1>5. PICK u : u = suspect \cup Forgotten
  OBVIOUS
<1>6. FillsWithin(v, s) /\ CacheWithin(v, u) /\ LockInv
  BY <1>3, <1>4, <1>5 DEF ViewInv
<1>7. LockInv' /\ FillsWithin(v, s)' /\ CacheWithin(v, u)'
  BY <1>1, <1>6, ExpiryStep, ExpiryKeepsWithin
<1>8. FillsWithin(View, suspect)' /\ CacheWithin(View, suspect \cup Forgotten)'
  BY <1>1, <1>2, <1>3, <1>4, <1>5, <1>7 DEF FillsWithin, CacheWithin
<1>9. ListCurrent'
  BY <1>1, <1>2 DEF ViewInv, ListCurrent, Exact, Forgetting
<1> QED
  BY <1>7, <1>8, <1>9 DEF ViewInv

LEMMA ViewStep ==
  ASSUME TypeInv, ViewInv, AllPrepared, [Next]_vars
  PROVE  ViewInv'
<1>1. ASSUME NEW p \in Procs,
             Visit(p) \/ VisitorStep(p) \/ ReadCacheFails(p) \/ ListFails(p)
      PROVE  ViewInv'
  BY <1>1, ReadsKeepView, VisitsKeepView DEF VisitorStep
<1>2. ASSUME NEW p \in Procs, AdminAsks(p) \/ AdminStep(p) \/ ForgetFails(p)
      PROVE  ViewInv'
  BY <1>2, AsksKeepView, InsertKeepsView, UpdateKeepsView, RemoveKeepsView,
     CourseKeepsView, ForgetKeepsView, ForgetListKeepsView, ForgetCoursesKeepsView,
     LostForgetKeepsView DEF AdminStep, AllPrepared
<1>3. ASSUME NEW i \in Sections, Reserve(i) \/ Settle(i)
      PROVE  ViewInv'
  BY <1>3, SeatsKeepView
<1>4. ASSUME ReconcileLoad \/ ReconcileCompare \/ ReconcileWrite \/ ExpireList
             \/ UNCHANGED vars
      PROVE  ViewInv'
  <2>1. /\ UNCHANGED <<readVars, sections, courses, task, suspect>>
        /\ list' = list \/ list' = Missing
    BY <1>4 DEF ReconcileLoad, ReconcileCompare, Differing, ReconcileWrite,
                ExpireList, vars, dbVars, redisVars
  <2>2. Forgotten' = Forgotten
    BY <2>1 DEF Forgotten, Forgetting
  <2> QED
    BY <2>1, <2>2, ViewAtRest
<1>5. ASSUME NEW k \in Keys, Expire(k)
      PROVE  ViewInv'
  BY <1>5, ExpiryKeepsView
<1> QED
  BY <1>1, <1>2, <1>3, <1>4, <1>5 DEF Next

(* Once an edit has answered, nobody reads the old section, course or      *)
(* listing from a cache, however reads, their locks and expiries, seat     *)
(* counts and Redis errors fall between its steps: for one administrator   *)
(* at a time.  A second one may rename the section between the read and    *)
(* the write of an update, which then forgets the code before and the code *)
(* after, and not the one in between.                                      *)
THEOREM EditsReachCaches == ASSUME OneAdmin PROVE Spec => []CatalogCurrent
<1>1. TypeInv /\ AllPrepared /\ [Next]_vars => AllPrepared'
  BY SchedulesStep
<1>2. TypeInv /\ ViewInv /\ AllPrepared /\ [Next]_vars => ViewInv'
  BY ViewStep
<1>3. ViewInv => CatalogCurrent
  BY ViewIsCurrent
<1> QED
  BY <1>1, <1>2, <1>3, PreparedInit, ViewInit, TypeInit, TypeStep, PTL DEF Spec
=============================================================================
