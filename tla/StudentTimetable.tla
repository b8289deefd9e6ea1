-------------------------- MODULE StudentTimetable --------------------------
(***************************************************************************)
(* The registrations of one student over a session of CREATE and CANCEL    *)
(* requests, each sent after the answer to the one before (Registration    *)
(* has the interleavings).  A row asked for is granted or refused by the   *)
(* worker on its own, whatever becomes of the other rows of its code; a    *)
(* CANCEL may be accepted while a CREATE batch is still PENDING.           *)
(***************************************************************************)
EXTENDS BatchRules

CONSTANTS Periods, Weeks   \* of a half-day, and of the semester

ASSUME TimetableAssumption == Periods \subseteq Int

VARIABLES
    held,        \* rows with a CREATE item SUCCESS
    creating,    \* a CREATE batch is PENDING
    asked,       \* rows of its PENDING items
    cancelling,  \* a CANCEL batch is PENDING
    returning,   \* rows of its PENDING items
    sources      \* those of them with a sourceItemId

vars == <<held, creating, asked, cancelling, returning, sources>>

\* Every variable has its type; only a PENDING batch has items to settle.
TimetableTypeOK ==
    /\ held \subseteq Rows
    /\ creating \in BOOLEAN
    /\ asked \subseteq Rows
    /\ cancelling \in BOOLEAN
    /\ returning \subseteq Rows
    /\ sources \subseteq returning
    /\ ~creating => asked = {}
    /\ ~cancelling => returning = {}

Init ==
    /\ held = {}
    /\ creating = FALSE
    /\ asked = {}
    /\ cancelling = FALSE
    /\ returning = {}
    /\ sources = {}

\* A request that is refused, by these rules or for want of free seats,
\* changes nothing.
RequestCreate(codes) ==
    /\ ~creating
    /\ ~cancelling
    /\ Accepts(codes, held)
    /\ creating' = TRUE
    /\ asked' = RowsOf(codes)
    /\ UNCHANGED <<held, cancelling, returning, sources>>

Grant(r) ==
    /\ r \in asked
    /\ asked' = asked \ {r}
    /\ held' = held \cup {r}
    /\ UNCHANGED <<creating, cancelling, returning, sources>>

\* The section is full, or the statement failed.
Refuse(r) ==
    /\ r \in asked
    /\ asked' = asked \ {r}
    /\ UNCHANGED <<held, creating, cancelling, returning, sources>>

CompleteCreate ==
    /\ creating
    /\ asked = {}
    /\ creating' = FALSE
    /\ UNCHANGED <<held, asked, cancelling, returning, sources>>

\* Mutant: every active item of the student becomes a source.
RequestCancelAllItems(codes) ==
    /\ ~cancelling
    /\ Representatives(codes) \subseteq held
    /\ cancelling' = TRUE
    /\ returning' = RowsOf(codes)
    /\ sources' = held
    /\ UNCHANGED <<held, creating, asked>>

RequestCancel(codes) ==
    /\ ~cancelling
    /\ Representatives(codes) \subseteq held
    /\ cancelling' = TRUE
    /\ returning' = RowsOf(codes)
    /\ sources' = RowsOf(codes) \cap held
    /\ UNCHANGED <<held, creating, asked>>

Release(r) ==
    /\ r \in returning
    /\ returning' = returning \ {r}
    /\ sources' = sources \ {r}
    /\ \/ r \in sources /\ held' = held \ {r}
       \/ UNCHANGED held                       \* no source, or an error
    /\ UNCHANGED <<creating, asked, cancelling>>

CompleteCancel ==
    /\ cancelling
    /\ returning = {}
    /\ cancelling' = FALSE
    /\ UNCHANGED <<held, creating, asked, returning, sources>>

Next ==
    \/ \E codes \in SUBSET Codes \ {{}} :
         RequestCreate(codes) \/ RequestCancel(codes)
    \/ \E r \in Rows : Grant(r) \/ Refuse(r) \/ Release(r)
    \/ CompleteCreate
    \/ CompleteCancel

Spec == Init /\ [][Next]_vars

----------------------------------------------------------------------------
(* Properties.                                                             *)

\* Row r has a class in that period of that week, and on which half-day.
InClass(r, period, week) ==
    /\ r \in Scheduled
    /\ Meeting[r].first <= period /\ period <= Meeting[r].last
    /\ Meeting[r].weeks = {} \/ week \in WeeksOf(Meeting[r].weeks)

SameHalfDay(a, b) ==
    Meeting[a].day = Meeting[b].day /\ Meeting[a].time = Meeting[b].time

\* A student never has two classes of different codes in one period of one
\* week, whatever was granted, refused and cancelled on the way.
NeverInTwoClasses ==
    \A a, b \in held, period \in Periods, week \in Weeks :
        /\ InClass(a, period, week)
        /\ InClass(b, period, week)
        /\ SameHalfDay(a, b)
        => CodeOf[a] = CodeOf[b]

OneClassIn(codes) ==
    \A c, d \in codes :
        CourseOf[c] = CourseOf[d] /\ Kind[c] = Kind[d] /\ c # d =>
            \/ Kind[c] = "other"
            \/ Kind[c] = "theory" /\ (c \in Linked[d] \/ d \in Linked[c])

\* At most one lab code per course, and no two theory codes of a course but
\* linked ones, although a request only names some codes at a time.
OneClassPerCourse == OneClassIn(CodesOf(held))

\* The credits of the distinct courses registered, and of the batch in
\* flight, never pass the limit of the semester.
CreditsWithinLimit == CreditsOf(CoursesOf(held \cup asked)) <= MaxCredits

\* For the lab rule a code counts once, as its representative (the comment
\* on representativeSections in createBatch): codes that are registered
\* whole pass the rule as a batch of the same codes would.  The code does not
\* keep this: no run checks it, and README.md, section 3, shows how to see it
\* fail.
WholeCodesCountOnce ==
    held = RowsOf(CodesOf(held)) /\ LabPairing(Representatives(CodesOf(held)))
        => LabPairing(held)
=============================================================================
