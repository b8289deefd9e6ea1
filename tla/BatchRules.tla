----------------------------- MODULE BatchRules -----------------------------
(***************************************************************************)
(* The rules of createBatch, steps 5 to 12, over class_sections rows and   *)
(* section codes: status, one registration per course, lab pairing,        *)
(* timetable, credits.  They only read; StudentTimetable applies them.     *)
(***************************************************************************)
EXTENDS Integers, FiniteSetsExt

CONSTANTS
    Codes, Rows, Courses,
    CodeOf,       \* row |-> its section code
    Rep,          \* code |-> its first row, the representative
    CourseOf,     \* code |-> its course
    Kind,         \* code |-> sectionType: TN and TH are labs, LT, LT+BT and
                  \* BT are theory, the rest is neither
    Open,         \* codes whose status is neither CANCELLED nor closed
    RequiresLab,  \* codes with can_tn
    Linked,       \* code |-> the set of codes ma_lop_kem names: one or none
    Scheduled,    \* rows whose day, time and periods are all known
    Meeting,      \* of these: day, time, first and last period, week ranges
    Credits,      \* course |-> credits
    MaxCredits    \* maxCreditsPerSemester

ASSUME RulesAssumption ==
    /\ CodeOf \in [Rows -> Codes]
    /\ Rep \in [Codes -> Rows]
    /\ \A c \in Codes : CodeOf[Rep[c]] = c
    /\ CourseOf \in [Codes -> Courses]
    /\ Kind \in [Codes -> {"theory", "lab", "other"}]
    /\ Open \subseteq Codes
    /\ RequiresLab \subseteq Codes
    /\ Linked \in [Codes -> SUBSET Codes]
    /\ Scheduled \subseteq Rows
    /\ \A r \in Scheduled : Meeting[r].first \in Int /\ Meeting[r].last \in Int
    /\ IsFiniteSet(Courses)
    /\ Credits \in [Courses -> Nat]
    /\ MaxCredits \in Nat

RowsOf(codes)  == {r \in Rows : CodeOf[r] \in codes}
CodesOf(R)     == {CodeOf[r] : r \in R}
CoursesOf(R)   == {CourseOf[c] : c \in CodesOf(R)}
Representatives(codes) == {Rep[c] : c \in codes}

----------------------------------------------------------------------------
(* assertLabPairing: R has one row per section entry of its argument.      *)

RowsOfKind(R, kind) == {r \in R : Kind[CodeOf[r]] = kind}

\* Mutant: any number of labs.
ManyLabs(L) == TRUE

AtMostOneLab(L) == \A a, b \in L : a = b

\* Two theory sections are allowed when one of them names the other.
IsLinked(a, b) == CodeOf[b] \in Linked[CodeOf[a]] \/ CodeOf[a] \in Linked[CodeOf[b]]

AtMostOneTheory(T) ==
    /\ \A a, b \in T : a = b \/ IsLinked(a, b)
    /\ \A a, b, c \in T : a = b \/ a = c \/ b = c

PairingOfCourse(R) ==
    LET labs   == RowsOfKind(R, "lab")
        theory == RowsOfKind(R, "theory")
    IN /\ AtMostOneLab(labs)
       /\ AtMostOneTheory(theory)
       /\ labs = {} => \A r \in R : CodeOf[r] \notin RequiresLab
       /\ theory = {} => labs = {}

LabPairing(R) ==
    \A k \in CoursesOf(R) : PairingOfCourse({r \in R : CourseOf[CodeOf[r]] = k})

----------------------------------------------------------------------------
(* assertNoScheduleConflict.                                               *)

\* parseWeekRange: a range may be written backwards.  The empty set stands
\* for a text that is missing or does not parse.
WeeksOf(ranges) ==
    UNION {IF w[1] <= w[2] THEN w[1]..w[2] ELSE w[2]..w[1] : w \in ranges}

WeekRangesOverlap(a, b) ==
    a = {} \/ b = {} \/ WeeksOf(a) \cap WeeksOf(b) # {}

\* Mutant: two meetings that share only their boundary period do not overlap.
PeriodsOverlapInside(m, n) == m.first < n.last /\ n.first < m.last

PeriodsOverlap(m, n) == m.first <= n.last /\ n.first <= m.last

Clash(a, b) ==
    LET m == Meeting[a]
        n == Meeting[b]
    IN /\ {a, b} \subseteq Scheduled
       /\ m.day = n.day
       /\ m.time = n.time
       /\ CodeOf[a] # CodeOf[b]
       /\ PeriodsOverlap(m, n)
       /\ WeekRangesOverlap(m.weeks, n.weeks)

NoScheduleConflict(R) == \A a, b \in R : ~Clash(a, b)

----------------------------------------------------------------------------
(* Credits, and the whole of the checks.                                   *)

CreditsOf(courses) == MapThenSumSet(LAMBDA k : Credits[k], courses)

\* Mutant: the credits of the courses already registered are not counted.
OnlyNewCredits(codes, held) == CreditsOf({CourseOf[c] : c \in codes})

TotalCredits(codes, held) ==
    CreditsOf(CoursesOf(held)) + CreditsOf({CourseOf[c] : c \in codes})

\* Whether createBatch lets a student who holds the rows held ask for codes.
Accepts(codes, held) ==
    /\ codes \subseteq Open
    /\ \A c \in codes : CourseOf[c] \notin CoursesOf(held)
    /\ LabPairing(Representatives(codes) \cup held)
    /\ NoScheduleConflict(RowsOf(codes) \cup held)
    /\ TotalCredits(codes, held) <= MaxCredits
=============================================================================
