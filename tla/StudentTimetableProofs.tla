----------------------- MODULE StudentTimetableProofs -----------------------
(***************************************************************************)
(* What the rules of BatchRules give a student, for every timetable.       *)
(***************************************************************************)
EXTENDS StudentTimetable, FiniteSetTheorems, WellFoundedInduction, TLAPS

----------------------------------------------------------------------------
(* Types.                                                                  *)

\* Every reachable state of a student's session is well typed, and only a
\* PENDING batch has items to settle.
THEOREM TimetableTypeCorrect == Spec => []TimetableTypeOK
<1>1. Init => TimetableTypeOK
  BY DEF Init, TimetableTypeOK
<1>2. TimetableTypeOK /\ [Next]_vars => TimetableTypeOK'
  <2> SUFFICES ASSUME TimetableTypeOK, [Next]_vars PROVE TimetableTypeOK'
    OBVIOUS
  <2> USE DEF TimetableTypeOK
  <2>1. ASSUME NEW codes \in SUBSET Codes \ {{}}, RequestCreate(codes)
        PROVE TimetableTypeOK'
    BY <2>1 DEF RequestCreate, RowsOf
  <2>2. ASSUME NEW codes \in SUBSET Codes \ {{}}, RequestCancel(codes)
        PROVE TimetableTypeOK'
    BY <2>2 DEF RequestCancel, RowsOf
  <2>3. ASSUME NEW r \in Rows, Grant(r) PROVE TimetableTypeOK'
    BY <2>3 DEF Grant
  <2>4. ASSUME NEW r \in Rows, Refuse(r) PROVE TimetableTypeOK'
    BY <2>4 DEF Refuse
  <2>5. ASSUME NEW r \in Rows, Release(r) PROVE TimetableTypeOK'
    BY <2>5 DEF Release
  <2>6. CASE CompleteCreate
    BY <2>6 DEF CompleteCreate
  <2>7. CASE CompleteCancel
    BY <2>7 DEF CompleteCancel
  <2>8. CASE UNCHANGED vars
    BY <2>8 DEF vars
  <2> QED
    BY <2>1, <2>2, <2>3, <2>4, <2>5, <2>6, <2>7, <2>8 DEF Next
<1> QED
  BY <1>1, <1>2, PTL DEF Spec

----------------------------------------------------------------------------
(* The rows a student holds or has asked for only grow by an accepted      *)
(* request, so a property of sets of rows that every subset inherits and   *)
(* that Accepts establishes is an invariant of them.                       *)

Granted == held \cup asked

LEMMA GrantedGrows ==
    ASSUME TimetableTypeOK, [Next]_vars
    PROVE  \/ Granted' \subseteq Granted
           \/ \E codes \in SUBSET Codes :
                /\ Accepts(codes, held)
                /\ Granted' = RowsOf(codes) \cup held
                /\ asked = {}
<1> USE DEF TimetableTypeOK, Granted
<1>1. ASSUME NEW codes \in SUBSET Codes \ {{}}, RequestCreate(codes)
      PROVE  /\ Accepts(codes, held)
             /\ Granted' = RowsOf(codes) \cup held
             /\ asked = {}
  BY <1>1 DEF RequestCreate
<1>2. ASSUME NEW codes \in SUBSET Codes \ {{}}, RequestCancel(codes)
      PROVE Granted' \subseteq Granted
  BY <1>2 DEF RequestCancel
<1>3. ASSUME NEW r \in Rows, Grant(r) \/ Refuse(r) \/ Release(r)
      PROVE Granted' \subseteq Granted
  BY <1>3 DEF Grant, Refuse, Release
<1>4. CASE CompleteCreate \/ CompleteCancel
  BY <1>4 DEF CompleteCreate, CompleteCancel
<1>5. CASE UNCHANGED vars
  BY <1>5 DEF vars
<1> QED
  BY <1>1, <1>2, <1>3, <1>4, <1>5 DEF Next

----------------------------------------------------------------------------
(* The timetable.                                                          *)

LEMMA ClashWhenTogether ==
    ASSUME NEW a \in Rows, NEW b \in Rows, NEW period \in Periods,
           NEW week \in Weeks, CodeOf[a] # CodeOf[b], SameHalfDay(a, b),
           InClass(a, period, week), InClass(b, period, week)
    PROVE  Clash(a, b)
<1>1. /\ {a, b} \subseteq Scheduled
      /\ Meeting[a].first <= period /\ period <= Meeting[a].last
      /\ Meeting[b].first <= period /\ period <= Meeting[b].last
      /\ Meeting[a].first \in Int /\ Meeting[a].last \in Int
      /\ Meeting[b].first \in Int /\ Meeting[b].last \in Int
      /\ period \in Int
  BY RulesAssumption, TimetableAssumption DEF InClass
<1>2. PeriodsOverlap(Meeting[a], Meeting[b])
  BY <1>1 DEF PeriodsOverlap
<1>3. WeekRangesOverlap(Meeting[a].weeks, Meeting[b].weeks)
  BY DEF InClass, WeekRangesOverlap
<1> QED
  BY <1>1, <1>2, <1>3 DEF Clash, SameHalfDay

\* No student is ever registered on two classes of different codes that meet
\* in the same period of the same week.
THEOREM TimetableWithoutClashes == Spec => []NeverInTwoClasses
<1>1. Init => NoScheduleConflict(Granted)
  BY DEF Init, NoScheduleConflict, Granted
<1>2. /\ TimetableTypeOK
      /\ NoScheduleConflict(Granted)
      /\ [Next]_vars
      => NoScheduleConflict(Granted)'
  <2> SUFFICES ASSUME TimetableTypeOK, NoScheduleConflict(Granted), [Next]_vars
               PROVE  \A a, b \in Granted' : ~Clash(a, b)
    BY DEF NoScheduleConflict
  <2>1. CASE Granted' \subseteq Granted
    BY <2>1 DEF NoScheduleConflict
  <2>2. ASSUME NEW codes \in SUBSET Codes, Accepts(codes, held),
               Granted' = RowsOf(codes) \cup held
        PROVE  \A a, b \in Granted' : ~Clash(a, b)
    BY <2>2 DEF Accepts, NoScheduleConflict
  <2> QED
    BY <2>1, <2>2, GrantedGrows
<1>3. TimetableTypeOK /\ NoScheduleConflict(Granted) => NeverInTwoClasses
  BY ClashWhenTogether
     DEF NoScheduleConflict, NeverInTwoClasses, TimetableTypeOK, Granted
<1> QED
  BY <1>1, <1>2, <1>3, TimetableTypeCorrect, PTL DEF Spec

----------------------------------------------------------------------------
(* One class per course.                                                   *)

LEMMA PairedCodes ==
    ASSUME NEW codes \in SUBSET Codes, NEW R \in SUBSET Rows,
           LabPairing(Representatives(codes) \cup R)
    PROVE  OneClassIn(codes)
<1> DEFINE E == Representatives(codes) \cup R
<1>1. SUFFICES ASSUME NEW c \in codes, NEW d \in codes,
                      CourseOf[c] = CourseOf[d], Kind[c] = Kind[d], c # d
               PROVE  \/ Kind[c] = "other"
                      \/ /\ Kind[c] = "theory"
                         /\ c \in Linked[d] \/ d \in Linked[c]
  BY DEF OneClassIn
<1> DEFINE G == {r \in E : CourseOf[CodeOf[r]] = CourseOf[c]}
<1>2. /\ Rep[c] \in E /\ CodeOf[Rep[c]] = c
      /\ Rep[d] \in E /\ CodeOf[Rep[d]] = d
      /\ Rep[c] # Rep[d]
  BY <1>1, RulesAssumption DEF Representatives
<1>3. Rep[c] \in G /\ Rep[d] \in G
  BY <1>1, <1>2
<1>4. CourseOf[c] \in CoursesOf(E)
  BY <1>2 DEF CoursesOf, CodesOf
<1>5. PairingOfCourse(G)
  BY <1>4 DEF LabPairing
<1>6. Kind[c] \in {"theory", "lab", "other"}
  BY RulesAssumption
<1>7. Kind[c] # "lab"
  <2> SUFFICES ASSUME Kind[c] = "lab" PROVE FALSE
    OBVIOUS
  <2>1. {Rep[c], Rep[d]} \subseteq RowsOfKind(G, "lab")
    BY <1>1, <1>2, <1>3 DEF RowsOfKind
  <2> QED
    BY <1>2, <1>5, <2>1 DEF PairingOfCourse, AtMostOneLab
<1>8. CASE Kind[c] = "theory"
  <2>1. {Rep[c], Rep[d]} \subseteq RowsOfKind(G, "theory")
    BY <1>1, <1>2, <1>3, <1>8 DEF RowsOfKind
  <2>2. IsLinked(Rep[c], Rep[d])
    BY <1>2, <1>5, <2>1 DEF PairingOfCourse, AtMostOneTheory
  <2> QED
    BY <1>2, <1>8, <2>2 DEF IsLinked
<1> QED
  BY <1>6, <1>7, <1>8

LEMMA AcceptedKeepsOneClass ==
    ASSUME TimetableTypeOK, NEW codes \in SUBSET Codes,
           Accepts(codes, held), OneClassIn(CodesOf(held))
    PROVE  OneClassIn(CodesOf(RowsOf(codes) \cup held))
<1>1. CodesOf(RowsOf(codes) \cup held) \subseteq codes \cup CodesOf(held)
  BY DEF CodesOf, RowsOf
<1>2. OneClassIn(codes)
  BY PairedCodes DEF Accepts, TimetableTypeOK
<1>3. \A c \in codes, d \in CodesOf(held) : CourseOf[c] # CourseOf[d]
  BY DEF Accepts, CoursesOf
<1> QED
  BY <1>1, <1>2, <1>3 DEF OneClassIn

\* However requests, refusals and cancellations follow each other, a student
\* is on at most one lab of a course, and on two theory codes of it only if
\* they are linked.
THEOREM OneClassOfEachCourse == Spec => []OneClassPerCourse
<1>1. Init => OneClassIn(CodesOf(Granted))
  BY DEF Init, OneClassIn, CodesOf, Granted
<1>2. /\ TimetableTypeOK
      /\ OneClassIn(CodesOf(Granted))
      /\ [Next]_vars
      => OneClassIn(CodesOf(Granted))'
  <2> SUFFICES ASSUME TimetableTypeOK, OneClassIn(CodesOf(Granted)), [Next]_vars
               PROVE  OneClassIn(CodesOf(Granted'))
    BY DEF OneClassIn, CodesOf
  <2>1. CASE Granted' \subseteq Granted
    BY <2>1 DEF OneClassIn, CodesOf
  <2>2. ASSUME NEW codes \in SUBSET Codes, Accepts(codes, held),
               Granted' = RowsOf(codes) \cup held, asked = {}
        PROVE  OneClassIn(CodesOf(Granted'))
    <3>1. Granted = held
      BY <2>2 DEF Granted
    <3> QED
      BY <2>2, <3>1, AcceptedKeepsOneClass
  <2> QED
    BY <2>1, <2>2, GrantedGrows
<1>3. OneClassIn(CodesOf(Granted)) => OneClassPerCourse
  BY DEF OneClassIn, CodesOf, Granted, OneClassPerCourse
<1> QED
  BY <1>1, <1>2, <1>3, TimetableTypeCorrect, PTL DEF Spec

----------------------------------------------------------------------------
(* Induction over the subsets of a finite set, with the claim as a set.    *)

LEMMA FromZero ==
    ASSUME NEW S, 0 \in S, \A n \in Nat : n \in S => n + 1 \in S
    PROVE  Nat \subseteq S
<1> SUFFICES ASSUME NEW m \in Nat, m \notin S PROVE FALSE
  OBVIOUS
<1> DEFINE R == {ss \in Nat \X Nat : ss[1] < ss[2]}
           D == {n \in Nat : n \notin S}
<1>1. IsWellFoundedOn(R, Nat)
  BY NatLessThanWellFounded DEF OpToRel
<1>2. D \subseteq Nat /\ D # {}
  OBVIOUS
<1> HIDE DEF R, D
<1>3. PICK n \in D : \A k \in D : <<k, n>> \notin R
  BY <1>1, <1>2, WFMin
<1> USE DEF R, D
<1>4. n \in Nat /\ n # 0 /\ n - 1 \in Nat
  <2>1. n \in Nat /\ n \notin S
    OBVIOUS
  <2>2. n # 0
    BY <2>1, Zenon
  <2> QED
    BY <2>1, <2>2
<1>5. n - 1 \notin D
  <2>1. <<n - 1, n>> \in R
    BY <1>4
  <2> HIDE DEF R, D
  <2> QED
    BY <1>3, <2>1
<1> QED
  BY <1>3, <1>4, <1>5

LEMMA OverSubsets ==
    ASSUME NEW T, IsFiniteSet(T), NEW Q, {} \in Q,
           \A s \in SUBSET T : s # {} /\ (\A x \in s : s \ {x} \in Q) => s \in Q
    PROVE  SUBSET T \subseteq Q
<1> DEFINE S == {n \in Nat : \A s \in SUBSET T : Cardinality(s) = n => s \in Q}
<1>1. \A s \in SUBSET T : IsFiniteSet(s) /\ Cardinality(s) \in Nat
  BY FS_Subset, FS_CardinalityType
<1>2. 0 \in S
  BY <1>1, FS_EmptySet
<1>3. ASSUME NEW n \in Nat, n \in S PROVE n + 1 \in S
  <2> SUFFICES ASSUME NEW s \in SUBSET T, Cardinality(s) = n + 1 PROVE s \in Q
    OBVIOUS
  <2>1. s # {}
    BY FS_EmptySet
  <2>2. ASSUME NEW x \in s PROVE s \ {x} \in Q
    <3>1. Cardinality(s \ {x}) = n
      BY <1>1, FS_RemoveElement
    <3> QED
      BY <1>3, <3>1
  <2> QED
    BY <2>1, <2>2
<1> HIDE DEF S
<1>4. Nat \subseteq S
  BY <1>2, <1>3, FromZero
<1> USE DEF S
<1> QED
  BY <1>1, <1>4

----------------------------------------------------------------------------
(* The sum of the credits of a set of courses: that the fold is defined,   *)
(* that the order does not matter, and that it is monotone.                *)

FirstOf(s) == CHOOSE x \in s : TRUE

SumStep(f, s) ==
    IF s = {} THEN 0 ELSE Credits[FirstOf(s)] + f[s \ {FirstOf(s)}]

SumOver(T) == CHOOSE f : f = [s \in SUBSET T |-> SumStep(f, s)]

LEMMA CreditsAreSums == ASSUME NEW T PROVE CreditsOf(T) = SumOver(T)[T]
  BY DEF CreditsOf, MapThenSumSet, MapThenFoldSet, SumOver, SumStep, FirstOf

LEMMA FirstIsMember == ASSUME NEW s, s # {} PROVE FirstOf(s) \in s
  BY DEF FirstOf

LEMMA SumsExist ==
    ASSUME NEW T \in SUBSET Courses, IsFiniteSet(T)
    PROVE  SumOver(T) = [s \in SUBSET T |-> SumStep(SumOver(T), s)]
<1> DEFINE Small(n) == {s \in SUBSET T : Cardinality(s) <= n}
           Sums(n) == {f \in [Small(n) -> Nat] :
                         \A s \in Small(n) : f[s] = SumStep(f, s)}
           S == {n \in Nat : Sums(n) # {}}
<1>1. \A s \in SUBSET T : IsFiniteSet(s) /\ Cardinality(s) \in Nat
  BY FS_Subset, FS_CardinalityType
<1>2. \A s \in SUBSET T : Cardinality(s) = 0 <=> s = {}
  BY <1>1, FS_EmptySet
<1>3. ASSUME NEW s \in SUBSET T, s # {}
      PROVE  /\ FirstOf(s) \in s
             /\ s \ {FirstOf(s)} \in SUBSET T
             /\ Cardinality(s \ {FirstOf(s)}) = Cardinality(s) - 1
             /\ Credits[FirstOf(s)] \in Nat
  BY <1>1, <1>3, FirstIsMember, FS_RemoveElement, RulesAssumption
<1>4. 0 \in S
  <2>1. Small(0) = {{}}
    BY <1>1, <1>2, FS_EmptySet
  <2>2. [s \in Small(0) |-> 0] \in Sums(0)
    BY <2>1 DEF SumStep
  <2> QED
    BY <2>2
<1>5. ASSUME NEW n \in Nat, n \in S PROVE n + 1 \in S
  <2>1. PICK f \in [Small(n) -> Nat] : \A s \in Small(n) : f[s] = SumStep(f, s)
    BY <1>5
  <2> DEFINE g == [s \in Small(n + 1) |-> SumStep(f, s)]
  <2>2. ASSUME NEW s \in Small(n + 1), s # {} PROVE s \ {FirstOf(s)} \in Small(n)
    BY <1>1, <1>3, <2>2
  <2>3. g \in [Small(n + 1) -> Nat]
    BY <1>3, <2>1, <2>2 DEF SumStep
  <2>4. Small(n) \subseteq Small(n + 1)
    BY <1>1
  <2>5. \A s \in Small(n) : g[s] = f[s]
    BY <2>1, <2>4
  <2>6. ASSUME NEW s \in Small(n + 1) PROVE g[s] = SumStep(g, s)
    <3>1. g[s] = SumStep(f, s)
      OBVIOUS
    <3> HIDE DEF g
    <3> QED
      BY <2>2, <2>5, <3>1 DEF SumStep
  <2> HIDE DEF g
  <2>7. g \in Sums(n + 1)
    BY <2>3, <2>6
  <2> HIDE DEF Sums
  <2>8. Sums(n + 1) # {}
    BY <2>7
  <2> QED
    BY <2>8
<1> HIDE DEF S
<1>6. Cardinality(T) \in S
  BY <1>1, <1>4, <1>5, FromZero
<1> USE DEF S
<1>7. Small(Cardinality(T)) = SUBSET T
  BY <1>1, FS_Subset
<1>8. PICK f \in [SUBSET T -> Nat] : \A s \in SUBSET T : f[s] = SumStep(f, s)
  BY <1>6, <1>7
<1>9. f = [s \in SUBSET T |-> SumStep(f, s)]
  BY <1>8
<1> QED
  BY <1>9 DEF SumOver

LEMMA SumsAgree ==
    ASSUME NEW T \in SUBSET Courses
    PROVE  /\ SumOver(Courses)[T] \in Nat
           /\ CreditsOf(T) = SumOver(Courses)[T]
<1>1. IsFiniteSet(Courses) /\ IsFiniteSet(T)
  BY RulesAssumption, FS_Subset
<1> DEFINE g == SumOver(Courses)
           f == SumOver(T)
<1>2. \A s \in SUBSET Courses : g[s] = SumStep(g, s)
  BY <1>1, SumsExist
<1>3. \A s \in SUBSET T : f[s] = SumStep(f, s)
  BY <1>1, SumsExist
<1> HIDE DEF f, g
<1> DEFINE Q == {s \in SUBSET T : g[s] \in Nat /\ f[s] = g[s]}
<1>4. {} \in Q
  <2>1. SumStep(f, {}) = 0 /\ SumStep(g, {}) = 0
    BY DEF SumStep
  <2>2. f[{}] = SumStep(f, {}) /\ g[{}] = SumStep(g, {})
    BY <1>2, <1>3
  <2> QED
    BY <2>1, <2>2
<1>5. ASSUME NEW s \in SUBSET T, s # {}, \A x \in s : s \ {x} \in Q PROVE s \in Q
  <2>1. FirstOf(s) \in s /\ Credits[FirstOf(s)] \in Nat
    BY <1>5, FirstIsMember, RulesAssumption
  <2>2. s \ {FirstOf(s)} \in Q
    BY <1>5, <2>1
  <2> QED
    BY <1>2, <1>3, <1>5, <2>1, <2>2 DEF SumStep
<1> HIDE DEF Q
<1>6. T \in Q
  BY <1>1, <1>4, <1>5, OverSubsets
<1> USE DEF Q
<1> QED
  BY <1>6, CreditsAreSums DEF f, g

LEMMA CreditsAreNat ==
    ASSUME NEW s \in SUBSET Courses
    PROVE  CreditsOf(s) \in Nat
  BY SumsAgree

LEMMA CreditsOfFirst ==
    /\ CreditsOf({}) = 0
    /\ \A s \in SUBSET Courses :
         s # {} => CreditsOf(s) = Credits[FirstOf(s)] + CreditsOf(s \ {FirstOf(s)})
<1>1. \A s \in SUBSET Courses :
        SumOver(Courses)[s] = SumStep(SumOver(Courses), s)
  <2>1. IsFiniteSet(Courses)
    BY RulesAssumption
  <2> DEFINE g == SumOver(Courses)
  <2>2. g = [s \in SUBSET Courses |-> SumStep(g, s)]
    BY <2>1, SumsExist
  <2> HIDE DEF g
  <2>3. \A s \in SUBSET Courses : g[s] = SumStep(g, s)
    BY <2>2
  <2> QED
    BY <2>3 DEF g
<1>2. CreditsOf({}) = SumOver(Courses)[{}]
  BY SumsAgree
<1>3. SumStep(SumOver(Courses), {}) = 0
  BY DEF SumStep
<1>4. SumOver(Courses)[{}] = SumStep(SumOver(Courses), {})
  BY <1>1
<1>5. CreditsOf({}) = 0
  BY <1>2, <1>3, <1>4
<1>6. ASSUME NEW s \in SUBSET Courses, s # {}
      PROVE  CreditsOf(s) = Credits[FirstOf(s)] + CreditsOf(s \ {FirstOf(s)})
  <2>1. s \ {FirstOf(s)} \in SUBSET Courses
    OBVIOUS
  <2>2. SumStep(SumOver(Courses), s)
          = Credits[FirstOf(s)] + SumOver(Courses)[s \ {FirstOf(s)}]
    BY <1>6 DEF SumStep
  <2>3. SumOver(Courses)[s] = SumStep(SumOver(Courses), s)
    BY <1>1
  <2>4. /\ CreditsOf(s) = SumOver(Courses)[s]
        /\ CreditsOf(s \ {FirstOf(s)}) = SumOver(Courses)[s \ {FirstOf(s)}]
    BY <2>1, SumsAgree
  <2> QED
    BY <2>2, <2>3, <2>4
<1> QED
  BY <1>5, <1>6

\* Whichever course is taken out, its credits are what the sum loses.
LEMMA CreditsOfAny ==
    ASSUME NEW T \in SUBSET Courses, NEW k \in T
    PROVE  CreditsOf(T) = Credits[k] + CreditsOf(T \ {k})
<1> DEFINE Q == {s \in SUBSET Courses :
                   \A x \in s : CreditsOf(s) = Credits[x] + CreditsOf(s \ {x})}
<1>1. {} \in Q
  OBVIOUS
<1>2. ASSUME NEW s \in SUBSET Courses, s # {}, \A x \in s : s \ {x} \in Q
      PROVE  s \in Q
  <2> SUFFICES ASSUME NEW x \in s
               PROVE  CreditsOf(s) = Credits[x] + CreditsOf(s \ {x})
    OBVIOUS
  <2> DEFINE y == FirstOf(s)
  <2>1. y \in s /\ CreditsOf(s) = Credits[y] + CreditsOf(s \ {y})
    BY <1>2, FirstIsMember, CreditsOfFirst
  <2> HIDE DEF y
  <2>2. CASE x = y
    BY <2>1, <2>2
  <2>3. CASE x # y
    <3>1. CreditsOf(s \ {y}) = Credits[x] + CreditsOf((s \ {y}) \ {x})
      BY <1>2, <2>1, <2>3
    <3>2. CreditsOf(s \ {x}) = Credits[y] + CreditsOf((s \ {x}) \ {y})
      BY <1>2, <2>1, <2>3
    <3>3. (s \ {y}) \ {x} = (s \ {x}) \ {y}
      OBVIOUS
    <3>4. Credits[x] \in Nat /\ Credits[y] \in Nat
      BY <2>1, RulesAssumption
    <3>5. CreditsOf((s \ {x}) \ {y}) \in Nat
      BY CreditsAreNat
    <3> QED
      BY <2>1, <3>1, <3>2, <3>3, <3>4, <3>5
  <2> QED
    BY <2>2, <2>3
<1> HIDE DEF Q
<1>3. T \in Q
  BY <1>1, <1>2, OverSubsets, RulesAssumption
<1> USE DEF Q
<1> QED
  BY <1>3

LEMMA CreditsGrow ==
    ASSUME NEW T \in SUBSET Courses, NEW A \in SUBSET T
    PROVE  CreditsOf(A) <= CreditsOf(T)
<1> DEFINE Q == {s \in SUBSET Courses :
                   \A a \in SUBSET s : CreditsOf(a) <= CreditsOf(s)}
<1>1. {} \in Q
  BY CreditsAreNat
<1>2. ASSUME NEW s \in SUBSET Courses, s # {}, \A x \in s : s \ {x} \in Q
      PROVE  s \in Q
  <2> SUFFICES ASSUME NEW a \in SUBSET s PROVE CreditsOf(a) <= CreditsOf(s)
    OBVIOUS
  <2>1. CreditsOf(a) \in Nat /\ CreditsOf(s) \in Nat
    BY CreditsAreNat
  <2>2. CASE a = s
    BY <2>1, <2>2
  <2>3. CASE a # s
    <3>1. PICK x \in s : x \notin a
      BY <2>3
    <3>2. CreditsOf(a) <= CreditsOf(s \ {x})
      BY <1>2, <3>1
    <3>3. CreditsOf(s) = Credits[x] + CreditsOf(s \ {x})
      BY CreditsOfAny
    <3>4. Credits[x] \in Nat /\ CreditsOf(s \ {x}) \in Nat
      BY CreditsAreNat, RulesAssumption
    <3> QED
      BY <2>1, <3>2, <3>3, <3>4
  <2> QED
    BY <2>2, <2>3
<1> HIDE DEF Q
<1>3. T \in Q
  BY <1>1, <1>2, OverSubsets, RulesAssumption
<1> USE DEF Q
<1> QED
  BY <1>3

LEMMA CreditsTogether ==
    ASSUME NEW A \in SUBSET Courses, NEW B \in SUBSET Courses
    PROVE  CreditsOf(A \cup B) <= CreditsOf(A) + CreditsOf(B)
<1> DEFINE Q == {s \in SUBSET Courses :
                   CreditsOf(s \cup B) <= CreditsOf(s) + CreditsOf(B)}
<1>1. {} \in Q
  <2>1. {} \cup B = B
    OBVIOUS
  <2> QED
    BY <2>1, CreditsAreNat, CreditsOfFirst
<1>2. ASSUME NEW s \in SUBSET Courses, s # {}, \A x \in s : s \ {x} \in Q
      PROVE  s \in Q
  <2>1. PICK x \in s : TRUE
    BY <1>2
  <2>2. CreditsOf((s \ {x}) \cup B) <= CreditsOf(s \ {x}) + CreditsOf(B)
    BY <1>2, <2>1
  <2>3. CreditsOf(s) = Credits[x] + CreditsOf(s \ {x})
    BY <2>1, CreditsOfAny
  <2>4. CreditsOf(s \cup B) <= Credits[x] + CreditsOf((s \ {x}) \cup B)
    <3>1. /\ Credits[x] \in Nat
          /\ CreditsOf(s \cup B) \in Nat
          /\ CreditsOf((s \ {x}) \cup B) \in Nat
      BY <2>1, CreditsAreNat, RulesAssumption
    <3>2. CASE x \in B
      <4>1. (s \ {x}) \cup B = s \cup B
        BY <3>2
      <4>2. CreditsOf((s \ {x}) \cup B) = CreditsOf(s \cup B)
        BY <4>1, Zenon
      <4> QED
        BY <3>1, <4>2
    <3>3. CASE x \notin B
      <4>1. (s \ {x}) \cup B = (s \cup B) \ {x}
        BY <3>3
      <4>2. CreditsOf(s \cup B) = Credits[x] + CreditsOf((s \cup B) \ {x})
        BY <2>1, CreditsOfAny
      <4>3. CreditsOf((s \ {x}) \cup B) = CreditsOf((s \cup B) \ {x})
        BY <4>1, Zenon
      <4> QED
        BY <3>1, <4>2, <4>3
    <3> QED
      BY <3>2, <3>3
  <2>5. /\ Credits[x] \in Nat
        /\ CreditsOf(s \cup B) \in Nat
        /\ CreditsOf((s \ {x}) \cup B) \in Nat
        /\ CreditsOf(s \ {x}) \in Nat
        /\ CreditsOf(B) \in Nat
    BY <2>1, CreditsAreNat, RulesAssumption
  <2> QED
    BY <2>2, <2>3, <2>4, <2>5
<1> HIDE DEF Q
<1>3. A \in Q
  BY <1>1, <1>2, OverSubsets, RulesAssumption
<1> USE DEF Q
<1> QED
  BY <1>3

\* Whatever is granted, refused and cancelled on the way, the courses a
\* student holds or has asked for never pass the credit limit of the
\* semester, although createBatch sums what is held and what is asked for
\* in two queries.
THEOREM CreditLimitHolds == Spec => []CreditsWithinLimit
<1> DEFINE Limit(R) == CreditsOf(CoursesOf(R)) <= MaxCredits
<1>1. \A R \in SUBSET Rows : CoursesOf(R) \in SUBSET Courses
  BY RulesAssumption DEF CoursesOf, CodesOf
<1>2. Limit({})
  <2>1. CoursesOf({}) = {}
    BY DEF CoursesOf, CodesOf
  <2>2. CreditsOf(CoursesOf({})) = 0
    BY <2>1, CreditsOfFirst, Zenon
  <2> QED
    BY <2>2, RulesAssumption
<1>3. ASSUME NEW R \in SUBSET Rows, NEW A \in SUBSET R, Limit(R) PROVE Limit(A)
  <2>1. CoursesOf(A) \subseteq CoursesOf(R)
    BY DEF CoursesOf, CodesOf
  <2>2. CreditsOf(CoursesOf(A)) <= CreditsOf(CoursesOf(R))
    BY <1>1, <2>1, CreditsGrow
  <2> QED
    BY <1>1, <1>3, <2>2, CreditsAreNat, RulesAssumption
<1>4. ASSUME TimetableTypeOK, NEW codes \in SUBSET Codes, Accepts(codes, held)
      PROVE  Limit(RowsOf(codes) \cup held)
  <2> DEFINE asks == {CourseOf[c] : c \in codes}
             R == RowsOf(codes) \cup held
  <2>1. R \in SUBSET Rows /\ held \in SUBSET Rows
    BY <1>4 DEF RowsOf, TimetableTypeOK
  <2>2. asks \in SUBSET Courses
    BY RulesAssumption
  <2>3. CoursesOf(R) \subseteq CoursesOf(held) \cup asks
    BY DEF CoursesOf, CodesOf, RowsOf
  <2>4. CreditsOf(CoursesOf(held)) + CreditsOf(asks) <= MaxCredits
    BY <1>4 DEF Accepts, TotalCredits
  <2> HIDE DEF asks, R
  <2>5. /\ CoursesOf(R) \in SUBSET Courses
        /\ CoursesOf(held) \in SUBSET Courses
    BY <1>1, <2>1
  <2>6. CreditsOf(CoursesOf(held) \cup asks)
          <= CreditsOf(CoursesOf(held)) + CreditsOf(asks)
    BY <2>2, <2>5, CreditsTogether
  <2>7. CreditsOf(CoursesOf(R)) <= CreditsOf(CoursesOf(held) \cup asks)
    BY <2>2, <2>3, <2>5, CreditsGrow
  <2>8. /\ CreditsOf(CoursesOf(R)) \in Nat
        /\ CreditsOf(CoursesOf(held) \cup asks) \in Nat
        /\ CreditsOf(CoursesOf(held)) \in Nat
        /\ CreditsOf(asks) \in Nat
        /\ MaxCredits \in Nat
    BY <2>2, <2>5, CreditsAreNat, RulesAssumption
  <2> QED
    BY <2>4, <2>6, <2>7, <2>8 DEF R
<1>5. Init => CreditsWithinLimit
  BY <1>2 DEF Init, CreditsWithinLimit
<1>6. TimetableTypeOK /\ CreditsWithinLimit /\ [Next]_vars => CreditsWithinLimit'
  <2> SUFFICES ASSUME TimetableTypeOK, Limit(Granted), [Next]_vars
               PROVE  Limit(Granted')
    BY DEF CreditsWithinLimit, Granted
  <2>1. Granted \in SUBSET Rows
    BY DEF TimetableTypeOK, Granted
  <2>2. CASE Granted' \subseteq Granted
    BY <1>3, <2>1, <2>2
  <2>3. ASSUME NEW codes \in SUBSET Codes, Accepts(codes, held),
               Granted' = RowsOf(codes) \cup held
        PROVE  Limit(Granted')
    BY <1>4, <2>3
  <2> HIDE DEF Limit
  <2> QED
    BY <2>2, <2>3, GrantedGrows
<1> QED
  BY <1>5, <1>6, TimetableTypeCorrect, PTL DEF Spec
=============================================================================
