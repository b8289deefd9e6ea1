------------------------- MODULE MCStudentTimetable -------------------------
(***************************************************************************)
(* An instance with the shapes of the timetable data: a lecture with a lab *)
(* of two meetings or none, a linked lecture and exercise pair, lectures  *)
(* that share one period of one week with another, backward and missing    *)
(* week ranges.                                                            *)
(***************************************************************************)
EXTENDS StudentTimetable, TLC

MCCourses == {"calculus", "algebra", "physics"}
MCCodes   == {"CalcLT", "CalcTN", "CalcTN2", "AlgLT", "AlgBT",
              "PhyLT", "PhyLT2"}

MCCourseOf ==
    [c \in MCCodes |-> CASE c \in {"CalcLT", "CalcTN", "CalcTN2"} -> "calculus"
                         [] c \in {"AlgLT", "AlgBT"}   -> "algebra"
                         [] OTHER                      -> "physics"]
MCKind ==
    [c \in MCCodes |-> IF c \in {"CalcTN", "CalcTN2"} THEN "lab" ELSE "theory"]
MCLinked ==
    [c \in MCCodes |-> IF c = "AlgBT" THEN {"AlgLT"} ELSE {c}]

MCRows == {<<c, 1>> : c \in MCCodes} \cup {<<"CalcTN", 2>>}
MCCodeOf == [r \in MCRows |-> r[1]]
MCRep    == [c \in MCCodes |-> <<c, 1>>]

MCScheduled == MCRows \ {<<"CalcTN2", 1>>, <<"PhyLT2", 1>>}

At(first, last, weeks) ==
    [day |-> 2, time |-> "SANG", first |-> first, last |-> last, weeks |-> weeks]

MCMeeting ==
    [r \in MCScheduled |->
        CASE r = <<"CalcLT", 1>>  -> At(1, 3, {<<2, 9>>})
          [] r = <<"CalcTN", 1>>  -> At(4, 6, {<<5, 3>>})
          [] r = <<"CalcTN", 2>>  -> At(1, 3, {<<11, 12>>})
          [] r = <<"AlgLT", 1>>   -> At(3, 4, {<<10, 10>>, <<12, 13>>})
          [] r = <<"AlgBT", 1>>   -> At(5, 6, {})
          [] OTHER                -> At(3, 5, {<<6, 6>>})]

MCWeeks   == 1..14
MCCredits == [k \in MCCourses |-> IF k = "calculus" THEN 4 ELSE 3]
=============================================================================
