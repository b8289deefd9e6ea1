-------------------------- MODULE MCSectionCatalog --------------------------
(***************************************************************************)
(* Instances of SectionCatalog for TLC: one or two codes of one course, a  *)
(* section that is renamed, loses its schedule or gets half a new one.     *)
(***************************************************************************)
EXTENDS SectionCatalog, TLC

CONSTANTS Visitors, Administrators, Edits, Creates, CodeSet

MCProcs == Visitors \cup Administrators
MCKeys == CodeSet \cup {"courses"}
Row(code, day) ==
  [code |-> code, course |-> "x", cap |-> 1, count |-> 0,
   day |-> day, from |-> IF day = Null THEN Null ELSE 1,
   to |-> IF day = Null THEN Null ELSE 2, time |-> IF day = Null THEN Null ELSE "t"]
MCInitialSections == [i \in Sections |-> IF i = 1 THEN Row("a", 2) ELSE NoRow]
MCInitialCourses == [c \in {"x"} |-> 1]
MCEdits ==
  [rename   |-> [code |-> "b"],
   lab      |-> [day |-> Null],
   later    |-> [from |-> 3],
   cleared  |-> [day |-> Null, from |-> Null, to |-> Null, time |-> Null],
   longer   |-> [to |-> 3],   \* with "cleared": README.md, section 3
   capacity |-> [cap |-> 2]]
MCPatches == {MCEdits[e] : e \in Edits}
MCInputs == IF Creates THEN {Row("a", 2), Row("b", Null)} ELSE {}
MCImports == IF Creates THEN {{Row("a", 2), Row("b", 3)}} ELSE {}
=============================================================================
