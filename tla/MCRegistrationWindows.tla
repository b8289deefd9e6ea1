----------------------- MODULE MCRegistrationWindows -----------------------
(***************************************************************************)
(* An instance of RegistrationWindows for TLC: two days of three minutes,  *)
(* a slot of the morning minute, and updates that move the window, swap    *)
(* the semester, and move the slot.                                        *)
(***************************************************************************)
EXTENDS RegistrationWindows, TLC

CONSTANTS Gates, AdminCalls, Patches, Updates, Instants

MCProcs == Gates \cup AdminCalls
MCKeys == {"settings"} \cup {"s1", "s2"}
MCStudents == {5}
At(date, time, sec) == [date |-> date, time |-> time, sec |-> sec]
MCInstants ==
  [first   |-> At(1, 2, 30),
   evening |-> At(2, 3, 0)]
MCTimes == {MCInstants[f] : f \in Instants}
MCDefault == [semester |-> "s1", open |-> At(1, 1, 0), close |-> At(2, 2, 0)]
Morning == [semester |-> "s1", from |-> 1, to |-> 5, startDate |-> 1, endDate |-> 2,
            startTime |-> 1, endTime |-> 2]
Former == [Morning EXCEPT !.semester = "s2", !.endDate = 1]
MCInitialSlots == <<Morning, Former, NoRow>>
MCSettingsPatches ==
  [later    |-> [open |-> At(2, 0, 0)],
   inverted |-> [open |-> At(2, 3, 0)],
   earlier  |-> [close |-> At(1, 3, 0)],   \* with "later": README.md, section 3
   semester |-> [semester |-> "s2"]]
MCSlotPatches == [moved |-> [semester |-> "s1"]]
SettingsSent == {MCSettingsPatches[f] : f \in Patches}
SlotsSent == {MCSlotPatches[f] : f \in Updates}
MCSlotInputs == {[Morning EXCEPT !.from = 5, !.to = 9, !.endDate = 1]}
=============================================================================
