---------------------------- MODULE SlotWindows ----------------------------
(***************************************************************************)
(* When a registration slot is open: libs/shared/src/                      *)
(* registration-slot-window.util.ts and the checks the slots service makes *)
(* with it.                                                                *)
(*                                                                         *)
(* A slot opens every day from startDate to endDate, between startTime and *)
(* endTime, for the student codes of a range.  An instant is a record      *)
(* [date, time, sec]: the Bangkok date, the minute of the day, and what    *)
(* the formatting to "HH:mm" drops.  The code compares "YYYY-MM-DD" and    *)
(* "HH:mm" strings, which order like the numbers here.                     *)
(***************************************************************************)
EXTENDS Integers, Sequences

CONSTANT Never         \* the code's null: no further opening

Instant == [date : Nat, time : Nat, sec : Nat]
Slot == [from : Nat, to : Nat, startDate : Nat, endDate : Nat,
         startTime : Nat, endTime : Nat]

ASSUME NeverAssumption == Never \notin Instant

(* registrationLocalDateTimeToDate: the first instant of a local minute. *)
ToDate(date, time) == [date |-> date, time |-> time, sec |-> 0]

(* Comparison of two Date objects. *)
Before(a, b) ==
  \/ a.date < b.date
  \/ a.date = b.date /\ a.time < b.time
  \/ a.date = b.date /\ a.time = b.time /\ a.sec < b.sec
NotAfter(a, b) == a = b \/ Before(a, b)

(* isRegistrationSlotActiveAt: both bounds count, the last minute whole. *)
ActiveAt(slot, at) ==
  /\ at.date >= slot.startDate
  /\ at.date <= slot.endDate
  /\ at.time >= slot.startTime
  /\ at.time <= slot.endTime

(* getRegistrationSlotNextOpenAt: today's opening while it is not over,    *)
(* else tomorrow's; the opening of an open slot is in the past.            *)
NextOpenAt(slot, at) ==
  IF at.date < slot.startDate THEN ToDate(slot.startDate, slot.startTime)
  ELSE IF at.date <= slot.endDate /\ at.time <= slot.endTime
       THEN ToDate(at.date, slot.startTime)
  ELSE IF at.date + 1 <= slot.endDate
       THEN ToDate(at.date + 1, slot.startTime)
  ELSE Never

(* getRegistrationSlotEffectiveCloseAt *)
EffectiveCloseAt(slot, at) ==
  LET open == NextOpenAt(slot, at)
  IN  IF open = Never THEN Never ELSE ToDate(open.date, slot.endTime)

(* isRegistrationSlotOutsideCurrentWindow: past today's closing time, also *)
(* when the slot opens again tomorrow.                                     *)
OutsideCurrentWindow(slot, at) ==
  /\ ~ ActiveAt(slot, at)
  /\ at.date >= slot.startDate
  /\ at.date > slot.endDate \/ at.time > slot.endTime

(* assertValidSlotRange *)
ValidSlot(slot) ==
  /\ slot.from <= slot.to
  /\ slot.startDate <= slot.endDate
  /\ slot.startTime < slot.endTime

(* isStudentCodeInSlot *)
CoversStudent(slot, code) == slot.from <= code /\ code <= slot.to

(* assertSlotWithinCurrentRegistrationWindow: the first opening and the    *)
(* last closing, not each day.                                             *)
WithinRegistration(slot, settings) ==
  /\ NotAfter(settings.open, ToDate(slot.startDate, slot.startTime))
  /\ NotAfter(ToDate(slot.endDate, slot.endTime), settings.close)

(* getRegistrationWindowStatus *)
WindowStatus(settings, at) ==
  IF Before(at, settings.open) THEN "UPCOMING"
  ELSE IF Before(settings.close, at) THEN "CLOSED" ELSE "RUNNING"

(* loadSlotsFromDb: one semester's slots by start date, start time and     *)
(* first student code.                                                     *)
Earlier(a, b) ==
  \/ a.startDate < b.startDate
  \/ a.startDate = b.startDate /\ a.startTime < b.startTime
  \/ a.startDate = b.startDate /\ a.startTime = b.startTime /\ a.from < b.from
FirstSlots(slots) == {s \in slots : \A t \in slots : ~ Earlier(t, s)}

(* What slots.find(...) may return: a first slot of those that match.  Two *)
(* equal keys come in either order.                                        *)
CurrentSlots(slots, code, at) ==
  FirstSlots({s \in slots : CoversStudent(s, code) /\ ActiveAt(s, at)})
NextSlots(slots, code, at) ==
  FirstSlots({s \in slots : CoversStudent(s, code) /\ NextOpenAt(s, at) # Never})
AssignedSlots(slots, code) == FirstSlots({s \in slots : CoversStudent(s, code)})
=============================================================================
