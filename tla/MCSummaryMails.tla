--------------------------- MODULE MCSummaryMails ---------------------------
(***************************************************************************)
(* An instance of SummaryMails for TLC: a student who registers, fails or  *)
(* gives back, another without a slot whose batch stays in front of the    *)
(* scan, and a slot of two mornings.                                       *)
(***************************************************************************)
EXTENDS SummaryMails, TLC

CONSTANTS u1, u2, b1, b2, b3

MCOwner == (b1 :> u1) @@ (b2 :> u1) @@ (b3 :> u2)
MCSection == (b1 :> "x") @@ (b2 :> "x") @@ (b3 :> "x")
Instants(date, time) == [date |-> date, time |-> time, sec |-> 0]
MCTimes == {Instants(1, 3), Instants(2, 0), Instants(2, 3)}
MCSlot == [from |-> 1, to |-> 5, startDate |-> 1, endDate |-> 2,
           startTime |-> 1, endTime |-> 2]
MCSlotsOfStudent == (u1 :> {MCSlot}) @@ (u2 :> {})
=============================================================================
