---------------------------- MODULE SeatLedger -----------------------------
(***************************************************************************)
(* What the registration pipeline promises, with no queue, cache, retry or *)
(* handler in sight: a batch asks for seats on some rows, every seat asked *)
(* for is granted or refused, once; at most SlMax[r] seats of row r are    *)
(* out at any time; a seat that was granted can be returned, once.         *)
(***************************************************************************)
EXTENDS Integers, FiniteSets

CONSTANTS Batches, Rows, SlMax

VARIABLE seat   \* seat[b][r]: what became of batch b's request for row r

SeatState == {"none", "asked", "granted", "refused", "returned"}

Granted(r) == {b \in Batches : seat[b][r] = "granted"}

Init == seat = [b \in Batches |-> [r \in Rows |-> "none"]]

Ask(b, R) ==
    /\ \A r \in Rows : seat[b][r] = "none"
    /\ seat' = [seat EXCEPT ![b] =
                   [r \in Rows |-> IF r \in R THEN "asked" ELSE "none"]]

Grant(b, r) ==
    /\ seat[b][r] = "asked"
    /\ Cardinality(Granted(r)) < SlMax[r]
    /\ seat' = [seat EXCEPT ![b][r] = "granted"]

Refuse(b, R) ==
    /\ \A r \in R : seat[b][r] = "asked"
    /\ seat' = [seat EXCEPT ![b] =
                   [r \in Rows |-> IF r \in R THEN "refused" ELSE seat[b][r]]]

Return(b, r) ==
    /\ seat[b][r] = "granted"
    /\ seat' = [seat EXCEPT ![b][r] = "returned"]

Next == \E b \in Batches :
    \/ \E R \in SUBSET Rows : Ask(b, R) \/ Refuse(b, R)
    \/ \E r \in Rows : Grant(b, r) \/ Return(b, r)

Spec == Init /\ [][Next]_seat
=============================================================================
