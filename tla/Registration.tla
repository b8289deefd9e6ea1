---------------------------- MODULE Registration ---------------------------
(***************************************************************************)
(* The registration pipeline: the API of BatchApi and the workers of       *)
(* BatchWorker around the stores of RegistrationStore.  The slot counters  *)
(* are prewarmed and the scheduler is idle here; RegistrationCache adds it.*)
(***************************************************************************)
EXTENDS BatchApi, BatchWorker

vars == <<ask, dbVars, mqVars, redisVars, faults, apiVars, workerVars>>

Init == StoreInit /\ ApiInit /\ WorkerInit

Next ==
    \/ ApiNext /\ UNCHANGED workerVars
    \/ WorkerNext /\ UNCHANGED apiVars

Spec == Init /\ [][Next]_vars

(***************************************************************************)
(* RabbitMQ keeps delivering while a callback is free, every callback and  *)
(* request that is not cut short by a fault reaches its next await, and    *)
(* the dead-letter consumer runs.  Faults have no fairness.                *)
(***************************************************************************)
Fairness ==
    /\ \A d \in Deliveries :
         WF_vars((Deliver(d) \/ DeliveryStep(d)) /\ UNCHANGED apiVars)
    /\ \A b \in Batches : WF_vars(RequestStep(b) /\ UNCHANGED workerVars)
    /\ \A b \in Batches : WF_vars(DeadLetter(b) /\ UNCHANGED apiVars)

FairSpec == Spec /\ Fairness

----------------------------------------------------------------------------
(* Invariants.                                                             *)

\* Every variable holds a value of its type.
TypeOK == StoreTypeOK /\ ApiTypeOK /\ WorkerTypeOK

\* "Never above capacity": the seat counter of a row never passes sl_max,
\* whatever the interleaving of handlers, retries and redeliveries.
CapacityRespected == \A r \in Rows : slDk[r] <= SlMax[r]

\* ... and neither does the number of students registered on the row, which
\* is what the counter is for.
HoldersWithinCapacity ==
    \A r \in Rows : Cardinality(Holders(r)) <= SlMax[r]

\* The counter is exact: a seat is taken iff a registration item stands for
\* it, so nothing is deducted or given back twice ("idempotency" in the
\* handlers) and no seat is lost.
SeatsMatchHolders ==
    \A r \in Rows : slDk[r] = Cardinality(Holders(r))

\* Some copy of b's message is still to be worked on: ready, dead-lettered,
\* or in a callback that will not simply ack it.
Working(b) ==
    \/ \E n \in 0..MaxRetries : queue[b][n] > 0
    \/ dlq[b] > 0
    \/ \E d \in Deliveries : /\ delivery[d].at \notin {"idle", "ack"}
                             /\ delivery[d].attached
                             /\ delivery[d].batch = b

\* A batch the API answered 201 for is never forgotten: crashes, redeliveries
\* and the retry path always leave a copy of its message until it is
\* COMPLETED, unless the dead-letter consumer dropped one.
AcceptedNotLost ==
    \A b \in Batches :
        req[b] = "done" /\ batch[b] = "PENDING" /\ faults["dlq"] = 0
          => Working(b)

\* A COMPLETED batch is a settled one: the client that stops polling has
\* seen the outcome of every item.
CompletedIsSettled ==
    \A b \in Batches : batch[b] = "COMPLETED" => PendingItems(b) = {}

\* Why that is inductive.  Nothing is known to the broker, the workers or a
\* cancellation of a batch that is not inserted yet: the message follows the
\* insert, and a source is an item already SUCCESS ...
BeforeInsert == ReqPoints \ ({"rollback", "publish"} \cup Answered)

InsertPrecedesWork ==
    \A b \in Batches : req[b] \in BeforeInsert =>
        /\ \A r \in Rows : item[b][r] = "NONE"
        /\ \A n \in 0..MaxRetries : queue[b][n] = 0
        /\ dlq[b] = 0
        /\ \A d \in Deliveries : Busy(d) => delivery[d].batch # b

SourcesInserted ==
    \A b \in Batches, r \in Rows :
        payload[b][r] # NoBatch => req[payload[b][r]] \notin BeforeInsert

\* ... so no item becomes PENDING after statusMap was read, and the items the
\* loop has still to do include every PENDING one.
TodoCoversPending ==
    \A d \in Deliveries : delivery[d].at \in {"items", "markFailed"} =>
        PendingItems(delivery[d].batch) \subseteq delivery[d].todo

SettledInv ==
    /\ InsertPrecedesWork
    /\ SourcesInserted
    /\ TodoCoversPending
    /\ CompletedIsSettled

\* A student has at most one PENDING batch (the comment of step 2 of
\* createBatch).
OneBatchPerStudent ==
    \A u \in Students :
        Cardinality(PendingBatches(u, {"CREATE"})) <= 1

\* Two CREATE batches never both win a seat in one course for one student
\* (step 9 of createBatch).
OneCoursePerStudent ==
    \A b1, b2 \in Batches, c1, c2 \in Codes :
        /\ b1 # b2
        /\ ask[b1].user = ask[b2].user
        /\ CourseOf[c1] = CourseOf[c2]
        => ~( /\ \E r \in RowsOf[c1] : Holds(b1, r)
              /\ \E r \in RowsOf[c2] : Holds(b2, r) )

\* With no key missed, overwritten or lost, and no worse fault than an error
\* that left the DB alone, the slot counter is the free seats of the DB, less
\* the reservations of CREATE items without a seat (also those the worker
\* refused: nothing gives them back) and plus the early releases of CANCEL
\* items that have not released.
Reserved(b, r) ==
    r \in Asked(b) /\ (req[b] \in {"insert", "rollback", "publish", "done"}
                       \/ batch[b] # "NONE")

Unseated(r) == {b \in Batches : /\ IsCreate(b)
                                /\ Reserved(b, r)
                                /\ item[b][r] \notin {"SUCCESS", "CANCELLED"}}

Unreleased(r) == {b \in Batches : /\ ~IsCreate(b)
                                  /\ Reserved(b, r)
                                  /\ item[b][r] # "SUCCESS"}

SlotsAccountForReservations ==
    (\A k \in FaultKinds \ {"db", "publish"} : faults[k] = 0) =>
        \A r \in Rows :
            slots[r] = SlMax[r] - slDk[r] - Cardinality(Unseated(r))
                                          + Cardinality(Unreleased(r))

----------------------------------------------------------------------------
(* Action properties.                                                      *)

Settled == {"SUCCESS", "FAILED", "CANCELLED"}

\* An outcome is final: once an item has left PENDING no handler, retry or
\* dead-letter transaction rewrites it; only a cancellation turns the SUCCESS
\* of a registration into CANCELLED.
OutcomeIsFinal ==
    [][\A b \in Batches, r \in Rows :
         item[b][r] \in Settled /\ item'[b][r] # item[b][r]
           => Holds(b, r) /\ item'[b][r] = "CANCELLED"]_vars

\* A code the student is registered on can be cancelled: a CANCEL is never
\* turned down for a code of which the student holds a row (the comment on
\* the check by representative).  The code does not keep this: no run checks
\* it, and README.md, section 3, shows how to see it fail.
HeldIsCancellable ==
    [][\A b \in Batches :
         /\ ~IsCreate(b)
         /\ req[b] = "active"
         /\ req'[b] = "rejected"
         => \E c \in ask[b].codes : \A r \in RowsOf[c] :
              ActiveItems(ask[b].user, r) = {}]_vars

----------------------------------------------------------------------------
(* Liveness and refinement.                                                *)

\* Every batch the API answered 201 for is eventually COMPLETED.
AcceptedCompletes ==
    \A b \in Batches : req[b] = "done" ~> batch[b] = "COMPLETED"

\* A CREATE item is a request for a seat; CANCEL items are not seats.
SeatOf(b, r) ==
    IF ~IsCreate(b) THEN "none"
    ELSE CASE item[b][r] = "NONE"      -> "none"
           [] item[b][r] = "PENDING"   -> "asked"
           [] item[b][r] = "SUCCESS"   -> "granted"
           [] item[b][r] = "FAILED"    -> "refused"
           [] item[b][r] = "CANCELLED" -> "returned"

Ledger == INSTANCE SeatLedger WITH
              seat <- [b \in Batches |-> [r \in Rows |-> SeatOf(b, r)]]

\* The pipeline implements the ledger of SeatLedger.
LedgerSpec == Ledger!Spec
=============================================================================
