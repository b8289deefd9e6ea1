---------------------------- MODULE BatchWorker ----------------------------
(***************************************************************************)
(* The worker processes: the consumer of the main queue, the handlers of   *)
(* CREATE and CANCEL messages, and the consumer of the dead-letter queue.  *)
(*                                                                         *)
(* A delivery is one run of the consumer's callback for one copy of a      *)
(* message.  The prefetch count and the number of processes bound how many *)
(* deliveries run at once; each is independent of the others, whichever    *)
(* process it runs in, so the model only has a set of them.  Every await   *)
(* of the callback ends a step.                                            *)
(***************************************************************************)
EXTENDS RegistrationStore

CONSTANT Deliveries   \* callbacks that may run at the same time
CONSTANT NoRow        \* "no item is being marked"

ASSUME WorkerAssumption == NoRow \notin Rows

VARIABLE delivery     \* delivery[d]: the local state of one callback

workerVars == <<delivery>>

(***************************************************************************)
(* at        where the callback is                                         *)
(* batch     the payload's batchId                                         *)
(* retry     the retry count in the message's headers                      *)
(* todo      items PENDING in statusMap that the loop has not passed yet   *)
(* row       the item whose slot statement threw                           *)
(* attached  the channel the message came on is still open                 *)
(***************************************************************************)
Points == {"idle", "load", "items", "markFailed", "failed", "ack"}

Delivery == [at : Points, batch : Batches \cup {NoBatch}, retry : 0..MaxRetries,
             todo : SUBSET Rows, row : Rows \cup {NoRow}, attached : BOOLEAN]

Idle == [at |-> "idle", batch |-> NoBatch, retry |-> 0, todo |-> {},
         row |-> NoRow, attached |-> TRUE]

WorkerTypeOK ==
    /\ delivery \in [Deliveries -> Delivery]
    /\ \A d \in Deliveries :
         delivery[d].at # "idle" => delivery[d].batch \in Batches
    /\ \A d \in Deliveries :
         delivery[d].at = "markFailed" => delivery[d].row \in delivery[d].todo

WorkerInit == delivery = [d \in Deliveries |-> Idle]

At(d, p)  == delivery[d].at = p
Busy(d)   == delivery[d].at # "idle"
Goto(d, p) == delivery' = [delivery EXCEPT ![d].at = p]

----------------------------------------------------------------------------
(* The handlers.                                                           *)

Deliver(d) ==
    /\ At(d, "idle")
    /\ \E b \in Batches, n \in 0..MaxRetries :
         /\ Dequeue(b, n)
         /\ delivery' = [delivery EXCEPT ![d] =
              [Idle EXCEPT !.at = "load", !.batch = b, !.retry = n]]
    /\ UNCHANGED <<ask, payload, dlq, dbVars, redisVars, faults>>

\* statusMap is read once; the loop never looks at the items again.
LoadStatuses(d) ==
    /\ At(d, "load")
    /\ \/ /\ delivery' = [delivery EXCEPT
                 ![d].at = "items", ![d].todo = PendingItems(delivery[d].batch)]
          /\ UNCHANGED faults
       \/ Fault("db") /\ Goto(d, "failed")
    /\ UNCHANGED <<ask, dbVars, mqVars, redisVars>>

\* The statement for row r of batch b: the seat of a CREATE item ...
SlotStatement(b, r) ==
    IF ask[b].type = "CREATE" THEN AcquireSlotAndMarkSuccess(b, r)
    ELSE /\ payload[b][r] # NoBatch
         /\ ReleaseSlotAndMarkItems(b, r, payload[b][r])

\* ... and when the handler refuses the item instead: no seat, or no source.
Refused(b, r) ==
    IF ask[b].type = "CREATE" THEN slDk[r] >= SlMax[r]
                              ELSE payload[b][r] = NoBatch

ProcessItem(d, r) ==
    LET b == delivery[d].batch IN
    /\ At(d, "items")
    /\ r \in delivery[d].todo
    /\ \/ /\ SlotStatement(b, r)
          /\ delivery' = [delivery EXCEPT ![d].todo = @ \ {r}]
          /\ UNCHANGED faults
       \/ /\ SlotStatement(b, r)                  \* committed, then an error
          /\ Fault("ambiguous")
          /\ delivery' = [delivery EXCEPT ![d].at = "markFailed", ![d].row = r]
       \/ /\ \/ Refused(b, r) /\ UNCHANGED faults
             \/ ~Refused(b, r) /\ Fault("db")
          /\ delivery' = [delivery EXCEPT ![d].at = "markFailed", ![d].row = r]
          /\ UNCHANGED dbVars
    /\ UNCHANGED <<ask, mqVars, redisVars>>

\* The catch block's update; when it throws too, the whole handler throws.
MarkFailed(d) ==
    /\ At(d, "markFailed")
    /\ \/ /\ MarkItemFailed(delivery[d].batch, delivery[d].row)
          /\ delivery' = [delivery EXCEPT ![d].at = "items", ![d].row = NoRow,
                              ![d].todo = @ \ {delivery[d].row}]
          /\ UNCHANGED faults
       \/ /\ Fault("db")
          /\ Goto(d, "failed")
          /\ UNCHANGED dbVars
    /\ UNCHANGED <<ask, mqVars, redisVars>>

CompleteBatch(d) ==
    /\ At(d, "items")
    /\ delivery[d].todo = {}
    /\ \/ /\ MarkBatchCompleted(delivery[d].batch)
          /\ Goto(d, "ack")
          /\ UNCHANGED faults
       \/ /\ Fault("db")
          /\ Goto(d, "failed")
          /\ UNCHANGED dbVars
    /\ UNCHANGED <<ask, mqVars, redisVars>>

----------------------------------------------------------------------------
(* The consumer around them.                                               *)

\* Mutant: past the last retry the message is only acked.
RetryOrDrop(d) ==
    LET b == delivery[d].batch
        n == delivery[d].retry
    IN /\ At(d, "failed")
       /\ delivery[d].attached
       /\ IF n < MaxRetries THEN Enqueue(b, n + 1) ELSE UNCHANGED queue
       /\ Goto(d, "ack")
       /\ UNCHANGED <<ask, payload, dlq, dbVars, redisVars, faults>>

\* handleProcessingFailure: publish the copy that replaces this one.
RetryOrDeadLetter(d) ==
    LET b == delivery[d].batch
        n == delivery[d].retry
    IN /\ At(d, "failed")
       /\ delivery[d].attached
       /\ IF n < MaxRetries
            THEN Enqueue(b, n + 1) /\ UNCHANGED dlq
            ELSE dlq' = [dlq EXCEPT ![b] = @ + 1] /\ UNCHANGED queue
       /\ Goto(d, "ack")
       /\ UNCHANGED <<ask, payload, dbVars, redisVars, faults>>

Ack(d) ==
    /\ At(d, "ack")
    /\ delivery[d].attached
    /\ delivery' = [delivery EXCEPT ![d] = Idle]
    /\ UNCHANGED <<ask, dbVars, mqVars, redisVars, faults>>

\* The connection drops: the broker requeues the copy, the handler runs on.
LoseConnection(d) ==
    /\ Busy(d)
    /\ delivery[d].attached
    /\ Fault("connection")
    /\ Enqueue(delivery[d].batch, delivery[d].retry)
    /\ delivery' = [delivery EXCEPT ![d].attached = FALSE]
    /\ UNCHANGED <<ask, payload, dlq, dbVars, redisVars>>

\* Its ack or retry then throws on the closed channel and nobody catches it.
DieDetached(d) ==
    /\ ~delivery[d].attached
    /\ delivery[d].at \in {"failed", "ack"}
    /\ delivery' = [delivery EXCEPT ![d] = Idle]
    /\ UNCHANGED <<ask, dbVars, mqVars, redisVars, faults>>

\* Mutant: the consumer runs with noAck, the broker requeues nothing.
CrashNoAck(d) ==
    /\ Busy(d)
    /\ Fault("crash")
    /\ delivery' = [delivery EXCEPT ![d] = Idle]
    /\ UNCHANGED <<ask, queue, payload, dlq, dbVars, redisVars>>

Crash(d) ==
    /\ Busy(d)
    /\ Fault("crash")
    /\ IF delivery[d].attached
         THEN Enqueue(delivery[d].batch, delivery[d].retry)
         ELSE UNCHANGED queue
    /\ delivery' = [delivery EXCEPT ![d] = Idle]
    /\ UNCHANGED <<ask, payload, dlq, dbVars, redisVars>>

----------------------------------------------------------------------------
(* The dead-letter consumer.  Its ack only removes the copy, so it is part *)
(* of the step; a crash before the ack leaves the copy, an error of the    *)
(* transaction is logged and the copy acked all the same.                  *)

DeadLetter(b) ==
    /\ dlq[b] > 0
    /\ \/ /\ MarkBatchFailed(b)
          /\ dlq' = [dlq EXCEPT ![b] = @ - 1]
          /\ UNCHANGED faults
       \/ /\ MarkBatchFailed(b)
          /\ Fault("crash")
          /\ UNCHANGED dlq
       \/ /\ Fault("dlq")
          /\ dlq' = [dlq EXCEPT ![b] = @ - 1]
          /\ UNCHANGED dbVars
    /\ UNCHANGED <<ask, payload, queue, redisVars, workerVars>>

----------------------------------------------------------------------------

DeliveryStep(d) ==
    \/ LoadStatuses(d)
    \/ \E r \in Rows : ProcessItem(d, r)
    \/ MarkFailed(d)
    \/ CompleteBatch(d)
    \/ RetryOrDeadLetter(d)
    \/ Ack(d)
    \/ DieDetached(d)

WorkerNext ==
    \/ \E d \in Deliveries :
         Deliver(d) \/ DeliveryStep(d) \/ LoseConnection(d) \/ Crash(d)
    \/ \E b \in Batches : DeadLetter(b)
=============================================================================
