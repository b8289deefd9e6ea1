------------------------- MODULE RegistrationProofs -------------------------
(***************************************************************************)
(* Theorems about Registration, for every set of students, rows, batches   *)
(* and deliveries, every capacity, every retry limit, every kind of client *)
(* and every number of faults.                                             *)
(***************************************************************************)
EXTENDS Registration, TLAPS

USE StoreAssumption, WorkerAssumption, ApiAssumption

----------------------------------------------------------------------------
(* Type correctness.                                                       *)

\* The rows a request asks for are rows.
LEMMA AskedType ==
    ASSUME StoreTypeOK, NEW b \in Batches
    PROVE  Asked(b) \subseteq Rows
<1>1. ask[b].codes \subseteq Codes
  BY DEF StoreTypeOK
<1>2. QED
  BY <1>1 DEF Asked

\* A free-seat count is a natural number.
LEMMA FreeType ==
    ASSUME StoreTypeOK, NEW r \in Rows
    PROVE  Free(r) \in Nat
BY DEF StoreTypeOK, Free

\* So is what a DB read hands to a later SET, where it is a value at all.
LEMMA FreeOfType ==
    ASSUME StoreTypeOK, NEW R
    PROVE  FreeOf(R) \in [Rows -> Nat \cup {Missing}]
BY FreeType DEF FreeOf

\* SET leaves counters and expiries well typed.
LEMMA SetSlotsType ==
    ASSUME StoreTypeOK, NEW v \in [Rows -> Nat \cup {Missing}], SetSlots(v)
    PROVE  slots' \in [Rows -> Int \cup {Missing}] /\ slotTtl' \subseteq Rows
BY DEF StoreTypeOK, SetSlots

\* INCRBY and DECRBY too.
LEMMA AdjustSlotsType ==
    ASSUME StoreTypeOK, NEW R, NEW delta \in Int, AdjustSlots(R, delta)
    PROVE  slots' \in [Rows -> Int \cup {Missing}]
BY DEF StoreTypeOK, AdjustSlots, Cached

\* Counting a fault keeps the counters natural numbers.
LEMMA FaultType ==
    ASSUME StoreTypeOK, NEW k \in FaultKinds, Fault(k)
    PROVE  faults' \in [FaultKinds -> Nat]
BY DEF StoreTypeOK, Fault

\* Every request step preserves the types.
LEMMA ApiTypes ==
    ASSUME TypeOK, ApiNext, UNCHANGED workerVars
    PROVE  TypeOK'
<1> USE DEF TypeOK, StoreTypeOK, ApiTypeOK, dbVars, mqVars, redisVars, Move,
            ReqPoints, Answered
<1>0. WorkerTypeOK'
  BY DEF WorkerTypeOK, workerVars, Delivery, Points
<1> SUFFICES ASSUME NEW b \in Batches, RequestStep(b) \/ ApiCrash(b)
             PROVE  StoreTypeOK' /\ ApiTypeOK'
  BY <1>0 DEF ApiNext
<1>f. FaultKinds = {"db", "ambiguous", "redis", "publish", "crash",
                    "connection", "dlq"}
  BY DEF FaultKinds
<1>n. NoValue \in [Rows -> Nat \cup {Missing}]
  BY FreeOfType DEF NoValue
<1>1. CASE CheckNoPending(b)
  BY <1>1 DEF CheckNoPending
<1>2. CASE Resolve(b)
  <2>1. PICK missed \in SUBSET ask[b].codes :
          /\ UNCHANGED faults \/ Fault("redis")
          /\ req' = [req EXCEPT ![b] = IF missed = {} THEN AfterResolve(b)
                                                    ELSE "fill"]
          /\ seen' = [seen EXCEPT
                        ![b] = FreeOf(UNION {RowsOf[c] : c \in missed})]
    BY <1>2 DEF Resolve
  <2>2. req' \in [Batches -> ReqPoints]
    BY <2>1 DEF AfterResolve
  <2>3. seen' \in [Batches -> [Rows -> Nat \cup {Missing}]]
    <3>1. FreeOf(UNION {RowsOf[c] : c \in missed})
            \in [Rows -> Nat \cup {Missing}]
      BY FreeOfType
    <3>2. QED
      BY <2>1, <3>1
  <2>4. faults' \in [FaultKinds -> Nat]
    BY <2>1, <1>f, FaultType
  <2>5. UNCHANGED <<ask, dbVars, mqVars, redisVars>>
    BY <1>2 DEF Resolve
  <2>6. QED
    BY <2>2, <2>3, <2>4, <2>5
<1>3. CASE FillLookup(b)
  <2>1. ApiTypeOK'
    BY <1>3, <1>n DEF FillLookup, AfterResolve
  <2>2. lookup' \subseteq Codes
    BY <1>3 DEF FillLookup
  <2>3. QED
    BY <1>3, <2>1, <2>2, SetSlotsType, FaultType, <1>f DEF FillLookup
<1>4. CASE CheckCapacity(b)
  <2> DEFINE missed == {r \in Asked(b) : ~Cached(r)}
             full   == {r \in Asked(b) \ missed : slots[r] <= 0}
  <2>0. \/ /\ Move(b, IF full = {} THEN "refill" ELSE "refillFull")
           /\ seen' = [seen EXCEPT ![b] = FreeOf(missed)]
        \/ /\ Move(b, IF full = {} THEN "active" ELSE "rejected")
           /\ UNCHANGED seen
        \/ Move(b, "error") /\ UNCHANGED seen
        \/ Move(b, "rejected") /\ UNCHANGED seen
    BY <1>4 DEF CheckCapacity, Throw
  <2> HIDE DEF missed, full
  <2>1. req' \in [Batches -> ReqPoints]
    BY <2>0
  <2>2. seen' \in [Batches -> [Rows -> Nat \cup {Missing}]]
    <3>1. FreeOf(missed) \in [Rows -> Nat \cup {Missing}]
      BY FreeOfType
    <3>2. \/ seen' = seen
          \/ \E f \in [Rows -> Nat \cup {Missing}] :
                seen' = [seen EXCEPT ![b] = f]
      BY <2>0, <3>1
    <3>3. CASE \E f \in [Rows -> Nat \cup {Missing}] :
                 seen' = [seen EXCEPT ![b] = f]
      BY <3>3
    <3>4. QED
      BY <3>2, <3>3
  <2>3. UNCHANGED faults \/ Fault("redis")
    BY <1>4 DEF CheckCapacity
  <2>4. faults' \in [FaultKinds -> Nat]
    BY <2>3, <1>f, FaultType
  <2>5. UNCHANGED <<ask, dbVars, mqVars, redisVars>>
    BY <1>4 DEF CheckCapacity
  <2>6. QED
    BY <2>1, <2>2, <2>4, <2>5
<1>5. CASE RefillSlots(b)
  <2>1. ApiTypeOK'
    BY <1>5, <1>n DEF RefillSlots
  <2>2. QED
    BY <1>5, <2>1, SetSlotsType, FaultType, <1>f DEF RefillSlots
<1>6. CASE ReadActiveForCreate(b)
  BY <1>6 DEF ReadActiveForCreate
<1>7. CASE ReadActiveForCancel(b)
  <2>1. req' \in [Batches -> ReqPoints] /\ UNCHANGED seen
    BY <1>7 DEF ReadActiveForCancel
  <2>2. \/ UNCHANGED payload
        \/ \E src \in [Rows -> Batches \cup {NoBatch}] :
              payload' = [payload EXCEPT ![b] = src]
    BY <1>7 DEF ReadActiveForCancel
  <2>3. UNCHANGED <<ask, dbVars, queue, dlq, redisVars, faults>>
    BY <1>7 DEF ReadActiveForCancel
  <2>4. payload' \in [Batches -> [Rows -> Batches \cup {NoBatch}]]
    <3>1. CASE UNCHANGED payload
      BY <3>1
    <3>2. CASE \E src \in [Rows -> Batches \cup {NoBatch}] :
                 payload' = [payload EXCEPT ![b] = src]
      BY <3>2
    <3>3. QED
      BY <2>2, <3>1, <3>2
  <2>5. QED
    BY <2>1, <2>3, <2>4
<1>8. CASE ReserveSlots(b)
  <2>1. ApiTypeOK'
    BY <1>8 DEF ReserveSlots
  <2>2. slots' \in [Rows -> Int \cup {Missing}]
    <3>1. Delta(b) \in Int /\ -Delta(b) \in Int
      BY DEF Delta
    <3>2. QED
      BY <1>8, <3>1, AdjustSlotsType DEF ReserveSlots
  <2>3. faults' \in [FaultKinds -> Nat]
    BY <1>8, FaultType, <1>f DEF ReserveSlots
  <2>4. QED
    BY <1>8, <2>1, <2>2, <2>3 DEF ReserveSlots, AdjustSlots
<1>9. CASE InsertBatchRows(b)
  <2>1. ApiTypeOK'
    BY <1>9 DEF InsertBatchRows
  <2>2. faults' \in [FaultKinds -> Nat]
    BY <1>9, FaultType, <1>f DEF InsertBatchRows
  <2>3. batch' \in [Batches -> BatchStatus]
    BY <1>9 DEF InsertBatchRows, InsertBatch, BatchStatus
  <2>4. item' \in [Batches -> [Rows -> ItemStatus]]
    BY <1>9 DEF InsertBatchRows, InsertBatch, ItemStatus
  <2>5. slDk' \in [Rows -> Nat]
    BY <1>9 DEF InsertBatchRows, InsertBatch
  <2>6. QED
    BY <1>9, <2>1, <2>2, <2>3, <2>4, <2>5 DEF InsertBatchRows
<1>10. CASE RollbackSlots(b)
  <2>1. ApiTypeOK'
    BY <1>10 DEF RollbackSlots, Throw
  <2>2. slots' \in [Rows -> Int \cup {Missing}]
    <3>1. Delta(b) \in Int /\ -Delta(b) \in Int
      BY DEF Delta
    <3>2. QED
      BY <1>10, <3>1, AdjustSlotsType DEF RollbackSlots
  <2>3. faults' \in [FaultKinds -> Nat]
    BY <1>10, FaultType, <1>f DEF RollbackSlots
  <2>4. QED
    BY <1>10, <2>1, <2>2, <2>3 DEF RollbackSlots, AdjustSlots
<1>11. CASE Publish(b)
  <2>1. ApiTypeOK'
    BY <1>11 DEF Publish
  <2>2. faults' \in [FaultKinds -> Nat]
    BY <1>11, FaultType, <1>f DEF Publish
  <2>3. queue' \in [Batches -> [0..MaxRetries -> Nat]]
    <3>1. 0 \in 0..MaxRetries
      OBVIOUS
    <3>2. CASE Enqueue(b, 0)
      BY <3>1, <3>2 DEF Enqueue
    <3>3. QED
      BY <1>11, <3>2 DEF Publish
  <2>4. QED
    BY <1>11, <2>1, <2>2, <2>3 DEF Publish
<1>12. CASE ApiCrash(b)
  BY <1>12, <1>n, <1>f, FaultType DEF ApiCrash
<1>13. QED
  BY <1>1, <1>2, <1>3, <1>4, <1>5, <1>6, <1>7, <1>8, <1>9, <1>10, <1>11, <1>12
     DEF RequestStep

\* Moving one copy of a message in or out of the main queue.
LEMMA EnqueueType ==
    ASSUME StoreTypeOK, NEW b \in Batches, NEW n \in 0..MaxRetries,
           Enqueue(b, n)
    PROVE  queue' \in [Batches -> [0..MaxRetries -> Nat]]
BY DEF StoreTypeOK, Enqueue

LEMMA DequeueType ==
    ASSUME StoreTypeOK, NEW b \in Batches, NEW n \in 0..MaxRetries,
           Dequeue(b, n)
    PROVE  queue' \in [Batches -> [0..MaxRetries -> Nat]]
BY DEF StoreTypeOK, Dequeue

\* The statements of the handlers keep the tables well typed.
LEMMA StatementTypes ==
    ASSUME StoreTypeOK, NEW b \in Batches, NEW r \in Rows,
           SlotStatement(b, r) \/ MarkItemFailed(b, r)
    PROVE  /\ slDk' \in [Rows -> Nat]
           /\ batch' \in [Batches -> BatchStatus]
           /\ item' \in [Batches -> [Rows -> ItemStatus]]
<1> USE DEF StoreTypeOK, BatchStatus, ItemStatus
<1>1. CASE AcquireSlotAndMarkSuccess(b, r)
  BY <1>1 DEF AcquireSlotAndMarkSuccess
<1>2. CASE /\ payload[b][r] # NoBatch
           /\ ReleaseSlotAndMarkItems(b, r, payload[b][r])
  <2>1. payload[b][r] \in Batches
    BY <1>2
  <2> DEFINE cancelled == [item EXCEPT ![payload[b][r]][r] = "CANCELLED"]
  <2>2. cancelled \in [Batches -> [Rows -> ItemStatus]]
    BY <2>1
  <2>3. item' = [cancelled EXCEPT ![b][r] = "SUCCESS"]
    BY <1>2 DEF ReleaseSlotAndMarkItems
  <2>4. item' \in [Batches -> [Rows -> ItemStatus]]
    <3> HIDE DEF cancelled
    <3>1. QED
      BY <2>2, <2>3
  <2>5. slDk' \in [Rows -> Nat]
    <3>1. slDk' = [slDk EXCEPT ![r] = IF @ > 0 THEN @ - 1 ELSE 0]
      BY <1>2 DEF ReleaseSlotAndMarkItems
    <3>2. (IF slDk[r] > 0 THEN slDk[r] - 1 ELSE 0) \in Nat
      OBVIOUS
    <3>3. QED
      BY <3>1, <3>2
  <2>6. batch' = batch
    BY <1>2 DEF ReleaseSlotAndMarkItems
  <2>7. QED
    BY <2>4, <2>5, <2>6
<1>3. CASE MarkItemFailed(b, r)
  BY <1>3 DEF MarkItemFailed
<1>4. QED
  BY <1>1, <1>2, <1>3 DEF SlotStatement

\* So does the dead-letter consumer's transaction.
LEMMA MarkBatchFailedType ==
    ASSUME StoreTypeOK, NEW b \in Batches, MarkBatchFailed(b)
    PROVE  /\ slDk' \in [Rows -> Nat]
           /\ batch' \in [Batches -> BatchStatus]
           /\ item' \in [Batches -> [Rows -> ItemStatus]]
<1> USE DEF StoreTypeOK, BatchStatus, ItemStatus
<1> DEFINE settled == [r \in Rows |-> IF item[b][r] = "PENDING" THEN "FAILED"
                                                           ELSE item[b][r]]
<1>1. settled \in [Rows -> ItemStatus]
  OBVIOUS
<1>2. item' = [item EXCEPT ![b] = settled]
  BY DEF MarkBatchFailed
<1>3. item' \in [Batches -> [Rows -> ItemStatus]]
  <2> HIDE DEF settled
  <2>1. QED
    BY <1>1, <1>2
<1>4. QED
  BY <1>3 DEF MarkBatchFailed

\* A callback may move to any well-formed local state.
LEMMA DeliveryType ==
    ASSUME WorkerTypeOK, NEW d \in Deliveries, NEW x \in Delivery,
           x.at # "idle" => x.batch \in Batches,
           x.at = "markFailed" => x.row \in x.todo,
           delivery' = [delivery EXCEPT ![d] = x]
    PROVE  WorkerTypeOK'
BY DEF WorkerTypeOK

\* Idle is one.
LEMMA IdleType == Idle \in Delivery /\ Idle.at = "idle"
<1>1. 0 \in 0..MaxRetries
  OBVIOUS
<1>2. QED
  BY <1>1 DEF Idle, Delivery, Points

\* Every step of a worker preserves the types.
LEMMA WorkerTypes ==
    ASSUME TypeOK, WorkerNext, UNCHANGED apiVars
    PROVE  TypeOK'
<1> USE DEF TypeOK
<1>0. ApiTypeOK'
  BY DEF ApiTypeOK, apiVars
<1>f. FaultKinds = {"db", "ambiguous", "redis", "publish", "crash",
                    "connection", "dlq"}
  BY DEF FaultKinds
<1>d. \A d \in Deliveries : Busy(d) => /\ delivery[d].batch \in Batches
                                     /\ delivery[d].retry \in 0..MaxRetries
  BY DEF WorkerTypeOK, Delivery, Busy
<1>n. 0 \in 0..MaxRetries
  OBVIOUS
<1>1. ASSUME NEW d \in Deliveries, Deliver(d)
      PROVE  StoreTypeOK' /\ WorkerTypeOK'
  <2>1. PICK b \in Batches, n \in 0..MaxRetries :
          /\ Dequeue(b, n)
          /\ delivery' = [delivery EXCEPT ![d] =
               [Idle EXCEPT !.at = "load", !.batch = b, !.retry = n]]
    BY <1>1 DEF Deliver
  <2>2. StoreTypeOK'
    BY <1>1, <2>1, DequeueType
       DEF Deliver, StoreTypeOK, dbVars, redisVars
  <2>3. WorkerTypeOK'
    BY <2>1 DEF WorkerTypeOK, Delivery, Points, Idle
  <2>4. QED
    BY <2>2, <2>3
<1>2. ASSUME NEW d \in Deliveries, LoadStatuses(d)
      PROVE  StoreTypeOK' /\ WorkerTypeOK'
  <2>1. StoreTypeOK'
    BY <1>2, <1>f, FaultType
       DEF LoadStatuses, StoreTypeOK, dbVars, mqVars, redisVars
  <2>2. PendingItems(delivery[d].batch) \subseteq Rows
    BY DEF PendingItems
  <2>3. WorkerTypeOK'
    BY <1>2, <2>2 DEF LoadStatuses, WorkerTypeOK, Delivery, Points, Goto, At
  <2>4. QED
    BY <2>1, <2>3
<1>3. ASSUME NEW d \in Deliveries, NEW r \in Rows, ProcessItem(d, r)
      PROVE  StoreTypeOK' /\ WorkerTypeOK'
  <2>1. delivery[d].batch \in Batches /\ r \in delivery[d].todo
    BY <1>3, <1>d DEF ProcessItem, At, Busy
  <2>2. SlotStatement(delivery[d].batch, r) \/ UNCHANGED dbVars
    BY <1>3 DEF ProcessItem
  <2>3. faults' \in [FaultKinds -> Nat]
    BY <1>3, <1>f, FaultType DEF ProcessItem, StoreTypeOK
  <2>4. StoreTypeOK'
    BY <1>3, <2>1, <2>2, <2>3, StatementTypes
       DEF ProcessItem, StoreTypeOK, dbVars, mqVars, redisVars
  <2>5. \/ delivery' = [delivery EXCEPT ![d].todo = @ \ {r}]
        \/ delivery' = [delivery EXCEPT ![d].at = "markFailed", ![d].row = r]
    BY <1>3 DEF ProcessItem
  <2>6. WorkerTypeOK'
    <3>1. delivery[d] \in Delivery /\ delivery[d].at = "items"
      BY <1>3 DEF ProcessItem, At, WorkerTypeOK
    <3>2. CASE delivery' = [delivery EXCEPT ![d].todo = @ \ {r}]
      <4> DEFINE x == [delivery[d] EXCEPT !.todo = @ \ {r}]
      <4>1. x \in Delivery /\ x.at = "items" /\ x.batch = delivery[d].batch
        BY <3>1 DEF Delivery
      <4>2. delivery' = [delivery EXCEPT ![d] = x]
        BY <3>2
      <4> HIDE DEF x
      <4>3. QED
        BY <2>1, <4>1, <4>2, DeliveryType
    <3>3. CASE delivery' = [delivery EXCEPT ![d].at = "markFailed",
                                            ![d].row = r]
      <4> DEFINE x == [delivery[d] EXCEPT !.at = "markFailed", !.row = r]
      <4>1. x \in Delivery
        BY <3>1 DEF Delivery, Points
      <4>2. x.row = r /\ x.todo = delivery[d].todo /\ x.batch = delivery[d].batch
        BY <3>1 DEF Delivery
      <4>3. delivery' = [delivery EXCEPT ![d] = x]
        BY <3>3 DEF WorkerTypeOK
      <4> HIDE DEF x
      <4>4. QED
        BY <2>1, <4>1, <4>2, <4>3, DeliveryType
    <3>4. QED
      BY <2>5, <3>2, <3>3
  <2>7. QED
    BY <2>4, <2>6
<1>4. ASSUME NEW d \in Deliveries, MarkFailed(d)
      PROVE  StoreTypeOK' /\ WorkerTypeOK'
  <2>1. delivery[d].batch \in Batches /\ delivery[d].row \in Rows
    BY <1>4 DEF MarkFailed, At, WorkerTypeOK, Delivery
  <2>2. MarkItemFailed(delivery[d].batch, delivery[d].row) \/ UNCHANGED dbVars
    BY <1>4 DEF MarkFailed
  <2>3. faults' \in [FaultKinds -> Nat]
    BY <1>4, <1>f, FaultType DEF MarkFailed, StoreTypeOK
  <2>4. StoreTypeOK'
    BY <1>4, <2>1, <2>2, <2>3, StatementTypes
       DEF MarkFailed, StoreTypeOK, dbVars, mqVars, redisVars
  <2>5. WorkerTypeOK'
    BY <1>4 DEF MarkFailed, At, Goto, WorkerTypeOK, Delivery, Points
  <2>6. QED
    BY <2>4, <2>5
<1>5. ASSUME NEW d \in Deliveries, CompleteBatch(d)
      PROVE  StoreTypeOK' /\ WorkerTypeOK'
  <2>1. delivery[d].batch \in Batches
    BY <1>5, <1>d DEF CompleteBatch, At, Busy
  <2>2. MarkBatchCompleted(delivery[d].batch) \/ UNCHANGED dbVars
    BY <1>5 DEF CompleteBatch
  <2>3. faults' \in [FaultKinds -> Nat]
    BY <1>5, <1>f, FaultType DEF CompleteBatch, StoreTypeOK
  <2>t. /\ slDk' \in [Rows -> Nat]
        /\ batch' \in [Batches -> BatchStatus]
        /\ item' \in [Batches -> [Rows -> ItemStatus]]
    BY <2>1, <2>2
       DEF MarkBatchCompleted, StoreTypeOK, BatchStatus, dbVars
  <2>4. StoreTypeOK'
    BY <1>5, <2>3, <2>t
       DEF CompleteBatch, StoreTypeOK, mqVars, redisVars
  <2>5. WorkerTypeOK'
    <3>1. PICK p \in {"ack", "failed"} : Goto(d, p)
      BY <1>5 DEF CompleteBatch
    <3> DEFINE x == [delivery[d] EXCEPT !.at = p]
    <3>2. x \in Delivery /\ x.at = p /\ x.batch = delivery[d].batch
      BY DEF WorkerTypeOK, Delivery, Points
    <3>3. delivery' = [delivery EXCEPT ![d] = x]
      BY <3>1 DEF Goto
    <3> HIDE DEF x
    <3>4. QED
      BY <2>1, <3>2, <3>3, DeliveryType
  <2>6. QED
    BY <2>4, <2>5
<1>6. ASSUME NEW d \in Deliveries, RetryOrDeadLetter(d)
      PROVE  StoreTypeOK' /\ WorkerTypeOK'
  <2>1. delivery[d].batch \in Batches /\ delivery[d].retry \in 0..MaxRetries
    BY <1>6, <1>d DEF RetryOrDeadLetter, At, Busy
  <2>2. queue' \in [Batches -> [0..MaxRetries -> Nat]]
    <3>1. CASE delivery[d].retry < MaxRetries
      <4>1. delivery[d].retry + 1 \in 0..MaxRetries
        BY <2>1, <3>1
      <4>2. Enqueue(delivery[d].batch, delivery[d].retry + 1)
        BY <1>6, <3>1 DEF RetryOrDeadLetter
      <4>3. QED
        BY <2>1, <4>1, <4>2, EnqueueType
    <3>2. CASE ~(delivery[d].retry < MaxRetries)
      BY <1>6, <3>2 DEF RetryOrDeadLetter, StoreTypeOK
    <3>3. QED
      BY <3>1, <3>2
  <2>3. dlq' \in [Batches -> Nat]
    <3>1. PICK b \in Batches : \/ dlq' = [dlq EXCEPT ![b] = @ + 1]
                              \/ dlq' = dlq
      BY <1>6, <2>1 DEF RetryOrDeadLetter
    <3>2. CASE dlq' = [dlq EXCEPT ![b] = @ + 1]
      BY <3>2 DEF StoreTypeOK
    <3>3. QED
      BY <3>1, <3>2 DEF StoreTypeOK
  <2>4. StoreTypeOK'
    BY <1>6, <2>2, <2>3 DEF RetryOrDeadLetter, StoreTypeOK, dbVars, redisVars
  <2>5. WorkerTypeOK'
    BY <1>6 DEF RetryOrDeadLetter, At, Goto, WorkerTypeOK, Delivery, Points
  <2>6. QED
    BY <2>4, <2>5
<1>7. ASSUME NEW d \in Deliveries, Ack(d) \/ DieDetached(d)
      PROVE  StoreTypeOK' /\ WorkerTypeOK'
  <2>1. StoreTypeOK'
    BY <1>7 DEF Ack, DieDetached, StoreTypeOK, dbVars, mqVars, redisVars
  <2>2. WorkerTypeOK'
    BY <1>7, IdleType, DeliveryType DEF Ack, DieDetached
  <2>3. QED
    BY <2>1, <2>2
<1>8. ASSUME NEW d \in Deliveries, LoseConnection(d) \/ Crash(d)
      PROVE  StoreTypeOK' /\ WorkerTypeOK'
  <2>1. delivery[d].batch \in Batches /\ delivery[d].retry \in 0..MaxRetries
    BY <1>8, <1>d DEF LoseConnection, Crash
  <2>2. \/ Enqueue(delivery[d].batch, delivery[d].retry)
        \/ UNCHANGED queue
    BY <1>8 DEF LoseConnection, Crash
  <2>3. queue' \in [Batches -> [0..MaxRetries -> Nat]]
    BY <2>1, <2>2, EnqueueType DEF StoreTypeOK
  <2>4. faults' \in [FaultKinds -> Nat]
    BY <1>8, <1>f, FaultType DEF LoseConnection, Crash
  <2>5. StoreTypeOK'
    BY <1>8, <2>3, <2>4
       DEF LoseConnection, Crash, StoreTypeOK, dbVars, redisVars
  <2>6. WorkerTypeOK'
    <3>1. CASE LoseConnection(d)
      <4> DEFINE x == [delivery[d] EXCEPT !.attached = FALSE]
      <4>1. /\ x \in Delivery
            /\ x.at = delivery[d].at
            /\ x.batch = delivery[d].batch
            /\ x.row = delivery[d].row
            /\ x.todo = delivery[d].todo
        <5>1. delivery[d] \in Delivery
          BY DEF WorkerTypeOK
        <5>2. QED
          BY <5>1 DEF Delivery
      <4>2. delivery' = [delivery EXCEPT ![d] = x]
        BY <3>1 DEF LoseConnection
      <4>3. delivery[d].at = "markFailed" => delivery[d].row \in delivery[d].todo
        BY DEF WorkerTypeOK
      <4> HIDE DEF x
      <4>4. QED
        BY <2>1, <4>1, <4>2, <4>3, DeliveryType
    <3>2. CASE Crash(d)
      BY <3>2, IdleType, DeliveryType DEF Crash
    <3>3. QED
      BY <1>8, <3>1, <3>2
  <2>7. QED
    BY <2>5, <2>6
<1>9. ASSUME NEW b \in Batches, DeadLetter(b)
      PROVE  StoreTypeOK' /\ WorkerTypeOK'
  <2>1. MarkBatchFailed(b) \/ UNCHANGED dbVars
    BY <1>9 DEF DeadLetter
  <2>2. faults' \in [FaultKinds -> Nat]
    BY <1>9, <1>f, FaultType DEF DeadLetter, StoreTypeOK
  <2>3. dlq' \in [Batches -> Nat]
    BY <1>9 DEF DeadLetter, StoreTypeOK
  <2>t. /\ slDk' \in [Rows -> Nat]
        /\ batch' \in [Batches -> BatchStatus]
        /\ item' \in [Batches -> [Rows -> ItemStatus]]
    <3>1. CASE MarkBatchFailed(b)
      BY <3>1, MarkBatchFailedType
    <3>2. CASE UNCHANGED dbVars
      BY <3>2 DEF StoreTypeOK, dbVars
    <3>3. QED
      BY <2>1, <3>1, <3>2
  <2>4. StoreTypeOK'
    BY <1>9, <2>2, <2>3, <2>t DEF DeadLetter, StoreTypeOK, redisVars
  <2>5. WorkerTypeOK'
    BY <1>9 DEF DeadLetter, WorkerTypeOK, workerVars
  <2>6. QED
    BY <2>4, <2>5
<1>10. QED
  BY <1>0, <1>1, <1>2, <1>3, <1>4, <1>5, <1>6, <1>7, <1>8, <1>9
     DEF WorkerNext, DeliveryStep

\* Before the session every variable has its type.
LEMMA TypeCorrectInit == Init => TypeOK
<1> SUFFICES ASSUME Init PROVE TypeOK
  OBVIOUS
<1>1. StoreTypeOK
  BY DEF Init, StoreInit, StoreTypeOK, BatchStatus, ItemStatus
<1>2. ApiTypeOK
  BY <1>1, FreeOfType DEF Init, ApiInit, ApiTypeOK, ReqPoints, NoValue
<1>3. WorkerTypeOK
  BY DEF Init, WorkerInit, WorkerTypeOK, Idle, Delivery, Points
<1>4. QED
  BY <1>1, <1>2, <1>3 DEF TypeOK

\* No step leaves the types.
LEMMA TypeCorrectStep ==
    ASSUME TypeOK, [Next]_vars
    PROVE  TypeOK'
<1>1. CASE UNCHANGED vars
  BY <1>1 DEF vars, TypeOK, StoreTypeOK, ApiTypeOK, WorkerTypeOK, dbVars,
              mqVars, redisVars, apiVars, workerVars
<1>2. QED
  BY <1>1, ApiTypes, WorkerTypes DEF Next

\* Every variable always holds a value of its type: no retry count leaves
\* 0..MaxRetries, no counter goes below zero, a callback that marks an item
\* FAILED still has that item to do.
THEOREM TypeCorrect == Spec => []TypeOK
<1>1. Init => TypeOK
  BY TypeCorrectInit
<1>2. TypeOK /\ [Next]_vars => TypeOK'
  BY TypeCorrectStep
<1>3. QED
  BY <1>1, <1>2, PTL DEF Spec

----------------------------------------------------------------------------
(* Capacity.                                                               *)

\* No request step touches sl_dk.
LEMMA ApiKeepsSeats ==
    ASSUME NEW b \in Batches, RequestStep(b) \/ ApiCrash(b)
    PROVE  UNCHANGED slDk
<1> USE DEF dbVars, InsertBatch
<1>1. QED
  BY DEF RequestStep, ApiCrash, CheckNoPending, Resolve, FillLookup,
         CheckCapacity, RefillSlots, ReadActiveForCreate, ReadActiveForCancel,
         ReserveSlots, InsertBatchRows, RollbackSlots, Publish

\* A worker step leaves sl_dk alone unless it runs the statement of an item.
LEMMA WorkerSeats ==
    ASSUME WorkerNext
    PROVE  \/ UNCHANGED slDk
           \/ \E d \in Deliveries, r \in Rows :
                ProcessItem(d, r) /\ SlotStatement(delivery[d].batch, r)
<1> USE DEF dbVars
<1>1. ASSUME NEW d \in Deliveries, NEW r \in Rows, ProcessItem(d, r)
      PROVE  SlotStatement(delivery[d].batch, r) \/ UNCHANGED slDk
  BY <1>1 DEF ProcessItem
<1>2. ASSUME NEW d \in Deliveries,
             \/ Deliver(d) \/ LoadStatuses(d) \/ MarkFailed(d)
             \/ CompleteBatch(d) \/ RetryOrDeadLetter(d) \/ Ack(d)
             \/ DieDetached(d) \/ LoseConnection(d) \/ Crash(d)
      PROVE  UNCHANGED slDk
  BY <1>2 DEF Deliver, LoadStatuses, MarkFailed, MarkItemFailed, CompleteBatch,
              MarkBatchCompleted, RetryOrDeadLetter, Ack, DieDetached,
              LoseConnection, Crash
<1>3. ASSUME NEW b \in Batches, DeadLetter(b)
      PROVE  UNCHANGED slDk
  BY <1>3 DEF DeadLetter, MarkBatchFailed
<1>4. QED
  BY <1>1, <1>2, <1>3 DEF WorkerNext, DeliveryStep

\* One statement takes a seat, under its own guard.
LEMMA CapacityStep ==
    ASSUME TypeOK, CapacityRespected, [Next]_vars
    PROVE  CapacityRespected'
<1>1. CASE UNCHANGED slDk
  BY <1>1 DEF CapacityRespected
<1>2. ASSUME NEW d \in Deliveries, NEW r \in Rows,
             ProcessItem(d, r), SlotStatement(delivery[d].batch, r)
      PROVE  CapacityRespected'
  <2> DEFINE b == delivery[d].batch
  <2>1. CASE AcquireSlotAndMarkSuccess(b, r)
    BY <2>1 DEF AcquireSlotAndMarkSuccess, CapacityRespected, TypeOK,
                StoreTypeOK
  <2>2. CASE ReleaseSlotAndMarkItems(b, r, payload[b][r])
    <3>1. slDk' = [slDk EXCEPT ![r] = IF @ > 0 THEN @ - 1 ELSE 0]
      BY <2>2 DEF ReleaseSlotAndMarkItems
    <3>2. (IF slDk[r] > 0 THEN slDk[r] - 1 ELSE 0) <= slDk[r]
      BY DEF TypeOK, StoreTypeOK
    <3>3. QED
      BY <3>1, <3>2 DEF CapacityRespected, TypeOK, StoreTypeOK
  <2>3. QED
    BY <1>2, <2>1, <2>2 DEF SlotStatement
<1>3. CASE UNCHANGED vars
  BY <1>1, <1>3 DEF vars, dbVars
<1>4. QED
  BY <1>1, <1>2, <1>3, ApiKeepsSeats, WorkerSeats DEF Next, ApiNext

LEMMA CapacityInit == Init => CapacityRespected
BY DEF Init, StoreInit, CapacityRespected

\* The seat counter of a row never passes sl_max, for every number of
\* students, batches, workers and faults: the guard of the single statement
\* of acquireSlotAndMarkSuccess is enough, however it is interleaved.
THEOREM Capacity == Spec => []CapacityRespected
<1>1. TypeOK /\ CapacityRespected /\ [Next]_vars => CapacityRespected'
  BY CapacityStep
<1>2. QED
  BY <1>1, CapacityInit, TypeCorrect, PTL DEF Spec

----------------------------------------------------------------------------
(* No accepted batch is lost.                                              *)

\* The number of faults of a kind never decreases.
LEMMA FaultMonotone ==
    ASSUME StoreTypeOK, NEW k \in FaultKinds, UNCHANGED faults \/ Fault(k)
    PROVE  faults'["dlq"] = 0 => faults["dlq"] = 0
<1>1. "dlq" \in FaultKinds
  BY DEF FaultKinds
<1>2. QED
  BY <1>1 DEF StoreTypeOK, Fault

\* Enqueue leaves a copy, and takes none away.
LEMMA EnqueueAdds ==
    ASSUME StoreTypeOK, NEW b \in Batches, NEW n \in 0..MaxRetries,
           Enqueue(b, n)
    PROVE  /\ queue'[b][n] > 0
           /\ \A c \in Batches, m \in 0..MaxRetries :
                queue[c][m] > 0 => queue'[c][m] > 0
<1>1. queue[b] \in [0..MaxRetries -> Nat]
  BY DEF StoreTypeOK
<1>2. queue' = [queue EXCEPT ![b] = [queue[b] EXCEPT ![n] = queue[b][n] + 1]]
  BY DEF Enqueue
<1>3. queue'[b] = [queue[b] EXCEPT ![n] = queue[b][n] + 1]
  BY <1>2 DEF StoreTypeOK
<1>4. \A c \in Batches : c # b => queue'[c] = queue[c]
  BY <1>2 DEF StoreTypeOK
<1>5. queue'[b][n] = queue[b][n] + 1 /\ queue[b][n] \in Nat
  BY <1>1, <1>3
<1>6. \A m \in 0..MaxRetries : m # n => queue'[b][m] = queue[b][m]
  BY <1>1, <1>3
<1>7. QED
  BY <1>4, <1>5, <1>6

\* A request step adds copies and takes none, and the only one that answers
\* 201 has just added the copy of its batch.
LEMMA ApiOnlyAddsCopies ==
    ASSUME TypeOK, NEW b \in Batches, RequestStep(b) \/ ApiCrash(b)
    PROVE  /\ UNCHANGED queue \/ Enqueue(b, 0)
           /\ UNCHANGED dlq
           /\ \A c \in Batches \ {b} :
                req'[c] = req[c] /\ batch'[c] = batch[c]
           /\ req'[b] = "done" => Enqueue(b, 0)
           /\ \/ UNCHANGED faults
              \/ \E k \in FaultKinds : Fault(k)
<1> USE DEF TypeOK, ApiTypeOK, StoreTypeOK, Move, Throw, dbVars, mqVars,
            FaultKinds
<1>1. CASE InsertBatchRows(b)
  BY <1>1 DEF InsertBatchRows, InsertBatch
<1>2. CASE Publish(b)
  BY <1>2 DEF Publish
<1>3. CASE CheckNoPending(b)
  BY <1>3 DEF CheckNoPending
<1>4. CASE Resolve(b)
  BY <1>4 DEF Resolve, AfterResolve
<1>5. CASE FillLookup(b)
  BY <1>5 DEF FillLookup, AfterResolve
<1>6. CASE CheckCapacity(b)
  <2>1. /\ \E p \in {"refill", "refillFull", "active", "rejected", "error"} :
              req' = [req EXCEPT ![b] = p]
        /\ UNCHANGED <<batch, queue, dlq>>
        /\ UNCHANGED faults \/ Fault("redis")
    BY <1>6 DEF CheckCapacity
  <2>2. QED
    BY <2>1
<1>7. CASE RefillSlots(b)
  BY <1>7 DEF RefillSlots
<1>8. CASE ReadActiveForCreate(b)
  BY <1>8 DEF ReadActiveForCreate
<1>9. CASE ReadActiveForCancel(b)
  <2>1. /\ \E p \in {"pending", "rejected"} : req' = [req EXCEPT ![b] = p]
        /\ UNCHANGED <<batch, queue, dlq, faults>>
    BY <1>9 DEF ReadActiveForCancel
  <2>2. QED
    BY <2>1
<1>10. CASE ReserveSlots(b)
  BY <1>10 DEF ReserveSlots
<1>11. CASE RollbackSlots(b)
  BY <1>11 DEF RollbackSlots
<1>12. CASE ApiCrash(b)
  BY <1>12 DEF ApiCrash
<1>13. QED
  BY <1>1, <1>2, <1>3, <1>4, <1>5, <1>6, <1>7, <1>8, <1>9, <1>10, <1>11, <1>12
     DEF RequestStep

\* While the queues stay as they are, a batch is only lost through the one
\* callback that moves.
LEMMA WorkingElsewhere ==
    ASSUME NEW c \in Batches, NEW d \in Deliveries, Working(c),
           \A m \in 0..MaxRetries : queue[c][m] > 0 => queue'[c][m] > 0,
           dlq[c] > 0 => dlq'[c] > 0,
           \A e \in Deliveries : e # d => delivery'[e] = delivery[e],
           /\ delivery[d].at \notin {"idle", "ack"}
           /\ delivery[d].attached
           /\ delivery[d].batch = c
           => Working(c)'
    PROVE  Working(c)'
BY DEF Working

\* The copy a callback is working on is replaced before it is acked: no
\* worker step makes the last copy of a PENDING batch disappear.
LEMMA WorkerKeepsWorking ==
    ASSUME TypeOK, WorkerNext, NEW c \in Batches, Working(c),
           batch'[c] = "PENDING", faults'["dlq"] = 0
    PROVE  Working(c)'
<1> USE DEF TypeOK, StoreTypeOK, WorkerTypeOK
<1>1. ASSUME NEW d \in Deliveries, Deliver(d)
      PROVE  Working(c)'
  <2>1. PICK b \in Batches, n \in 0..MaxRetries :
          /\ Dequeue(b, n)
          /\ delivery' = [delivery EXCEPT ![d] =
               [Idle EXCEPT !.at = "load", !.batch = b, !.retry = n]]
    BY <1>1 DEF Deliver
  <2>2. dlq' = dlq /\ delivery[d].at = "idle"
    BY <1>1 DEF Deliver, At
  <2>3. CASE c = b
    <3>1. delivery'[d].at = "load" /\ delivery'[d].batch = c
            /\ delivery'[d].attached
      BY <2>1, <2>3 DEF Idle
    <3>2. QED
      BY <3>1 DEF Working
  <2>4. CASE c # b
    <3>1. queue'[c] = queue[c]
      BY <2>1, <2>4 DEF Dequeue
    <3>2. \A e \in Deliveries : e # d => delivery'[e] = delivery[e]
      BY <2>1
    <3>3. QED
      BY <2>2, <3>1, <3>2, WorkingElsewhere
  <2>5. QED
    BY <2>3, <2>4
<1>2. ASSUME NEW d \in Deliveries,
             \/ LoadStatuses(d) \/ MarkFailed(d)
             \/ \E r \in Rows : ProcessItem(d, r)
      PROVE  Working(c)'
  <2>1. UNCHANGED <<queue, dlq>>
    BY <1>2 DEF LoadStatuses, MarkFailed, ProcessItem, mqVars
  <2>2. /\ delivery'[d].at \in {"items", "failed", "markFailed"}
        /\ delivery'[d].batch = delivery[d].batch
        /\ delivery'[d].attached = delivery[d].attached
        /\ delivery[d].at \in {"load", "items", "markFailed"}
    BY <1>2 DEF LoadStatuses, MarkFailed, ProcessItem, Goto, At, Delivery
  <2>3. \A e \in Deliveries : e # d => delivery'[e] = delivery[e]
    BY <1>2 DEF LoadStatuses, MarkFailed, ProcessItem, Goto
  <2>4. QED
    <3>1. delivery[d].attached /\ delivery[d].batch = c => Working(c)'
      BY <2>2 DEF Working
    <3>2. QED
      BY <2>1, <2>3, <3>1, WorkingElsewhere
<1>3. ASSUME NEW d \in Deliveries, CompleteBatch(d)
      PROVE  Working(c)'
  <2>1. UNCHANGED <<queue, dlq>>
    BY <1>3 DEF CompleteBatch, mqVars
  <2>2. \A e \in Deliveries : e # d => delivery'[e] = delivery[e]
    BY <1>3 DEF CompleteBatch, Goto
  <2>3. \/ delivery[d].batch # c
        \/ /\ delivery'[d].at = "failed"
           /\ delivery'[d].batch = c
           /\ delivery'[d].attached = delivery[d].attached
    BY <1>3 DEF CompleteBatch, MarkBatchCompleted, Goto, Delivery
  <2>4. QED
    <3>1. delivery[d].attached /\ delivery[d].batch = c => Working(c)'
      BY <2>3 DEF Working
    <3>2. QED
      BY <2>1, <2>2, <3>1, WorkingElsewhere
<1>4. ASSUME NEW d \in Deliveries, RetryOrDeadLetter(d)
      PROVE  Working(c)'
  <2> DEFINE b == delivery[d].batch
             n == delivery[d].retry
  <2>1. b \in Batches /\ n \in 0..MaxRetries
    BY <1>4 DEF RetryOrDeadLetter, At, Delivery
  <2>2. \A e \in Deliveries : e # d => delivery'[e] = delivery[e]
    BY <1>4 DEF RetryOrDeadLetter, Goto
  <2>3. CASE n < MaxRetries
    <3>1. n + 1 \in 0..MaxRetries
      BY <2>1, <2>3
    <3>2. Enqueue(b, n + 1) /\ dlq' = dlq
      BY <1>4, <2>3 DEF RetryOrDeadLetter
    <3>3. b = c => Working(c)'
      BY <2>1, <3>1, <3>2, EnqueueAdds DEF Working
    <3>4. \A m \in 0..MaxRetries : queue[c][m] > 0 => queue'[c][m] > 0
      <4>1. \E a \in Batches, k \in 0..MaxRetries : Enqueue(a, k)
        BY <2>1, <3>1, <3>2
      <4>2. QED
        BY <4>1, EnqueueAdds
    <3>5. QED
      BY <2>2, <3>2, <3>3, <3>4, WorkingElsewhere
  <2>4. CASE ~(n < MaxRetries)
    <3>1. dlq' = [dlq EXCEPT ![b] = @ + 1] /\ queue' = queue
      BY <1>4, <2>4 DEF RetryOrDeadLetter
    <3>2. dlq'[b] > 0
      BY <2>1, <3>1
    <3>3. b = c => Working(c)'
      BY <3>2 DEF Working
    <3>4. dlq[c] > 0 => dlq'[c] > 0
      BY <2>1, <3>1
    <3>5. QED
      BY <2>2, <3>1, <3>3, <3>4, WorkingElsewhere
  <2>5. QED
    BY <2>3, <2>4
<1>5. ASSUME NEW d \in Deliveries, Ack(d) \/ DieDetached(d)
      PROVE  Working(c)'
  <2>1. UNCHANGED <<queue, dlq>>
    BY <1>5 DEF Ack, DieDetached, mqVars
  <2>2. \A e \in Deliveries : e # d => delivery'[e] = delivery[e]
    BY <1>5 DEF Ack, DieDetached
  <2>3. delivery[d].at = "ack" \/ ~delivery[d].attached
    BY <1>5 DEF Ack, DieDetached, At
  <2>4. QED
    BY <2>1, <2>2, <2>3, WorkingElsewhere
<1>6. ASSUME NEW d \in Deliveries, LoseConnection(d) \/ Crash(d)
      PROVE  Working(c)'
  <2> DEFINE b == delivery[d].batch
             n == delivery[d].retry
  <2>1. b \in Batches /\ n \in 0..MaxRetries
    BY <1>6 DEF LoseConnection, Crash, Busy, Delivery
  <2>2. dlq' = dlq
    BY <1>6 DEF LoseConnection, Crash
  <2>3. \A e \in Deliveries : e # d => delivery'[e] = delivery[e]
    BY <1>6 DEF LoseConnection, Crash
  <2>4. CASE Enqueue(b, n)
    <3>1. b = c => Working(c)'
      BY <2>1, <2>4, EnqueueAdds DEF Working
    <3>2. QED
      BY <2>1, <2>2, <2>3, <2>4, <3>1, EnqueueAdds, WorkingElsewhere
  <2>5. CASE ~delivery[d].attached /\ UNCHANGED queue
    BY <2>2, <2>3, <2>5, WorkingElsewhere
  <2>6. QED
    BY <1>6, <2>4, <2>5 DEF LoseConnection, Crash
<1>7. ASSUME NEW b \in Batches, DeadLetter(b)
      PROVE  Working(c)'
  <2>1. UNCHANGED <<queue, delivery>>
    BY <1>7 DEF DeadLetter, workerVars
  <2>2. CASE MarkBatchFailed(b)
    <3>1. c # b
      BY <2>2 DEF MarkBatchFailed
    <3>2. dlq'[c] = dlq[c]
      BY <1>7, <3>1 DEF DeadLetter
    <3>3. QED
      BY <2>1, <3>2 DEF Working
  <2>3. CASE Fault("dlq")
    <3>1. "dlq" \in FaultKinds
      BY DEF FaultKinds
    <3>2. faults'["dlq"] # 0
      BY <2>3, <3>1 DEF Fault
    <3>3. QED
      BY <3>2
  <2>4. QED
    BY <1>7, <2>2, <2>3 DEF DeadLetter
<1>8. QED
  BY <1>1, <1>2, <1>3, <1>4, <1>5, <1>6, <1>7 DEF WorkerNext, DeliveryStep

\* No worker step makes a batch PENDING.
LEMMA WorkerNeverReopens ==
    ASSUME TypeOK, WorkerNext, NEW c \in Batches, batch'[c] = "PENDING"
    PROVE  batch[c] = "PENDING"
<1> USE DEF TypeOK, StoreTypeOK, dbVars
<1>1. ASSUME NEW d \in Deliveries, NEW r \in Rows, ProcessItem(d, r)
      PROVE  UNCHANGED batch
  BY <1>1 DEF ProcessItem, SlotStatement, AcquireSlotAndMarkSuccess,
              ReleaseSlotAndMarkItems
<1>2. ASSUME NEW d \in Deliveries,
             \/ Deliver(d) \/ LoadStatuses(d) \/ MarkFailed(d)
             \/ RetryOrDeadLetter(d) \/ Ack(d) \/ DieDetached(d)
             \/ LoseConnection(d) \/ Crash(d)
      PROVE  UNCHANGED batch
  BY <1>2 DEF Deliver, LoadStatuses, MarkFailed, MarkItemFailed,
              RetryOrDeadLetter, Ack, DieDetached, LoseConnection, Crash
<1>3. ASSUME NEW d \in Deliveries, CompleteBatch(d)
      PROVE  batch[c] = "PENDING"
  BY <1>3 DEF CompleteBatch, MarkBatchCompleted
<1>4. ASSUME NEW b \in Batches, DeadLetter(b)
      PROVE  batch[c] = "PENDING"
  BY <1>4 DEF DeadLetter, MarkBatchFailed
<1>5. QED
  BY <1>1, <1>2, <1>3, <1>4 DEF WorkerNext, DeliveryStep

\* A worker step counts at most one fault.
LEMMA WorkerFaults ==
    ASSUME WorkerNext
    PROVE  UNCHANGED faults \/ \E k \in FaultKinds : Fault(k)
<1> USE DEF FaultKinds
<1>1. ASSUME NEW d \in Deliveries, NEW r \in Rows, ProcessItem(d, r)
      PROVE  UNCHANGED faults \/ \E k \in FaultKinds : Fault(k)
  BY <1>1 DEF ProcessItem
<1>2. ASSUME NEW d \in Deliveries,
             \/ Deliver(d) \/ LoadStatuses(d) \/ MarkFailed(d)
             \/ RetryOrDeadLetter(d) \/ Ack(d) \/ DieDetached(d)
             \/ LoseConnection(d) \/ Crash(d) \/ CompleteBatch(d)
      PROVE  UNCHANGED faults \/ \E k \in FaultKinds : Fault(k)
  BY <1>2 DEF Deliver, LoadStatuses, MarkFailed, CompleteBatch,
              RetryOrDeadLetter, Ack, DieDetached, LoseConnection, Crash
<1>3. ASSUME NEW b \in Batches, DeadLetter(b)
      PROVE  UNCHANGED faults \/ \E k \in FaultKinds : Fault(k)
  BY <1>3 DEF DeadLetter
<1>4. QED
  BY <1>1, <1>2, <1>3 DEF WorkerNext, DeliveryStep

\* A batch answered 201 keeps a copy of its message in the broker, or in a
\* callback that will replace it, until it is COMPLETED, for every number of
\* crashes, lost connections, failed statements and retries; only an error
\* of the dead-letter transaction may lose it.
THEOREM NothingAcceptedIsLost == Spec => []AcceptedNotLost
<1>1. Init => AcceptedNotLost
  BY DEF Init, ApiInit, AcceptedNotLost
<1>2. TypeOK /\ AcceptedNotLost /\ [Next]_vars => AcceptedNotLost'
  <2> SUFFICES ASSUME TypeOK, AcceptedNotLost, [Next]_vars,
                      NEW c \in Batches,
                      req'[c] = "done", batch'[c] = "PENDING", faults'["dlq"] = 0
               PROVE  Working(c)'
    BY DEF AcceptedNotLost
  <2>1. ASSUME NEW b \in Batches, RequestStep(b) \/ ApiCrash(b),
               UNCHANGED workerVars
        PROVE  Working(c)'
    <3>0. 0 \in 0..MaxRetries
      OBVIOUS
    <3>1. CASE c = b
      BY <2>1, <3>0, <3>1, ApiOnlyAddsCopies, EnqueueAdds DEF Working, TypeOK
    <3>2. CASE c # b
      <4>1. req[c] = "done" /\ batch[c] = "PENDING" /\ faults["dlq"] = 0
        BY <2>1, <3>2, ApiOnlyAddsCopies, FaultMonotone DEF TypeOK, FaultKinds
      <4>2. Working(c)
        BY <4>1 DEF AcceptedNotLost
      <4>3. \A m \in 0..MaxRetries : queue[c][m] > 0 => queue'[c][m] > 0
        BY <2>1, <3>0, ApiOnlyAddsCopies, EnqueueAdds DEF TypeOK
      <4>4. dlq' = dlq /\ delivery' = delivery
        BY <2>1, ApiOnlyAddsCopies DEF workerVars
      <4>5. QED
        BY <4>2, <4>3, <4>4 DEF Working
    <3>3. QED
      BY <3>1, <3>2
  <2>2. CASE WorkerNext /\ UNCHANGED apiVars
    <3>1. req[c] = "done"
      BY <2>2 DEF apiVars
    <3>2. batch[c] = "PENDING"
      BY <2>2, WorkerNeverReopens
    <3>3. faults["dlq"] = 0
      BY <2>2, WorkerFaults, FaultMonotone DEF TypeOK
    <3>4. Working(c)
      BY <3>1, <3>2, <3>3 DEF AcceptedNotLost
    <3>5. QED
      BY <2>2, <3>4, WorkerKeepsWorking
  <2>3. CASE UNCHANGED vars
    BY <2>3 DEF vars, dbVars, mqVars, apiVars, workerVars, AcceptedNotLost,
                Working
  <2>4. QED
    BY <2>1, <2>2, <2>3 DEF Next, ApiNext
<1>3. QED
  BY <1>1, <1>2, TypeCorrect, PTL DEF Spec

----------------------------------------------------------------------------
(* A COMPLETED batch is settled.                                           *)

\* What a request step may do to the state SettledInv relates.
LEMMA ApiFrame ==
    ASSUME TypeOK, NEW b \in Batches, RequestStep(b) \/ ApiCrash(b)
    PROVE  /\ req[b] \notin BeforeInsert => req'[b] \notin BeforeInsert
           /\ \/ UNCHANGED <<batch, item>>
              \/ /\ InsertBatch(b)
                 /\ req[b] \in BeforeInsert
                 /\ req'[b] \notin BeforeInsert
           /\ \/ UNCHANGED queue
              \/ Enqueue(b, 0) /\ req'[b] \notin BeforeInsert
           /\ \/ UNCHANGED payload
              \/ \E src \in [Rows -> Batches \cup {NoBatch}] :
                   /\ payload' = [payload EXCEPT ![b] = src]
                   /\ \A r \in Rows :
                        src[r] # NoBatch => item[src[r]][r] = "SUCCESS"
<1> USE DEF TypeOK, ApiTypeOK, StoreTypeOK, Move, Throw, dbVars, mqVars,
            BeforeInsert, ReqPoints, Answered
<1>1. CASE InsertBatchRows(b)
  BY <1>1 DEF InsertBatchRows
<1>2. CASE Publish(b)
  BY <1>2 DEF Publish
<1>3. CASE CheckNoPending(b)
  BY <1>3 DEF CheckNoPending, MayStart
<1>4. CASE Resolve(b)
  BY <1>4 DEF Resolve, MayStart
<1>5. CASE FillLookup(b)
  BY <1>5 DEF FillLookup
<1>6. CASE CheckCapacity(b)
  <2>1. /\ req[b] = "capacity"
        /\ UNCHANGED <<batch, item, queue, payload>>
    BY <1>6 DEF CheckCapacity
  <2>2. QED
    BY <2>1
<1>7. CASE RefillSlots(b)
  BY <1>7 DEF RefillSlots
<1>8. CASE ReadActiveForCreate(b)
  BY <1>8 DEF ReadActiveForCreate
<1>9. CASE ReadActiveForCancel(b)
  <2>1. req[b] = "active" /\ UNCHANGED <<batch, item, queue>>
    BY <1>9 DEF ReadActiveForCancel
  <2>2. \/ UNCHANGED payload
        \/ \E src \in [Rows -> Batches \cup {NoBatch}] :
             /\ payload' = [payload EXCEPT ![b] = src]
             /\ \A r \in Rows :
                  src[r] # NoBatch => src[r] \in ActiveItems(ask[b].user, r)
    BY <1>9 DEF ReadActiveForCancel
  <2>3. \A r \in Rows : \A c \in ActiveItems(ask[b].user, r) :
          item[c][r] = "SUCCESS"
    BY DEF ActiveItems, Holders, Holds
  <2>4. QED
    BY <2>1, <2>2, <2>3
<1>10. CASE ReserveSlots(b)
  BY <1>10 DEF ReserveSlots
<1>11. CASE RollbackSlots(b)
  BY <1>11 DEF RollbackSlots
<1>12. CASE ApiCrash(b)
  BY <1>12 DEF ApiCrash
<1>13. QED
  BY <1>1, <1>2, <1>3, <1>4, <1>5, <1>6, <1>7, <1>8, <1>9, <1>10, <1>11, <1>12
     DEF RequestStep

\* Inserting b's rows touches no other batch.
LEMMA InsertElsewhere ==
    ASSUME TypeOK, NEW b \in Batches, InsertBatch(b),
           NEW c \in Batches, c # b
    PROVE  item'[c] = item[c] /\ batch'[c] = batch[c]
BY DEF InsertBatch, TypeOK, StoreTypeOK

\* A request step keeps the invariant.
LEMMA ApiKeepsSettled ==
    ASSUME TypeOK, SettledInv, NEW b \in Batches,
           RequestStep(b) \/ ApiCrash(b), UNCHANGED workerVars
    PROVE  SettledInv'
<1> USE DEF SettledInv
<1>d. UNCHANGED <<delivery, dlq>>
  BY ApiOnlyAddsCopies DEF workerVars
<1>f. /\ \A c \in Batches \ {b} : req'[c] = req[c] /\ batch'[c] = batch[c]
      /\ \A c \in Batches \ {b} : item'[c] = item[c]
      /\ \A c \in Batches \ {b} : queue'[c] = queue[c]
  <2>1. UNCHANGED item \/ InsertBatch(b)
    BY ApiFrame
  <2>2. UNCHANGED queue \/ queue' = [queue EXCEPT ![b][0] = @ + 1]
    BY ApiFrame DEF Enqueue
  <2>3. \A c \in Batches \ {b} : queue'[c] = queue[c]
    BY <2>2 DEF TypeOK, StoreTypeOK
  <2>4. QED
    BY <2>1, <2>3, ApiOnlyAddsCopies, InsertElsewhere
<1>k. \A c \in Batches : req'[c] \in BeforeInsert => req[c] \in BeforeInsert
  BY <1>f, ApiFrame
<1>1. InsertPrecedesWork'
  <2> SUFFICES ASSUME NEW c \in Batches, req'[c] \in BeforeInsert
               PROVE  /\ \A r \in Rows : item'[c][r] = "NONE"
                      /\ \A n \in 0..MaxRetries : queue'[c][n] = 0
                      /\ dlq'[c] = 0
                      /\ \A d \in Deliveries :
                           Busy(d)' => delivery'[d].batch # c
    BY DEF InsertPrecedesWork
  <2>1. item'[c] = item[c] /\ queue'[c] = queue[c]
    BY <1>f, ApiFrame
  <2>2. QED
    BY <1>d, <1>k, <2>1 DEF InsertPrecedesWork, Busy
<1>2. SourcesInserted'
  <2> SUFFICES ASSUME NEW c \in Batches, NEW r \in Rows,
                      payload'[c][r] # NoBatch
               PROVE  req'[payload'[c][r]] \notin BeforeInsert
    BY DEF SourcesInserted
  <2>1. CASE payload'[c] = payload[c]
    <3>1. payload[c][r] \in Batches /\ payload'[c][r] = payload[c][r]
      BY <2>1 DEF TypeOK, StoreTypeOK
    <3>2. req[payload[c][r]] \notin BeforeInsert
      BY <3>1, StoreAssumption DEF SourcesInserted
    <3>3. QED
      BY <1>k, <3>1, <3>2
  <2>2. CASE payload'[c] # payload[c]
    <3>1. PICK src \in [Rows -> Batches \cup {NoBatch}] :
            /\ payload' = [payload EXCEPT ![b] = src]
            /\ \A q \in Rows :
                 src[q] # NoBatch => item[src[q]][q] = "SUCCESS"
      BY <2>2, ApiFrame
    <3>2. payload'[c] = src
      BY <2>2, <3>1 DEF TypeOK, StoreTypeOK
    <3>3. src[r] \in Batches /\ item[src[r]][r] = "SUCCESS"
      BY <3>1, <3>2
    <3>4. req[src[r]] \notin BeforeInsert
      BY <3>3 DEF InsertPrecedesWork
    <3>5. QED
      BY <1>k, <3>2, <3>3, <3>4
  <2>3. QED
    BY <2>1, <2>2
<1>3. TodoCoversPending'
  <2> SUFFICES ASSUME NEW d \in Deliveries,
                      delivery[d].at \in {"items", "markFailed"}
               PROVE  PendingItems(delivery[d].batch)' \subseteq delivery[d].todo
    BY <1>d DEF TodoCoversPending, PendingItems
  <2>1. delivery[d].batch \in Batches
    BY DEF TypeOK, WorkerTypeOK
  <2>2. item'[delivery[d].batch] = item[delivery[d].batch]
    <3>1. CASE delivery[d].batch # b
      BY <1>f, <2>1, <3>1
    <3>2. CASE delivery[d].batch = b
      BY <1>k, <3>2, ApiFrame DEF InsertPrecedesWork, Busy
    <3>3. QED
      BY <3>1, <3>2
  <2>3. QED
    BY <1>d, <2>2 DEF TodoCoversPending, PendingItems
<1>4. CompletedIsSettled'
  <2> SUFFICES ASSUME NEW c \in Batches, batch'[c] = "COMPLETED"
               PROVE  PendingItems(c)' = {}
    BY DEF CompletedIsSettled
  <2>1. batch'[c] = batch[c] /\ item'[c] = item[c]
    <3>1. InsertBatch(b) => batch'[b] = "PENDING"
      BY DEF InsertBatch, TypeOK, StoreTypeOK
    <3>2. QED
      BY <1>f, <3>1, ApiFrame
  <2>2. QED
    BY <2>1 DEF CompletedIsSettled, PendingItems
<1>5. QED
  BY <1>1, <1>2, <1>3, <1>4

\* What a worker step may do to the items: it makes none PENDING and leaves
\* those of batches that are not inserted alone.
LEMMA WorkerItems ==
    ASSUME TypeOK, SettledInv, WorkerNext, NEW c \in Batches, NEW q \in Rows
    PROVE  /\ item'[c][q] = "PENDING" => item[c][q] = "PENDING"
           /\ req[c] \in BeforeInsert => item'[c][q] = item[c][q]
<1> USE DEF TypeOK, StoreTypeOK, WorkerTypeOK, dbVars
<1>1. CASE UNCHANGED item
  BY <1>1
<1>2. ASSUME NEW d \in Deliveries, NEW r \in Rows, ProcessItem(d, r)
      PROVE  /\ item'[c][q] = "PENDING" => item[c][q] = "PENDING"
             /\ req[c] \in BeforeInsert => item'[c][q] = item[c][q]
  <2> DEFINE b == delivery[d].batch
  <2>1. b \in Batches /\ req[b] \notin BeforeInsert
    BY <1>2 DEF ProcessItem, At, Busy, SettledInv, InsertPrecedesWork
  <2> HIDE DEF b
  <2>2. CASE AcquireSlotAndMarkSuccess(b, r)
    BY <2>1, <2>2 DEF AcquireSlotAndMarkSuccess
  <2>3. CASE payload[b][r] # NoBatch
             /\ ReleaseSlotAndMarkItems(b, r, payload[b][r])
    <3>1. /\ payload[b][r] \in Batches
          /\ req[payload[b][r]] \notin BeforeInsert
      BY <2>1, <2>3 DEF SettledInv, SourcesInserted
    <3>2. PICK src \in Batches : /\ req[src] \notin BeforeInsert
                                /\ ReleaseSlotAndMarkItems(b, r, src)
      BY <2>3, <3>1
    <3>3. item' = [item EXCEPT ![src][r] = "CANCELLED", ![b][r] = "SUCCESS"]
      BY <3>2 DEF ReleaseSlotAndMarkItems
    <3>4. item'[c][q] \in {item[c][q], "CANCELLED", "SUCCESS"}
      BY <2>1, <3>3
    <3>5. c # src /\ c # b => item'[c] = item[c]
      BY <2>1, <3>3
    <3>6. QED
      BY <2>1, <3>2, <3>4, <3>5
  <2>4. CASE UNCHANGED item
    BY <2>4
  <2>5. QED
    BY <1>2, <2>2, <2>3, <2>4 DEF ProcessItem, SlotStatement, b
<1>3. ASSUME NEW d \in Deliveries, MarkFailed(d)
      PROVE  /\ item'[c][q] = "PENDING" => item[c][q] = "PENDING"
             /\ req[c] \in BeforeInsert => item'[c][q] = item[c][q]
  <2>1. /\ delivery[d].batch \in Batches
        /\ req[delivery[d].batch] \notin BeforeInsert
    BY <1>3 DEF MarkFailed, At, Busy, SettledInv, InsertPrecedesWork
  <2>2. \/ UNCHANGED item
        \/ \E b \in Batches, r \in Rows :
             /\ req[b] \notin BeforeInsert
             /\ item' = [item EXCEPT ![b][r] = "FAILED"]
    BY <1>3, <2>1 DEF MarkFailed, MarkItemFailed, At, Delivery
  <2>3. ASSUME NEW b \in Batches, NEW r \in Rows, req[b] \notin BeforeInsert,
               item' = [item EXCEPT ![b][r] = "FAILED"]
        PROVE  /\ item'[c][q] = "PENDING" => item[c][q] = "PENDING"
               /\ req[c] \in BeforeInsert => item'[c][q] = item[c][q]
    BY <2>3
  <2>4. QED
    BY <2>2, <2>3
<1>4. ASSUME NEW d \in Deliveries,
             \/ Deliver(d) \/ LoadStatuses(d) \/ RetryOrDeadLetter(d)
             \/ Ack(d) \/ DieDetached(d) \/ LoseConnection(d) \/ Crash(d)
             \/ CompleteBatch(d)
      PROVE  UNCHANGED item
  BY <1>4 DEF Deliver, LoadStatuses, RetryOrDeadLetter, Ack, DieDetached,
              LoseConnection, Crash, CompleteBatch, MarkBatchCompleted
<1>5. ASSUME NEW b \in Batches, DeadLetter(b)
      PROVE  /\ item'[c][q] = "PENDING" => item[c][q] = "PENDING"
             /\ req[c] \in BeforeInsert => item'[c][q] = item[c][q]
  <2>1. req[b] \notin BeforeInsert
    BY <1>5 DEF DeadLetter, SettledInv, InsertPrecedesWork
  <2>2. \/ UNCHANGED item
        \/ item' = [item EXCEPT ![b] =
                      [r \in Rows |-> IF item[b][r] = "PENDING" THEN "FAILED"
                                                                ELSE item[b][r]]]
    BY <1>5 DEF DeadLetter, MarkBatchFailed
  <2>3. ASSUME item' = [item EXCEPT ![b] =
                          [r \in Rows |-> IF item[b][r] = "PENDING" THEN "FAILED"
                                                                    ELSE item[b][r]]]
        PROVE  /\ item'[c][q] = "PENDING" => item[c][q] = "PENDING"
               /\ c # b => item'[c] = item[c]
    <3>1. item'[b] = [r \in Rows |-> IF item[b][r] = "PENDING" THEN "FAILED"
                                                              ELSE item[b][r]]
      BY <2>3
    <3>2. item'[b][q] # "PENDING"
      BY <3>1
    <3>3. c # b => item'[c] = item[c]
      BY <2>3
    <3>4. QED
      BY <3>2, <3>3
  <2>4. QED
    BY <2>1, <2>2, <2>3
<1>6. QED
  BY <1>1, <1>2, <1>3, <1>4, <1>5 DEF WorkerNext, DeliveryStep

\* Nothing of b is with the broker or a worker.
Untouched(b) ==
    /\ \A n \in 0..MaxRetries : queue[b][n] = 0
    /\ dlq[b] = 0
    /\ \A d \in Deliveries : Busy(d) => delivery[d].batch # b

\* What a worker step may do to the messages of such a batch: nothing.
LEMMA UntouchedStays ==
    ASSUME TypeOK, WorkerNext, NEW c \in Batches, Untouched(c)
    PROVE  /\ queue'[c] = queue[c]
           /\ dlq'[c] = dlq[c]
           /\ \A d \in Deliveries : Busy(d)' => delivery'[d].batch # c
<1> USE DEF TypeOK, StoreTypeOK, WorkerTypeOK, mqVars, Busy
<1>0. /\ \A n \in 0..MaxRetries : queue[c][n] = 0
      /\ dlq[c] = 0
      /\ \A d \in Deliveries : Busy(d) => delivery[d].batch # c
  BY DEF Untouched
<1>1. ASSUME NEW d \in Deliveries, Deliver(d)
      PROVE  /\ queue'[c] = queue[c]
             /\ dlq'[c] = dlq[c]
             /\ \A e \in Deliveries : Busy(e)' => delivery'[e].batch # c
  <2>1. PICK b \in Batches, n \in 0..MaxRetries :
          /\ Dequeue(b, n)
          /\ delivery' = [delivery EXCEPT ![d] =
               [Idle EXCEPT !.at = "load", !.batch = b, !.retry = n]]
    BY <1>1 DEF Deliver
  <2>2. b # c
    BY <1>0, <2>1 DEF Dequeue
  <2>3. queue'[c] = queue[c]
    BY <2>1, <2>2 DEF Dequeue
  <2>4. delivery'[d].batch # c
    BY <2>1, <2>2 DEF Idle
  <2>5. \A e \in Deliveries : e # d => delivery'[e] = delivery[e]
    BY <2>1
  <2>6. QED
    BY <1>0, <1>1, <2>3, <2>4, <2>5 DEF Deliver
<1>2. ASSUME NEW d \in Deliveries, Busy(d),
             \/ /\ UNCHANGED queue
                /\ dlq' = dlq \/ dlq' = [dlq EXCEPT ![delivery[d].batch] = @ + 1]
             \/ /\ UNCHANGED dlq
                /\ \E n \in 0..MaxRetries : Enqueue(delivery[d].batch, n),
             \A e \in Deliveries : e # d => delivery'[e] = delivery[e],
             Busy(d)' => delivery'[d].batch = delivery[d].batch
      PROVE  /\ queue'[c] = queue[c]
             /\ dlq'[c] = dlq[c]
             /\ \A e \in Deliveries : Busy(e)' => delivery'[e].batch # c
  <2>1. delivery[d].batch # c
    BY <1>0, <1>2
  <2>2. queue'[c] = queue[c]
    BY <1>2, <2>1 DEF Enqueue
  <2>3. dlq'[c] = dlq[c]
    BY <1>2, <2>1
  <2>4. QED
    BY <1>0, <1>2, <2>1, <2>2, <2>3
<1>3. ASSUME NEW d \in Deliveries,
             \/ LoadStatuses(d) \/ MarkFailed(d) \/ CompleteBatch(d)
             \/ \E r \in Rows : ProcessItem(d, r)
             \/ Ack(d) \/ DieDetached(d)
      PROVE  /\ Busy(d)
             /\ UNCHANGED <<queue, dlq>>
             /\ \A e \in Deliveries : e # d => delivery'[e] = delivery[e]
             /\ Busy(d)' => delivery'[d].batch = delivery[d].batch
  BY <1>3 DEF LoadStatuses, MarkFailed, CompleteBatch, ProcessItem, Ack,
              DieDetached, Goto, At, Idle, Delivery
<1>4. ASSUME NEW d \in Deliveries,
             RetryOrDeadLetter(d) \/ LoseConnection(d) \/ Crash(d)
      PROVE  /\ Busy(d)
             /\ \/ /\ UNCHANGED queue
                   /\ dlq' = dlq
                        \/ dlq' = [dlq EXCEPT ![delivery[d].batch] = @ + 1]
                \/ /\ UNCHANGED dlq
                   /\ \E n \in 0..MaxRetries : Enqueue(delivery[d].batch, n)
             /\ \A e \in Deliveries : e # d => delivery'[e] = delivery[e]
             /\ Busy(d)' => delivery'[d].batch = delivery[d].batch
  <2>1. delivery[d].retry \in 0..MaxRetries
    BY DEF Delivery
  <2>2. delivery[d].retry < MaxRetries => delivery[d].retry + 1 \in 0..MaxRetries
    BY <2>1
  <2>3. QED
    BY <1>4, <2>1, <2>2
       DEF RetryOrDeadLetter, LoseConnection, Crash, Goto, At, Idle, Delivery
<1>5. ASSUME NEW b \in Batches, DeadLetter(b)
      PROVE  /\ queue'[c] = queue[c]
             /\ dlq'[c] = dlq[c]
             /\ UNCHANGED delivery
  <2>1. b # c
    BY <1>0, <1>5 DEF DeadLetter
  <2>2. QED
    BY <1>5, <2>1 DEF DeadLetter, workerVars
<1>6. CASE \E b \in Batches : DeadLetter(b)
  BY <1>0, <1>5, <1>6
<1>7. ASSUME NEW d \in Deliveries,
             \/ Deliver(d) \/ DeliveryStep(d) \/ LoseConnection(d) \/ Crash(d)
      PROVE  /\ queue'[c] = queue[c]
             /\ dlq'[c] = dlq[c]
             /\ \A e \in Deliveries : Busy(e)' => delivery'[e].batch # c
  BY <1>1, <1>2, <1>3, <1>4, <1>7 DEF DeliveryStep
<1>8. QED
  BY <1>6, <1>7 DEF WorkerNext

\* The statement of an item settles it.
LEMMA SettlesItem ==
    ASSUME TypeOK, NEW b \in Batches, NEW r \in Rows, SlotStatement(b, r)
    PROVE  item'[b][r] = "SUCCESS"
<1> USE DEF TypeOK, StoreTypeOK
<1>1. CASE AcquireSlotAndMarkSuccess(b, r)
  BY <1>1 DEF AcquireSlotAndMarkSuccess
<1>2. CASE \E src \in Batches : ReleaseSlotAndMarkItems(b, r, src)
  BY <1>2 DEF ReleaseSlotAndMarkItems
<1>3. payload[b][r] # NoBatch => payload[b][r] \in Batches
  OBVIOUS
<1>4. QED
  BY <1>1, <1>2, <1>3 DEF SlotStatement

\* A worker step keeps the invariant.
LEMMA WorkerKeepsSettled ==
    ASSUME TypeOK, SettledInv, WorkerNext, UNCHANGED apiVars
    PROVE  SettledInv'
<1> USE DEF TypeOK, StoreTypeOK, WorkerTypeOK
<1>r. req' = req
  BY DEF apiVars
<1>p. payload' = payload
  BY DEF WorkerNext, DeliveryStep, Deliver, LoadStatuses, ProcessItem,
         MarkFailed, CompleteBatch, RetryOrDeadLetter, Ack, DieDetached,
         LoseConnection, Crash, DeadLetter, mqVars
<1>i. \A c \in Batches, q \in Rows :
        item'[c][q] = "PENDING" => item[c][q] = "PENDING"
  BY WorkerItems
<1>t. \A d \in Deliveries, q \in Rows :
        /\ delivery[d].at \in {"items", "markFailed"}
        /\ item'[delivery[d].batch][q] = "PENDING"
        => q \in delivery[d].todo
  BY <1>i DEF SettledInv, TodoCoversPending, PendingItems
<1>1. InsertPrecedesWork'
  <2> SUFFICES ASSUME NEW c \in Batches, req[c] \in BeforeInsert
               PROVE  /\ \A r \in Rows : item'[c][r] = "NONE"
                      /\ \A n \in 0..MaxRetries : queue'[c][n] = 0
                      /\ dlq'[c] = 0
                      /\ \A d \in Deliveries :
                           Busy(d)' => delivery'[d].batch # c
    BY <1>r DEF InsertPrecedesWork
  <2>1. /\ \A r \in Rows : item[c][r] = "NONE"
        /\ \A n \in 0..MaxRetries : queue[c][n] = 0
        /\ dlq[c] = 0
    BY DEF SettledInv, InsertPrecedesWork
  <2>2. Untouched(c)
    BY DEF SettledInv, InsertPrecedesWork, Untouched
  <2>3. QED
    BY <2>1, <2>2, WorkerItems, UntouchedStays
<1>2. SourcesInserted'
  BY <1>r, <1>p DEF SettledInv, SourcesInserted
<1>3. TodoCoversPending'
  <2> SUFFICES ASSUME NEW d \in Deliveries, NEW q \in Rows,
                      delivery'[d].at \in {"items", "markFailed"},
                      item'[delivery'[d].batch][q] = "PENDING"
               PROVE  q \in delivery'[d].todo
    BY DEF TodoCoversPending, PendingItems
  <2>1. CASE delivery'[d] = delivery[d]
    BY <1>t, <2>1
  <2>2. CASE LoadStatuses(d)
    <3>1. /\ delivery[d].batch \in Batches
          /\ delivery'[d].batch = delivery[d].batch
          /\ delivery'[d].todo = PendingItems(delivery[d].batch)
      BY <2>2 DEF LoadStatuses, At, Goto, Delivery
    <3>2. QED
      BY <1>i, <3>1 DEF PendingItems
  <2>3. ASSUME NEW r \in Rows, ProcessItem(d, r)
        PROVE  q \in delivery'[d].todo
    <3> DEFINE b == delivery[d].batch
    <3>1. /\ b \in Batches
          /\ delivery'[d].batch = b
          /\ delivery[d].at = "items"
      BY <2>3 DEF ProcessItem, At, Delivery
    <3>2. q \in delivery[d].todo
      BY <1>t, <3>1
    <3>3. \/ delivery'[d].todo = delivery[d].todo
          \/ /\ SlotStatement(b, r)
             /\ delivery'[d].todo = delivery[d].todo \ {r}
      BY <2>3 DEF ProcessItem, Delivery
    <3>4. SlotStatement(b, r) => item'[b][r] = "SUCCESS"
      BY <3>1, SettlesItem
    <3>5. QED
      BY <3>1, <3>2, <3>3, <3>4
  <2>4. CASE MarkFailed(d)
    <3> DEFINE b == delivery[d].batch
    <3>1. /\ b \in Batches
          /\ delivery[d].row \in Rows
          /\ delivery[d].at = "markFailed"
      BY <2>4 DEF MarkFailed, At, Delivery
    <3>2. /\ MarkItemFailed(b, delivery[d].row)
          /\ delivery'[d].batch = b
          /\ delivery'[d].todo = delivery[d].todo \ {delivery[d].row}
      BY <2>4 DEF MarkFailed, Goto, Delivery
    <3>3. item'[b][delivery[d].row] = "FAILED"
      BY <3>1, <3>2 DEF MarkItemFailed
    <3>4. QED
      BY <1>t, <3>1, <3>2, <3>3
  <2>5. CASE LoseConnection(d)
    <3>1. /\ delivery'[d].at = delivery[d].at
          /\ delivery'[d].batch = delivery[d].batch
          /\ delivery'[d].todo = delivery[d].todo
      BY <2>5 DEF LoseConnection, Delivery
    <3>2. QED
      BY <1>t, <3>1
  <2>6. ~Deliver(d) /\ ~Ack(d) /\ ~DieDetached(d) /\ ~Crash(d)
    <3>1. ~Ack(d) /\ ~DieDetached(d) /\ ~Crash(d)
      BY DEF Ack, DieDetached, Crash, Idle
    <3>2. Deliver(d) => delivery'[d].at = "load"
      BY DEF Deliver, Idle
    <3>3. QED
      BY <3>1, <3>2
  <2>7. ~CompleteBatch(d) /\ ~RetryOrDeadLetter(d)
    BY DEF CompleteBatch, RetryOrDeadLetter, Goto, Delivery
  <2>8. ASSUME NEW e \in Deliveries, e # d,
               \/ Deliver(e) \/ DeliveryStep(e) \/ LoseConnection(e) \/ Crash(e)
        PROVE  delivery'[d] = delivery[d]
    <3>1. CASE Deliver(e) \/ LoseConnection(e) \/ Crash(e)
      <4>1. \E x : delivery' = [delivery EXCEPT ![e] = x]
        BY <3>1 DEF Deliver, LoseConnection, Crash
      <4>2. QED
        BY <2>8, <4>1
    <3>2. CASE DeliveryStep(e)
      BY <2>8, <3>2 DEF DeliveryStep, LoadStatuses, ProcessItem, MarkFailed,
              CompleteBatch, RetryOrDeadLetter, Ack, DieDetached, Goto
    <3>3. QED
      BY <2>8, <3>1, <3>2
  <2>9. (\E b \in Batches : DeadLetter(b)) => delivery' = delivery
    BY DEF DeadLetter, workerVars
  <2>10. QED
    BY <2>1, <2>2, <2>3, <2>4, <2>5, <2>6, <2>7, <2>8, <2>9
       DEF WorkerNext, DeliveryStep
<1>4. CompletedIsSettled'
  <2> SUFFICES ASSUME NEW c \in Batches, batch'[c] = "COMPLETED"
               PROVE  PendingItems(c)' = {}
    BY DEF CompletedIsSettled
  <2>1. CASE batch[c] = "COMPLETED"
    BY <1>i, <2>1 DEF SettledInv, CompletedIsSettled, PendingItems
  <2>2. ASSUME NEW d \in Deliveries, CompleteBatch(d), batch[c] # "COMPLETED"
        PROVE  PendingItems(c)' = {}
    <3>1. c = delivery[d].batch
      BY <2>2 DEF CompleteBatch, MarkBatchCompleted, dbVars
    <3>2. PendingItems(c) = {}
      BY <2>2, <3>1 DEF CompleteBatch, At, SettledInv, TodoCoversPending
    <3>3. QED
      BY <1>i, <3>2 DEF PendingItems
  <2>3. ASSUME NEW b \in Batches, DeadLetter(b), batch[c] # "COMPLETED"
        PROVE  PendingItems(c)' = {}
    <3>1. MarkBatchFailed(b) /\ b = c
      BY <2>3 DEF DeadLetter, MarkBatchFailed, dbVars
    <3>2. \A r \in Rows : item'[c][r] # "PENDING"
      BY <3>1 DEF MarkBatchFailed
    <3>3. QED
      BY <3>2 DEF PendingItems
  <2>4. ASSUME NEW d \in Deliveries,
               \/ Deliver(d) \/ LoadStatuses(d) \/ MarkFailed(d)
               \/ RetryOrDeadLetter(d) \/ Ack(d) \/ DieDetached(d)
               \/ LoseConnection(d) \/ Crash(d)
               \/ \E r \in Rows : ProcessItem(d, r)
        PROVE  UNCHANGED batch
    BY <2>4 DEF Deliver, LoadStatuses, MarkFailed, MarkItemFailed,
                RetryOrDeadLetter, Ack, DieDetached, LoseConnection, Crash,
                ProcessItem, SlotStatement, AcquireSlotAndMarkSuccess,
                ReleaseSlotAndMarkItems, dbVars
  <2>5. QED
    BY <2>1, <2>2, <2>3, <2>4 DEF WorkerNext, DeliveryStep
<1>5. QED
  BY <1>1, <1>2, <1>3, <1>4 DEF SettledInv

\* The invariant holds before the session, when there is nothing ...
LEMMA SettledInit == Init => SettledInv
BY DEF Init, StoreInit, ApiInit, WorkerInit, Idle, Busy, PendingItems,
       SettledInv, InsertPrecedesWork, SourcesInserted, TodoCoversPending,
       CompletedIsSettled

\* ... and every step keeps it.
LEMMA SettledStep ==
    ASSUME TypeOK, SettledInv, [Next]_vars
    PROVE  SettledInv'
<1>1. CASE UNCHANGED vars
  BY <1>1 DEF vars, dbVars, mqVars, apiVars, workerVars, SettledInv,
              InsertPrecedesWork, SourcesInserted, TodoCoversPending,
              CompletedIsSettled, PendingItems, Busy
<1>2. QED
  BY <1>1, ApiKeepsSettled, WorkerKeepsSettled DEF Next, ApiNext

\* Why a loop over items that were read once misses none: nothing exists for a
\* batch before its insert, no item turns PENDING after the read, and a
\* running loop still has every PENDING item ahead of it, for any number of
\* overlapping deliveries of one batch.
THEOREM SettledAlways == Spec => []SettledInv
<1>1. Init => SettledInv
  BY SettledInit
<1>2. TypeOK /\ SettledInv /\ [Next]_vars => SettledInv'
  BY SettledStep
<1>3. QED
  BY <1>1, <1>2, TypeCorrect, PTL DEF Spec

\* A COMPLETED batch has no PENDING item: the loop over the items read once
\* at the start misses none, and no redelivered, retried or dead-lettered
\* copy reopens one.
THEOREM CompletedSettled == Spec => []CompletedIsSettled
<1>1. SettledInv => CompletedIsSettled
  BY DEF SettledInv
<1>2. QED
  BY <1>1, SettledAlways, PTL
=============================================================================
