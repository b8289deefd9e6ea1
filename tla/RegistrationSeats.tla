------------------------- MODULE RegistrationSeats -------------------------
(***************************************************************************)
(* What the registration pipeline does with seats, as theorems: outcomes   *)
(* are final, a seat is taken iff an item stands for it, a student has one *)
(* PENDING CREATE and one seat per course, the pipeline implements the     *)
(* ledger of SeatLedger, and the scheduler changes none of it.             *)
(*                                                                         *)
(* Several hold only where a message exists once.  A broken connection     *)
(* leaves a second copy of it, so does a crash between the publication of  *)
(* a retry (which follows a failed statement) and the ack of the original; *)
(* and an error after a commit lets the handler settle an item twice.      *)
(* Calm says that none of the three has happened yet.                      *)
(***************************************************************************)
EXTENDS RegistrationCache, RegistrationProofs, FiniteSetTheorems

USE StoreAssumption, WorkerAssumption, ApiAssumption

Calm ==
    /\ faults["connection"] = 0
    /\ faults["ambiguous"] = 0
    /\ faults["db"] = 0 \/ faults["crash"] = 0

----------------------------------------------------------------------------
(* The steps of requests and workers, as the proofs below need them.       *)

\* Fault counters only grow, so a behaviour that is Calm has always been.
LEMMA FaultsGrow ==
    ASSUME StoreTypeOK, UNCHANGED faults \/ \E k \in FaultKinds : Fault(k)
    PROVE  /\ \A j \in FaultKinds : /\ faults[j] \in Nat
                                    /\ faults'[j] \in Nat
                                    /\ faults'[j] >= faults[j]
           /\ Calm' => Calm
<1>1. \A j \in FaultKinds : /\ faults[j] \in Nat
                            /\ faults'[j] \in Nat
                            /\ faults'[j] >= faults[j]
  <2>1. CASE UNCHANGED faults
    BY <2>1 DEF StoreTypeOK
  <2>2. ASSUME NEW k \in FaultKinds, Fault(k)
        PROVE  \A j \in FaultKinds : /\ faults[j] \in Nat
                                     /\ faults'[j] \in Nat
                                     /\ faults'[j] >= faults[j]
    BY <2>2 DEF StoreTypeOK, Fault
  <2>3. QED
    BY <2>1, <2>2
<1>2. \A j \in {"connection", "ambiguous", "db", "crash"} :
        faults[j] \in Nat /\ (faults'[j] = 0 => faults[j] = 0)
  BY <1>1 DEF FaultKinds
<1>3. QED
  BY <1>1, <1>2 DEF Calm

\* Where the sources of b's message come from.
SourcesChosen(b) ==
    /\ ~IsCreate(b)
    /\ req[b] = "active"
    /\ req'[b] = "pending"
    /\ \E src \in [Rows -> Batches \cup {NoBatch}] :
         /\ payload' = [payload EXCEPT ![b] = src]
         /\ \A r \in Rows :
              src[r] # NoBatch => src[r] \in ActiveItems(ask[b].user, r)

\* The points at which a request is being handled and not inserted yet.
InFlight == BeforeInsert \ {"idle"}

\* Every step of a request, cut down to what it does to the state the seats
\* depend on, and to the checks it passes on the way.
LEMMA ApiSteps ==
    ASSUME TypeOK, NEW b \in Batches, RequestStep(b) \/ ApiCrash(b)
    PROVE  /\ UNCHANGED ask
           /\ req[b] \notin Answered
           /\ req[b] = "idle" => MayStart(b)
           /\ \/ UNCHANGED dbVars
              \/ /\ InsertBatch(b)
                 /\ req[b] = "insert"
                 /\ req'[b] \in {"publish", "rollback"}
           /\ \/ UNCHANGED queue
              \/ /\ Enqueue(b, 0)
                 /\ req[b] = "publish"
                 /\ req'[b] \in Answered
           /\ UNCHANGED payload \/ SourcesChosen(b)
           /\ req'[b] \in {"pending", "reserve", "insert", "rollback", "publish"}
                /\ ~IsCreate(b) =>
                \/ SourcesChosen(b)
                \/ /\ req[b] \in {"pending", "reserve", "insert", "rollback",
                                  "publish"}
                   /\ UNCHANGED payload
           /\ IsCreate(b) /\ req'[b] \in InFlight =>
                \/ req[b] \in InFlight
                \/ PendingBatches(ask[b].user, BatchTypes) = {}
           /\ IsCreate(b) /\ req'[b] \in {"reserve", "insert"} =>
                \/ req[b] \in {"reserve", "insert"}
                \/ /\ req[b] = "active"
                   /\ {CourseOf[c] : c \in ask[b].codes}
                         \cap ActiveCourses(ask[b].user) = {}
<1> USE DEF TypeOK, ApiTypeOK, StoreTypeOK, Move, Throw, mqVars,
            BeforeInsert, InFlight, ReqPoints, Answered
<1>1. CASE InsertBatchRows(b)
  BY <1>1 DEF InsertBatchRows
<1>2. CASE Publish(b)
  BY <1>2 DEF Publish
<1>3. CASE CheckNoPending(b)
  <2>1. CASE IsCreate(b)
    BY <1>3, <2>1 DEF CheckNoPending, MayStart
  <2>2. CASE ~IsCreate(b)
    BY <1>3, <2>2 DEF CheckNoPending
  <2>3. QED
    BY <2>1, <2>2
<1>4. CASE Resolve(b)
  <2>1. /\ UNCHANGED <<ask, dbVars, mqVars>>
        /\ IF IsCreate(b) THEN req[b] = "resolve" ELSE MayStart(b)
        /\ req'[b] \in {AfterResolve(b), "fill"}
    BY <1>4 DEF Resolve
  <2>2. QED
    BY <2>1 DEF AfterResolve, MayStart
<1>5. CASE FillLookup(b)
  <2>1. /\ UNCHANGED <<ask, dbVars, mqVars>>
        /\ req[b] = "fill"
        /\ req'[b] = AfterResolve(b)
    BY <1>5 DEF FillLookup
  <2>2. QED
    BY <2>1 DEF AfterResolve
<1>6. CASE CheckCapacity(b)
  <2>1. /\ \E p \in {"refill", "refillFull", "active", "rejected", "error"} :
              req' = [req EXCEPT ![b] = p]
        /\ req[b] = "capacity"
        /\ UNCHANGED <<ask, dbVars, mqVars>>
    BY <1>6 DEF CheckCapacity
  <2>2. QED
    BY <2>1
<1>7. CASE RefillSlots(b)
  <2>1. /\ \E p \in {"active", "rejected"} : req' = [req EXCEPT ![b] = p]
        /\ req[b] \in {"refill", "refillFull"}
        /\ UNCHANGED <<ask, dbVars, mqVars>>
    BY <1>7 DEF RefillSlots
  <2>2. QED
    BY <2>1
<1>8. CASE ReadActiveForCreate(b)
  BY <1>8 DEF ReadActiveForCreate
<1>9. CASE ReadActiveForCancel(b)
  <2>1. /\ req[b] = "active"
        /\ ~IsCreate(b)
        /\ UNCHANGED <<ask, dbVars, queue>>
    BY <1>9 DEF ReadActiveForCancel
  <2>2. \/ UNCHANGED payload /\ req'[b] = "rejected"
        \/ /\ req'[b] = "pending"
           /\ \E src \in [Rows -> Batches \cup {NoBatch}] :
                /\ payload' = [payload EXCEPT ![b] = src]
                /\ \A r \in Rows :
                     src[r] # NoBatch => src[r] \in ActiveItems(ask[b].user, r)
    BY <1>9 DEF ReadActiveForCancel
  <2>3. CASE UNCHANGED payload /\ req'[b] = "rejected"
    BY <2>1, <2>3
  <2>4. CASE req'[b] = "pending" /\ SourcesChosen(b)
    BY <2>1, <2>4
  <2>5. QED
    BY <2>1, <2>2, <2>3, <2>4 DEF SourcesChosen
<1>10. CASE ReserveSlots(b)
  BY <1>10 DEF ReserveSlots
<1>11. CASE RollbackSlots(b)
  BY <1>11 DEF RollbackSlots
<1>12. CASE ApiCrash(b)
  BY <1>12 DEF ApiCrash
<1>13. QED
  BY <1>1, <1>2, <1>3, <1>4, <1>5, <1>6, <1>7, <1>8, <1>9, <1>10, <1>11, <1>12
     DEF RequestStep

\* Every step of a worker, cut down to the statement it runs.
LEMMA WorkerWrites ==
    ASSUME WorkerNext
    PROVE  \/ UNCHANGED dbVars
           \/ \E d \in Deliveries, r \in Rows :
                ProcessItem(d, r) /\ SlotStatement(delivery[d].batch, r)
           \/ \E d \in Deliveries :
                /\ MarkFailed(d)
                /\ MarkItemFailed(delivery[d].batch, delivery[d].row)
           \/ \E d \in Deliveries :
                CompleteBatch(d) /\ MarkBatchCompleted(delivery[d].batch)
           \/ \E b \in Batches : DeadLetter(b) /\ MarkBatchFailed(b)
<1>1. ASSUME NEW d \in Deliveries, NEW r \in Rows, ProcessItem(d, r)
      PROVE  SlotStatement(delivery[d].batch, r) \/ UNCHANGED dbVars
  BY <1>1 DEF ProcessItem
<1>2. ASSUME NEW d \in Deliveries, MarkFailed(d)
      PROVE  \/ MarkItemFailed(delivery[d].batch, delivery[d].row)
             \/ UNCHANGED dbVars
  BY <1>2 DEF MarkFailed
<1>3. ASSUME NEW d \in Deliveries, CompleteBatch(d)
      PROVE  MarkBatchCompleted(delivery[d].batch) \/ UNCHANGED dbVars
  BY <1>3 DEF CompleteBatch
<1>4. ASSUME NEW d \in Deliveries,
             \/ Deliver(d) \/ LoadStatuses(d) \/ RetryOrDeadLetter(d)
             \/ Ack(d) \/ DieDetached(d) \/ LoseConnection(d) \/ Crash(d)
      PROVE  UNCHANGED dbVars
  BY <1>4 DEF Deliver, LoadStatuses, RetryOrDeadLetter, Ack, DieDetached,
              LoseConnection, Crash
<1>5. ASSUME NEW b \in Batches, DeadLetter(b)
      PROVE  MarkBatchFailed(b) \/ UNCHANGED dbVars
  BY <1>5 DEF DeadLetter
<1>6. QED
  BY <1>1, <1>2, <1>3, <1>4, <1>5 DEF WorkerNext, DeliveryStep

\* No worker step changes a request or its message.
LEMMA WorkerFrame ==
    ASSUME WorkerNext
    PROVE  UNCHANGED <<ask, payload>>
BY DEF WorkerNext, DeliveryStep, Deliver, LoadStatuses, ProcessItem,
       MarkFailed, CompleteBatch, RetryOrDeadLetter, Ack, DieDetached,
       LoseConnection, Crash, DeadLetter, mqVars

----------------------------------------------------------------------------
(* One copy of every message.                                              *)

\* No request is published before its last step.
Unsent == \A b \in Batches : req[b] \notin Answered => Untouched(b)

LEMMA UnsentStays ==
    ASSUME TypeOK, Unsent, [Next]_vars
    PROVE  Unsent'
<1> SUFFICES ASSUME NEW c \in Batches, req'[c] \notin Answered
             PROVE  /\ \A n \in 0..MaxRetries : queue'[c][n] = 0
                    /\ dlq'[c] = 0
                    /\ \A d \in Deliveries : Busy(d)' => delivery'[d].batch # c
  BY DEF Unsent, Untouched
<1>1. ASSUME NEW b \in Batches, RequestStep(b) \/ ApiCrash(b),
             UNCHANGED workerVars
      PROVE  /\ \A n \in 0..MaxRetries : queue'[c][n] = 0
             /\ dlq'[c] = 0
             /\ \A d \in Deliveries : Busy(d)' => delivery'[d].batch # c
  <2>1. req[c] \notin Answered
    BY <1>1, ApiSteps, ApiOnlyAddsCopies
  <2>2. Untouched(c)
    BY <2>1 DEF Unsent
  <2>3. queue'[c] = queue[c]
    <3>1. UNCHANGED queue \/ (Enqueue(b, 0) /\ c # b)
      BY <1>1, ApiSteps
    <3>2. QED
      BY <3>1 DEF Enqueue, TypeOK, StoreTypeOK
  <2>4. UNCHANGED <<dlq, delivery>>
    BY <1>1, ApiOnlyAddsCopies DEF workerVars
  <2>5. QED
    BY <2>2, <2>3, <2>4 DEF Untouched, Busy
<1>2. CASE WorkerNext /\ UNCHANGED apiVars
  <2>1. Untouched(c)
    BY <1>2 DEF apiVars, Unsent
  <2>2. QED
    BY <1>2, <2>1, UntouchedStays DEF Untouched
<1>3. CASE UNCHANGED vars
  BY <1>3 DEF vars, mqVars, apiVars, workerVars, Unsent, Untouched, Busy
<1>4. QED
  BY <1>1, <1>2, <1>3 DEF Next, ApiNext

\* A callback only fails when a statement did.
FailedIsNoted == \A d \in Deliveries : At(d, "failed") => faults["db"] > 0

\* Callback d still has b's message to settle: also when it is about to ack
\* it, unless that may be because it published a retry.
Carries(d, b) ==
    /\ delivery[d].batch = b
    /\ \/ delivery[d].at \notin {"idle", "ack"}
       \/ delivery[d].at = "ack" /\ faults["db"] = 0

OneCopy(b) ==
    /\ \A n \in 0..MaxRetries : queue[b][n] <= 1
    /\ \A n, m \in 0..MaxRetries : queue[b][n] > 0 /\ queue[b][m] > 0 => n = m
    /\ dlq[b] <= 1
    /\ dlq[b] > 0 => \A n \in 0..MaxRetries : queue[b][n] = 0
    /\ \A d \in Deliveries : Carries(d, b) =>
         dlq[b] = 0 /\ \A n \in 0..MaxRetries : queue[b][n] = 0
    /\ \A d, e \in Deliveries : Carries(d, b) /\ Carries(e, b) => d = e

\* Copies that only disappear leave at most one.
LEMMA CopiesFewer ==
    ASSUME StoreTypeOK, StoreTypeOK', NEW b \in Batches, OneCopy(b),
           \A n \in 0..MaxRetries : queue'[b][n] <= queue[b][n],
           dlq'[b] <= dlq[b],
           \A d \in Deliveries : Carries(d, b)' => Carries(d, b)
    PROVE  OneCopy(b)'
<1>1. \A n \in 0..MaxRetries : queue[b][n] \in Nat /\ queue'[b][n] \in Nat
  BY DEF StoreTypeOK
<1>2. dlq[b] \in Nat /\ dlq'[b] \in Nat
  BY DEF StoreTypeOK
<1>3. QED
  BY <1>1, <1>2 DEF OneCopy

\* So does a copy that moves back to the main queue ...
LEMMA CopyRequeued ==
    ASSUME StoreTypeOK, NEW b \in Batches, OneCopy(b),
           NEW d \in Deliveries, Carries(d, b), ~Carries(d, b)',
           \A e \in Deliveries : e # d /\ Carries(e, b)' => Carries(e, b),
           NEW m \in 0..MaxRetries, Enqueue(b, m), UNCHANGED dlq
    PROVE  OneCopy(b)'
<1>1. /\ \A n \in 0..MaxRetries : queue[b][n] = 0
      /\ dlq[b] = 0
      /\ \A e \in Deliveries : ~Carries(e, b)'
  BY DEF OneCopy
<1>2. queue' = [queue EXCEPT ![b] = [queue[b] EXCEPT ![m] = queue[b][m] + 1]]
  BY DEF Enqueue
<1>3. queue'[b] = [queue[b] EXCEPT ![m] = queue[b][m] + 1]
  BY <1>2 DEF StoreTypeOK
<1>4. \A n \in 0..MaxRetries : queue'[b][n] = IF n = m THEN 1 ELSE 0
  BY <1>1, <1>3 DEF StoreTypeOK
<1>5. QED
  BY <1>1, <1>4 DEF OneCopy

\* ... or to the dead-letter queue ...
LEMMA CopyDeadLettered ==
    ASSUME StoreTypeOK, NEW b \in Batches, OneCopy(b),
           NEW d \in Deliveries, Carries(d, b), ~Carries(d, b)',
           \A e \in Deliveries : e # d /\ Carries(e, b)' => Carries(e, b),
           dlq' = [dlq EXCEPT ![b] = @ + 1], UNCHANGED queue
    PROVE  OneCopy(b)'
<1>1. /\ \A n \in 0..MaxRetries : queue[b][n] = 0
      /\ dlq[b] = 0
      /\ \A e \in Deliveries : ~Carries(e, b)'
  BY DEF OneCopy
<1>2. dlq'[b] = 1
  BY <1>1 DEF StoreTypeOK
<1>3. QED
  BY <1>1, <1>2 DEF OneCopy

\* ... or that is delivered.
LEMMA CopyDelivered ==
    ASSUME StoreTypeOK, NEW b \in Batches, OneCopy(b),
           NEW d \in Deliveries, NEW m \in 0..MaxRetries, Dequeue(b, m),
           \A e \in Deliveries : e # d /\ Carries(e, b)' => Carries(e, b),
           UNCHANGED dlq
    PROVE  OneCopy(b)'
<1>1. \A n \in 0..MaxRetries : queue[b][n] \in Nat
  BY DEF StoreTypeOK
<1>2. /\ \A n \in 0..MaxRetries : queue[b][n] = IF n = m THEN 1 ELSE 0
      /\ dlq[b] = 0
      /\ \A e \in Deliveries : ~Carries(e, b)
  <2>1. queue[b][m] > 0
    BY DEF Dequeue
  <2>2. \A n \in 0..MaxRetries : n # m => queue[b][n] = 0
    BY <1>1, <2>1 DEF OneCopy
  <2>3. queue[b][m] = 1
    BY <1>1, <2>1 DEF OneCopy
  <2>4. dlq[b] = 0
    <3>1. dlq[b] \in Nat
      BY DEF StoreTypeOK
    <3>2. ~(dlq[b] > 0)
      BY <2>3 DEF OneCopy
    <3>3. QED
      BY <3>1, <3>2
  <2>5. \A e \in Deliveries : ~Carries(e, b)
    BY <2>3 DEF OneCopy
  <2>6. QED
    BY <2>2, <2>3, <2>4, <2>5
<1>3. queue' = [queue EXCEPT ![b] = [queue[b] EXCEPT ![m] = queue[b][m] - 1]]
  BY DEF Dequeue
<1>4. queue'[b] = [queue[b] EXCEPT ![m] = queue[b][m] - 1]
  BY <1>3 DEF StoreTypeOK
<1>5. \A n \in 0..MaxRetries : queue'[b][n] = 0
  BY <1>2, <1>4 DEF StoreTypeOK
<1>6. QED
  BY <1>2, <1>5 DEF OneCopy

\* A callback only stays at its failure, or gets there, after an error.
LEMMA FailedStaysNoted ==
    ASSUME TypeOK, FailedIsNoted, [Next]_vars
    PROVE  FailedIsNoted'
<1> USE DEF TypeOK, At
<1>f. "db" \in FaultKinds
  BY DEF FaultKinds
<1> SUFFICES ASSUME NEW d \in Deliveries, delivery'[d].at = "failed"
             PROVE  faults'["db"] > 0
  BY DEF FailedIsNoted
<1>1. UNCHANGED faults \/ \E k \in FaultKinds : Fault(k)
  <2>1. CASE ApiNext
    BY <2>1, ApiOnlyAddsCopies DEF ApiNext
  <2>2. CASE WorkerNext
    BY <2>2, WorkerFaults
  <2>3. QED
    BY <2>1, <2>2 DEF Next, vars
<1>2. CASE delivery[d].at = "failed"
  <2>1. faults["db"] > 0
    BY <1>2 DEF FailedIsNoted
  <2>2. /\ faults["db"] \in Nat
        /\ faults'["db"] \in Nat
        /\ faults'["db"] >= faults["db"]
    BY <1>1, <1>f, FaultsGrow
  <2>3. QED
    BY <2>1, <2>2
<1>3. Fault("db") => faults'["db"] > 0
  BY <1>f DEF Fault, StoreTypeOK
<1>4. ASSUME delivery[d].at # "failed", NEW e \in Deliveries,
             \/ Deliver(e) \/ DeliveryStep(e) \/ LoseConnection(e) \/ Crash(e)
      PROVE  Fault("db")
  <2> USE DEF WorkerTypeOK
  <2>1. /\ ~Ack(e) /\ ~DieDetached(e) /\ ~Crash(e)
        /\ ~Deliver(e)
    <3>1. Ack(e) \/ DieDetached(e) \/ Crash(e)
            => delivery' = [delivery EXCEPT ![e] = Idle]
      BY DEF Ack, DieDetached, Crash
    <3>2. Deliver(e) => \E b, n : delivery' = [delivery EXCEPT ![e] =
                          [Idle EXCEPT !.at = "load", !.batch = b, !.retry = n]]
      BY DEF Deliver
    <3>3. ASSUME NEW b, NEW n, delivery' = [delivery EXCEPT ![e] =
                          [Idle EXCEPT !.at = "load", !.batch = b, !.retry = n]]
          PROVE  FALSE
      BY <1>4, <3>3 DEF Idle
    <3>4. delivery' # [delivery EXCEPT ![e] = Idle]
      BY <1>4 DEF Idle
    <3>5. QED
      BY <3>1, <3>2, <3>3, <3>4
  <2>2. ~LoseConnection(e) /\ ~RetryOrDeadLetter(e)
    BY <1>4 DEF LoseConnection, RetryOrDeadLetter, Goto, Delivery
  <2>3. ASSUME NEW r \in Rows, ProcessItem(e, r)
        PROVE  FALSE
    BY <1>4, <2>3 DEF ProcessItem, Delivery
  <2>4. LoadStatuses(e) \/ MarkFailed(e) \/ CompleteBatch(e) => Fault("db")
    BY <1>4 DEF LoadStatuses, MarkFailed, CompleteBatch, Goto, Delivery
  <2>5. QED
    BY <1>4, <2>1, <2>2, <2>3, <2>4 DEF DeliveryStep
<1>5. CASE UNCHANGED delivery
  BY <1>2, <1>5
<1>6. QED
  BY <1>2, <1>3, <1>4, <1>5
     DEF Next, WorkerNext, DeadLetter, workerVars, vars

\* A request publishes its message once, and before that there is no copy.
LEMMA ApiKeepsCopies ==
    ASSUME TypeOK, TypeOK', Unsent, NEW b \in Batches,
           RequestStep(b) \/ ApiCrash(b), UNCHANGED workerVars,
           NEW c \in Batches, OneCopy(c)
    PROVE  OneCopy(c)'
<1> USE DEF TypeOK
<1>1. /\ UNCHANGED <<dlq, delivery>>
      /\ UNCHANGED faults \/ \E k \in FaultKinds : Fault(k)
  BY ApiOnlyAddsCopies DEF workerVars
<1>2. \A d \in Deliveries : Carries(d, c)' => Carries(d, c)
  <2>1. faults'["db"] = 0 => faults["db"] = 0
    BY <1>1, FaultsGrow DEF FaultKinds
  <2>2. QED
    BY <1>1, <2>1 DEF Carries
<1>3. \A n \in 0..MaxRetries : queue[c][n] \in Nat
  BY DEF StoreTypeOK
<1>q. dlq[c] \in Nat
  BY DEF StoreTypeOK
<1>4. CASE queue'[c] = queue[c]
  BY <1>1, <1>2, <1>3, <1>4, <1>q, CopiesFewer
<1>5. CASE Enqueue(b, 0) /\ req[b] = "publish" /\ c = b
  <2>1. Untouched(b)
    BY <1>5 DEF Unsent, Answered
  <2>2. \A d \in Deliveries : ~Carries(d, b)'
    BY <1>2, <1>5, <2>1 DEF Untouched, Carries, Busy
  <2>3. queue' = [queue EXCEPT ![b] = [queue[b] EXCEPT ![0] = queue[b][0] + 1]]
    BY <1>5 DEF Enqueue
  <2>4. queue'[b] = [queue[b] EXCEPT ![0] = queue[b][0] + 1]
    BY <2>3 DEF StoreTypeOK
  <2>5. \A n \in 0..MaxRetries : queue'[b][n] = IF n = 0 THEN 1 ELSE 0
    <3>1. queue[b] \in [0..MaxRetries -> Nat] /\ 0 \in 0..MaxRetries
      BY DEF StoreTypeOK
    <3>2. \A n \in 0..MaxRetries : queue[b][n] = 0
      BY <2>1 DEF Untouched
    <3>3. QED
      BY <2>4, <3>1, <3>2
  <2>6. dlq'[b] = 0
    BY <1>1, <2>1 DEF Untouched
  <2>7. QED
    BY <1>5, <2>2, <2>5, <2>6 DEF OneCopy
<1>6. UNCHANGED queue \/ (Enqueue(b, 0) /\ req[b] = "publish")
  BY ApiSteps
<1>7. Enqueue(b, 0) /\ c # b => queue'[c] = queue[c]
  BY DEF Enqueue, StoreTypeOK
<1>8. QED
  BY <1>4, <1>5, <1>6, <1>7

\* While no fault has doubled a message, a worker step moves its one copy or
\* drops it.
LEMMA WorkerKeepsCopies ==
    ASSUME TypeOK, TypeOK', FailedIsNoted, Calm', WorkerNext,
           NEW c \in Batches, OneCopy(c)
    PROVE  OneCopy(c)'
<1>t. /\ StoreTypeOK /\ StoreTypeOK'
      /\ delivery \in [Deliveries -> Delivery]
      /\ \A d \in Deliveries :
           delivery[d].at # "idle" => delivery[d].batch \in Batches
  BY DEF TypeOK, WorkerTypeOK
<1>f. /\ faults'["db"] = 0 => faults["db"] = 0
      /\ \A k \in {"connection", "crash"} : Fault(k) => faults'[k] # 0
  <2>1. faults'["db"] = 0 => faults["db"] = 0
    <3>1. faults'["db"] >= faults["db"] /\ faults["db"] \in Nat
      BY <1>t, WorkerFaults, FaultsGrow DEF FaultKinds
    <3>2. QED
      BY <3>1
  <2>2. ASSUME NEW k \in {"connection", "crash"}, Fault(k)
        PROVE  faults'[k] # 0
    <3>1. k \in FaultKinds
      BY DEF FaultKinds
    <3>2. faults'[k] = faults[k] + 1 /\ faults[k] \in Nat
      BY <1>t, <2>2, <3>1 DEF Fault, StoreTypeOK
    <3>3. QED
      BY <3>2
  <2>3. QED
    BY <2>1, <2>2
<1>n. /\ \A n \in 0..MaxRetries : queue[c][n] \in Nat /\ queue'[c][n] \in Nat
      /\ dlq[c] \in Nat /\ dlq'[c] \in Nat
  BY <1>t DEF StoreTypeOK
<1>o. \A d \in Deliveries : delivery'[d] = delivery[d] =>
                              (Carries(d, c)' => Carries(d, c))
  BY <1>f DEF Carries
<1>k. ASSUME queue'[c] = queue[c], dlq'[c] = dlq[c],
             \A d \in Deliveries : Carries(d, c)' => Carries(d, c)
      PROVE  OneCopy(c)'
  <2>1. /\ \A n \in 0..MaxRetries : queue'[c][n] <= queue[c][n]
        /\ dlq'[c] <= dlq[c]
    BY <1>n, <1>k
  <2>2. QED
    BY <1>t, <1>k, <2>1, CopiesFewer
<1>1. ASSUME NEW d \in Deliveries, Deliver(d)
      PROVE  OneCopy(c)'
  <2>1. PICK b \in Batches, n \in 0..MaxRetries :
          /\ Dequeue(b, n)
          /\ delivery' = [delivery EXCEPT ![d] =
               [Idle EXCEPT !.at = "load", !.batch = b, !.retry = n]]
    BY <1>1 DEF Deliver
  <2>2. UNCHANGED dlq
    BY <1>1 DEF Deliver
  <2>3. \A e \in Deliveries : e # d => delivery'[e] = delivery[e]
    BY <1>t, <2>1
  <2>4. CASE c = b
    BY <1>t, <1>o, <2>1, <2>2, <2>3, <2>4, CopyDelivered
  <2>5. CASE c # b
    <3>1. queue'[c] = queue[c]
      BY <1>t, <2>1, <2>5 DEF Dequeue, StoreTypeOK
    <3>2. ~Carries(d, c)'
      BY <1>t, <2>1, <2>5 DEF Carries, Idle
    <3>3. QED
      BY <1>o, <1>k, <2>2, <2>3, <3>1, <3>2
  <2>6. QED
    BY <2>4, <2>5
<1>2. ASSUME NEW d \in Deliveries,
             \/ LoadStatuses(d) \/ MarkFailed(d) \/ CompleteBatch(d)
             \/ \E r \in Rows : ProcessItem(d, r)
             \/ Ack(d) \/ DieDetached(d)
      PROVE  OneCopy(c)'
  <2>1. UNCHANGED <<queue, dlq>>
    BY <1>2 DEF LoadStatuses, MarkFailed, CompleteBatch, ProcessItem, Ack,
                DieDetached, mqVars
  <2>2. \A e \in Deliveries : e # d => delivery'[e] = delivery[e]
    <3>1. ASSUME NEW r \in Rows, ProcessItem(d, r), NEW e \in Deliveries, e # d
          PROVE  delivery'[e] = delivery[e]
      BY <1>t, <3>1 DEF ProcessItem
    <3>2. ASSUME \/ LoadStatuses(d) \/ MarkFailed(d) \/ CompleteBatch(d)
                 \/ Ack(d) \/ DieDetached(d),
                 NEW e \in Deliveries, e # d
          PROVE  delivery'[e] = delivery[e]
      BY <1>t, <3>2 DEF LoadStatuses, MarkFailed, CompleteBatch, Ack,
                        DieDetached, Goto
    <3>3. QED
      BY <1>2, <3>1, <3>2
  <2>3. \/ delivery'[d] = Idle
        \/ /\ delivery[d].at \in {"load", "markFailed", "items"}
           /\ delivery'[d].batch = delivery[d].batch
    BY <1>t, <1>2 DEF LoadStatuses, MarkFailed, CompleteBatch, ProcessItem, Ack,
                DieDetached, Goto, At, Delivery
  <2>4. Carries(d, c)' => Carries(d, c)
    BY <2>3 DEF Carries, Idle
  <2>5. QED
    BY <1>o, <1>k, <2>1, <2>2, <2>4
<1>3. ASSUME NEW d \in Deliveries, RetryOrDeadLetter(d)
      PROVE  OneCopy(c)'
  <2> DEFINE b == delivery[d].batch
             n == delivery[d].retry
  <2>1. /\ b \in Batches
        /\ n \in 0..MaxRetries
        /\ delivery'[d].batch = b
        /\ delivery[d].at = "failed"
        /\ delivery'[d].at = "ack"
        /\ \A e \in Deliveries : e # d => delivery'[e] = delivery[e]
        /\ UNCHANGED faults
    BY <1>t, <1>3 DEF RetryOrDeadLetter, At, Goto, Delivery
  <2>2. faults["db"] \in Nat /\ faults["db"] > 0
    BY <1>t, <2>1 DEF FailedIsNoted, At, FaultKinds, StoreTypeOK
  <2>3. Carries(d, b) /\ ~Carries(d, c)'
    BY <2>1, <2>2 DEF Carries
  <2>4. CASE c # b
    <3>1. queue'[c] = queue[c] /\ dlq'[c] = dlq[c]
      <4>1. \/ UNCHANGED dlq /\ \E m : Enqueue(b, m)
            \/ UNCHANGED queue /\ dlq' = [dlq EXCEPT ![b] = @ + 1]
        BY <1>3 DEF RetryOrDeadLetter
      <4>2. \A m : Enqueue(b, m) => queue'[c] = queue[c]
        BY <1>t, <2>4 DEF Enqueue, StoreTypeOK
      <4>3. dlq' = [dlq EXCEPT ![b] = @ + 1] => dlq'[c] = dlq[c]
        BY <1>t, <2>4 DEF StoreTypeOK
      <4>4. QED
        BY <4>1, <4>2, <4>3
    <3>2. QED
      BY <1>o, <1>k, <2>1, <2>3, <3>1
  <2>5. CASE c = b /\ n < MaxRetries
    <3>1. n + 1 \in 0..MaxRetries
      BY <2>1, <2>5
    <3>2. Enqueue(c, n + 1) /\ UNCHANGED dlq
      BY <1>3, <2>5 DEF RetryOrDeadLetter
    <3>3. QED
      BY <1>t, <1>o, <2>1, <2>3, <2>5, <3>1, <3>2, CopyRequeued
  <2>6. CASE c = b /\ ~(n < MaxRetries)
    <3>1. dlq' = [dlq EXCEPT ![c] = @ + 1] /\ UNCHANGED queue
      BY <1>3, <2>6 DEF RetryOrDeadLetter
    <3>2. QED
      BY <1>t, <1>o, <2>1, <2>3, <2>6, <3>1, CopyDeadLettered
  <2>7. QED
    BY <2>4, <2>5, <2>6
<1>4. ASSUME NEW d \in Deliveries, LoseConnection(d)
      PROVE  OneCopy(c)'
  BY <1>4, <1>f DEF LoseConnection, Calm
<1>5. ASSUME NEW d \in Deliveries, Crash(d)
      PROVE  OneCopy(c)'
  <2> DEFINE b == delivery[d].batch
             n == delivery[d].retry
  <2>1. /\ b \in Batches
        /\ n \in 0..MaxRetries
        /\ delivery'[d] = Idle
        /\ delivery[d].at # "idle"
        /\ \A e \in Deliveries : e # d => delivery'[e] = delivery[e]
        /\ UNCHANGED dlq
        /\ UNCHANGED queue \/ Enqueue(b, n)
    BY <1>t, <1>5 DEF Crash, Busy, Delivery
  <2>2. faults["db"] = 0
    BY <1>5, <1>f DEF Crash, Calm
  <2>3. Carries(d, b) /\ ~Carries(d, c)'
    BY <2>1, <2>2 DEF Carries, Idle
  <2>4. CASE queue'[c] = queue[c]
    BY <1>o, <1>k, <2>1, <2>3, <2>4
  <2>5. CASE c = b /\ Enqueue(b, n)
    BY <1>t, <1>o, <2>1, <2>3, <2>5, CopyRequeued
  <2>6. Enqueue(b, n) /\ c # b => queue'[c] = queue[c]
    BY <1>t, <2>1 DEF Enqueue, StoreTypeOK
  <2>7. QED
    BY <2>1, <2>4, <2>5, <2>6
<1>6. ASSUME NEW b \in Batches, DeadLetter(b)
      PROVE  OneCopy(c)'
  <2>1. /\ UNCHANGED <<queue, delivery>>
        /\ dlq' = dlq \/ dlq' = [dlq EXCEPT ![b] = @ - 1]
    BY <1>6 DEF DeadLetter, workerVars
  <2>2. dlq'[c] <= dlq[c]
    <3>1. dlq' = dlq \/ (b = c /\ dlq'[c] = dlq[c] - 1) \/ dlq'[c] = dlq[c]
      BY <1>t, <2>1 DEF StoreTypeOK
    <3>2. QED
      BY <1>n, <3>1
  <2>3. \A n \in 0..MaxRetries : queue'[c][n] <= queue[c][n]
    BY <1>n, <2>1
  <2>4. QED
    BY <1>t, <1>o, <2>1, <2>2, <2>3, CopiesFewer
<1>7. QED
  BY <1>1, <1>2, <1>3, <1>4, <1>5, <1>6 DEF WorkerNext, DeliveryStep

----------------------------------------------------------------------------
(* An outcome is final.                                                    *)

\* A loop only has PENDING items ahead of it ...
TodoIsPending ==
    \A d \in Deliveries : delivery[d].at \in {"items", "markFailed"} =>
        delivery[d].todo \subseteq PendingItems(delivery[d].batch)

\* ... and a cancellation names seats that its student was granted.
SourcesGranted ==
    \A b \in Batches, r \in Rows :
        payload[b][r] # NoBatch =>
            /\ IsCreate(payload[b][r])
            /\ ask[payload[b][r]].user = ask[b].user
            /\ item[payload[b][r]][r] \in {"SUCCESS", "CANCELLED"}

\* The statements that remain.
SettlingWrite ==
    \/ UNCHANGED dbVars
    \/ \E b \in Batches, r \in Rows :
         /\ item[b][r] = "PENDING"
         /\ IsCreate(b)
         /\ AcquireSlotAndMarkSuccess(b, r)
    \/ \E b, src \in Batches, r \in Rows :
         /\ item[b][r] = "PENDING"
         /\ ~IsCreate(b)
         /\ payload[b][r] = src
         /\ IsCreate(src)
         /\ ask[src].user = ask[b].user
         /\ item[src][r] \in {"SUCCESS", "CANCELLED"}
         /\ ReleaseSlotAndMarkItems(b, r, src)
    \/ \E b \in Batches, r \in Rows :
         item[b][r] = "PENDING" /\ MarkItemFailed(b, r)
    \/ \E b \in Batches : PendingItems(b) = {} /\ MarkBatchCompleted(b)
    \/ \E b \in Batches : MarkBatchFailed(b)

\* What the statement of an item does when its loop is not stale.
LEMMA StatementSettles ==
    ASSUME TypeOK, SourcesGranted, NEW b \in Batches, NEW r \in Rows,
           item[b][r] = "PENDING", SlotStatement(b, r)
    PROVE  \/ IsCreate(b) /\ AcquireSlotAndMarkSuccess(b, r)
           \/ \E src \in Batches :
                /\ ~IsCreate(b)
                /\ payload[b][r] = src
                /\ IsCreate(src)
                /\ ask[src].user = ask[b].user
                /\ item[src][r] \in {"SUCCESS", "CANCELLED"}
                /\ ReleaseSlotAndMarkItems(b, r, src)
<1>1. CASE IsCreate(b)
  BY <1>1 DEF IsCreate, SlotStatement
<1>2. CASE ~IsCreate(b)
  <2>1. payload[b][r] # NoBatch /\ ReleaseSlotAndMarkItems(b, r, payload[b][r])
    BY <1>2 DEF IsCreate, SlotStatement
  <2>2. payload[b][r] \in Batches
    BY <2>1 DEF TypeOK, StoreTypeOK
  <2>3. QED
    BY <1>2, <2>1, <2>2 DEF SourcesGranted
<1>3. QED
  BY <1>1, <1>2

LEMMA WorkerSettles ==
    ASSUME TypeOK, SettledInv, TodoIsPending, SourcesGranted, WorkerNext
    PROVE  SettlingWrite
<1>t. \A d \in Deliveries : Busy(d) => delivery[d].batch \in Batches
  BY DEF TypeOK, WorkerTypeOK, Busy
<1>1. ASSUME NEW d \in Deliveries, NEW r \in Rows,
             ProcessItem(d, r), SlotStatement(delivery[d].batch, r)
      PROVE  SettlingWrite
  <2>1. PICK b \in Batches : b = delivery[d].batch
    BY <1>t, <1>1 DEF ProcessItem, At, Busy
  <2>2. item[b][r] = "PENDING"
    BY <1>1, <2>1 DEF ProcessItem, At, TodoIsPending, PendingItems
  <2>3. SlotStatement(b, r)
    BY <1>1, <2>1
  <2>4. CASE IsCreate(b) /\ AcquireSlotAndMarkSuccess(b, r)
    BY <2>2, <2>4 DEF SettlingWrite
  <2>5. ASSUME NEW src \in Batches,
               /\ ~IsCreate(b)
               /\ payload[b][r] = src
               /\ IsCreate(src)
               /\ ask[src].user = ask[b].user
               /\ item[src][r] \in {"SUCCESS", "CANCELLED"}
               /\ ReleaseSlotAndMarkItems(b, r, src)
        PROVE  SettlingWrite
    BY <2>2, <2>5 DEF SettlingWrite
  <2>6. QED
    BY <2>2, <2>3, <2>4, <2>5, StatementSettles
<1>2. ASSUME NEW d \in Deliveries, MarkFailed(d),
             MarkItemFailed(delivery[d].batch, delivery[d].row)
      PROVE  SettlingWrite
  <2>1. PICK b \in Batches, r \in Rows :
          b = delivery[d].batch /\ r = delivery[d].row /\ r \in delivery[d].todo
    <3>1. /\ delivery[d].row \in delivery[d].todo
          /\ delivery[d].todo \subseteq Rows
          /\ delivery[d].batch \in Batches
      BY <1>2 DEF MarkFailed, At, TypeOK, WorkerTypeOK, Delivery
    <3>2. QED
      BY <3>1
  <2>2. item[b][r] = "PENDING"
    BY <1>2, <2>1 DEF MarkFailed, At, TodoIsPending, PendingItems
  <2>3. MarkItemFailed(b, r)
    BY <1>2, <2>1
  <2>4. QED
    BY <2>2, <2>3 DEF SettlingWrite
<1>3. ASSUME NEW d \in Deliveries, CompleteBatch(d),
             MarkBatchCompleted(delivery[d].batch)
      PROVE  SettlingWrite
  <2>1. PICK b \in Batches : b = delivery[d].batch
    BY <1>t, <1>3 DEF CompleteBatch, At, Busy
  <2>2. PendingItems(b) = {}
    BY <1>3, <2>1 DEF CompleteBatch, At, SettledInv, TodoCoversPending
  <2>3. MarkBatchCompleted(b)
    BY <1>3, <2>1
  <2>4. QED
    BY <2>2, <2>3 DEF SettlingWrite
<1>4. CASE \E b \in Batches : MarkBatchFailed(b)
  BY <1>4 DEF SettlingWrite
<1>5. CASE UNCHANGED dbVars
  BY <1>5 DEF SettlingWrite
<1>6. QED
  BY <1>1, <1>2, <1>3, <1>4, <1>5, WorkerWrites

\* What the statements do to one item.
LEMMA WriteOutcome ==
    ASSUME TypeOK, SettlingWrite, NEW c \in Batches, NEW q \in Rows,
           item'[c][q] # item[c][q]
    PROVE  \/ item[c][q] = "PENDING" /\ item'[c][q] \in {"SUCCESS", "FAILED"}
           \/ Holds(c, q) /\ item'[c][q] = "CANCELLED"
<1> USE DEF TypeOK, StoreTypeOK
<1>1. ASSUME NEW b \in Batches, NEW r \in Rows,
             item[b][r] = "PENDING", AcquireSlotAndMarkSuccess(b, r)
      PROVE  item[c][q] = "PENDING" /\ item'[c][q] = "SUCCESS"
  BY <1>1 DEF AcquireSlotAndMarkSuccess
<1>2. ASSUME NEW b \in Batches, NEW src \in Batches, NEW r \in Rows,
             item[b][r] = "PENDING", ~IsCreate(b), IsCreate(src),
             item[src][r] \in {"SUCCESS", "CANCELLED"},
             ReleaseSlotAndMarkItems(b, r, src)
      PROVE  \/ item[c][q] = "PENDING" /\ item'[c][q] = "SUCCESS"
             \/ Holds(c, q) /\ item'[c][q] = "CANCELLED"
  <2>1. /\ item' = [item EXCEPT ![src][r] = "CANCELLED", ![b][r] = "SUCCESS"]
        /\ src # b
    BY <1>2 DEF ReleaseSlotAndMarkItems
  <2>2. \/ c = b /\ q = r /\ item'[c][q] = "SUCCESS"
        \/ c = src /\ q = r /\ item'[c][q] = "CANCELLED"
    BY <2>1
  <2>3. QED
    BY <1>2, <2>2 DEF Holds, IsCreate
<1>3. ASSUME NEW b \in Batches, NEW r \in Rows,
             item[b][r] = "PENDING", MarkItemFailed(b, r)
      PROVE  item[c][q] = "PENDING" /\ item'[c][q] = "FAILED"
  BY <1>3 DEF MarkItemFailed
<1>4. ASSUME NEW b \in Batches, MarkBatchFailed(b)
      PROVE  item[c][q] = "PENDING" /\ item'[c][q] = "FAILED"
  <2>1. item' = [item EXCEPT ![b] =
                   [r \in Rows |-> IF item[b][r] = "PENDING" THEN "FAILED"
                                                             ELSE item[b][r]]]
    BY <1>4 DEF MarkBatchFailed
  <2>2. c = b
    BY <2>1
  <2>3. item'[c] = [r \in Rows |-> IF item[b][r] = "PENDING" THEN "FAILED"
                                                            ELSE item[b][r]]
    BY <2>1, <2>2
  <2>4. QED
    BY <2>2, <2>3
<1>5. ~(UNCHANGED dbVars) /\ ~(\E b \in Batches : MarkBatchCompleted(b))
  BY DEF dbVars, MarkBatchCompleted
<1>6. QED
  BY <1>1, <1>2, <1>3, <1>4, <1>5 DEF SettlingWrite

\* So a settled item stays settled, over every step.
LEMMA SettledStays ==
    ASSUME TypeOK, SettledInv, TodoIsPending, SourcesGranted, [Next]_vars,
           NEW c \in Batches, NEW q \in Rows,
           item[c][q] \in Settled, item'[c][q] # item[c][q]
    PROVE  Holds(c, q) /\ item'[c][q] = "CANCELLED"
<1>1. ASSUME NEW b \in Batches, RequestStep(b) \/ ApiCrash(b)
      PROVE  FALSE
  <2>1. InsertBatch(b) /\ req[b] = "insert"
    BY <1>1, ApiSteps DEF dbVars
  <2>2. c = b
    BY <2>1, InsertElsewhere
  <2>3. item[b][q] = "NONE"
    BY <2>1 DEF SettledInv, InsertPrecedesWork, BeforeInsert, ReqPoints,
                Answered
  <2>4. QED
    BY <2>2, <2>3 DEF Settled
<1>2. CASE WorkerNext
  BY <1>2, WorkerSettles, WriteOutcome DEF Settled
<1>3. CASE UNCHANGED vars
  BY <1>3 DEF vars, dbVars
<1>4. QED
  BY <1>1, <1>2, <1>3 DEF Next, ApiNext

\* An item a callback still has to do is settled by nobody else.
LEMMA OnlyCarrierSettles ==
    ASSUME TypeOK, SettledInv, TodoIsPending, SourcesGranted, WorkerNext,
           NEW d \in Deliveries, delivery[d].at \in {"items", "markFailed"},
           NEW c \in Batches, c = delivery[d].batch, OneCopy(c),
           NEW q \in Rows, item[c][q] = "PENDING", item'[c][q] # "PENDING"
    PROVE  \/ ProcessItem(d, q)
           \/ MarkFailed(d) /\ q = delivery[d].row
<1> USE DEF TypeOK, StoreTypeOK
<1>c. Carries(d, c)
  BY DEF Carries
<1>t. \A e \in Deliveries : Busy(e) => delivery[e].batch \in Batches
  BY DEF WorkerTypeOK, Busy
<1>1. ASSUME NEW e \in Deliveries, NEW r \in Rows,
             ProcessItem(e, r), SlotStatement(delivery[e].batch, r)
      PROVE  ProcessItem(d, q)
  <2>1. PICK b \in Batches : b = delivery[e].batch
    BY <1>t, <1>1 DEF ProcessItem, At, Busy
  <2>2. item[b][r] = "PENDING"
    BY <1>1, <2>1 DEF ProcessItem, At, TodoIsPending, PendingItems
  <2>3. SlotStatement(b, r)
    BY <1>1, <2>1
  <2>4. b = c /\ r = q
    <3>1. CASE IsCreate(b) /\ AcquireSlotAndMarkSuccess(b, r)
      BY <3>1 DEF AcquireSlotAndMarkSuccess
    <3>2. ASSUME NEW src \in Batches,
                 item[src][r] \in {"SUCCESS", "CANCELLED"},
                 ReleaseSlotAndMarkItems(b, r, src)
          PROVE  b = c /\ r = q
      <4>1. item' = [item EXCEPT ![src][r] = "CANCELLED", ![b][r] = "SUCCESS"]
        BY <3>2 DEF ReleaseSlotAndMarkItems
      <4>2. ~(src = c /\ r = q)
        BY <3>2
      <4>3. QED
        BY <4>1, <4>2
    <3>3. QED
      BY <2>2, <2>3, <3>1, <3>2, StatementSettles
  <2>5. Carries(e, c)
    BY <1>1, <2>1, <2>4 DEF Carries, ProcessItem, At
  <2>6. e = d
    BY <1>c, <2>5 DEF OneCopy
  <2>7. QED
    BY <1>1, <2>4, <2>6
<1>2. ASSUME NEW e \in Deliveries, MarkFailed(e),
             MarkItemFailed(delivery[e].batch, delivery[e].row)
      PROVE  MarkFailed(d) /\ q = delivery[d].row
  <2>1. PICK b \in Batches, r \in Rows :
          b = delivery[e].batch /\ r = delivery[e].row
    <3>1. /\ delivery[e].row \in delivery[e].todo
          /\ delivery[e].todo \subseteq Rows
          /\ delivery[e].batch \in Batches
      BY <1>2 DEF MarkFailed, At, WorkerTypeOK, Delivery
    <3>2. QED
      BY <3>1
  <2>2. MarkItemFailed(b, r)
    BY <1>2, <2>1
  <2>3. b = c /\ r = q
    BY <2>2 DEF MarkItemFailed
  <2>4. Carries(e, c)
    BY <1>2, <2>1, <2>3 DEF Carries, MarkFailed, At
  <2>5. e = d
    BY <1>c, <2>4 DEF OneCopy
  <2>6. QED
    BY <1>2, <2>1, <2>3, <2>5
<1>3. ~(\E e \in Deliveries : MarkBatchCompleted(delivery[e].batch))
        /\ ~(UNCHANGED dbVars)
  BY DEF MarkBatchCompleted, dbVars
<1>4. ASSUME NEW b \in Batches, DeadLetter(b), MarkBatchFailed(b)
      PROVE  FALSE
  <2>1. b = c
    BY <1>4 DEF MarkBatchFailed
  <2>2. QED
    BY <1>c, <1>4, <2>1 DEF DeadLetter, OneCopy
<1>5. QED
  BY <1>1, <1>2, <1>3, <1>4, WorkerWrites

\* A callback that still has items to do was doing them, or has just read
\* which they are.
LEMMA LoopSteps ==
    ASSUME TypeOK, WorkerNext, NEW d \in Deliveries,
           delivery'[d].at \in {"items", "markFailed"}
    PROVE  \/ LoadStatuses(d)
           \/ /\ delivery[d].at \in {"items", "markFailed"}
              /\ delivery'[d].batch = delivery[d].batch
              /\ delivery'[d].todo \subseteq delivery[d].todo
<1> USE DEF TypeOK, WorkerTypeOK
<1>1. CASE delivery'[d] = delivery[d]
  BY <1>1
<1>2. ASSUME NEW e \in Deliveries, e # d,
             \/ Deliver(e) \/ DeliveryStep(e) \/ LoseConnection(e) \/ Crash(e)
      PROVE  delivery'[d] = delivery[d]
  <2>1. CASE Deliver(e) \/ LoseConnection(e) \/ Crash(e)
    <3>1. \E x : delivery' = [delivery EXCEPT ![e] = x]
      BY <2>1 DEF Deliver, LoseConnection, Crash
    <3>2. QED
      BY <1>2, <3>1
  <2>2. CASE DeliveryStep(e)
    BY <1>2, <2>2 DEF DeliveryStep, LoadStatuses, ProcessItem, MarkFailed,
            CompleteBatch, RetryOrDeadLetter, Ack, DieDetached, Goto
  <2>3. QED
    BY <1>2, <2>1, <2>2
<1>3. ~Ack(d) /\ ~DieDetached(d) /\ ~Crash(d)
  BY DEF Ack, DieDetached, Crash, Idle
<1>4. ~Deliver(d)
  <2>1. Deliver(d) => \E b, n : delivery' = [delivery EXCEPT ![d] =
                        [Idle EXCEPT !.at = "load", !.batch = b, !.retry = n]]
    BY DEF Deliver
  <2>2. ASSUME NEW b, NEW n, delivery' = [delivery EXCEPT ![d] =
                        [Idle EXCEPT !.at = "load", !.batch = b, !.retry = n]]
        PROVE  FALSE
    BY <2>2 DEF Idle
  <2>3. QED
    BY <2>1, <2>2
<1>5. ~CompleteBatch(d) /\ ~RetryOrDeadLetter(d)
  BY DEF CompleteBatch, RetryOrDeadLetter, Goto, Delivery
<1>6. CASE LoseConnection(d) \/ MarkFailed(d) \/ \E r \in Rows : ProcessItem(d, r)
  BY <1>6 DEF LoseConnection, MarkFailed, ProcessItem, Goto, At, Delivery
<1>7. CASE \E b \in Batches : DeadLetter(b)
  BY <1>1, <1>7 DEF DeadLetter, workerVars
<1>8. QED
  BY <1>1, <1>2, <1>3, <1>4, <1>5, <1>6, <1>7 DEF WorkerNext, DeliveryStep

\* Every loop keeps to PENDING items.
LEMMA TodoStaysPending ==
    ASSUME TypeOK, SettledInv, TodoIsPending, SourcesGranted,
           \A b \in Batches : OneCopy(b), Calm', [Next]_vars
    PROVE  TodoIsPending'
<1> USE DEF TypeOK, StoreTypeOK
<1> SUFFICES ASSUME NEW d \in Deliveries,
                    delivery'[d].at \in {"items", "markFailed"},
                    NEW q \in delivery'[d].todo
             PROVE  q \in Rows /\ item'[delivery'[d].batch][q] = "PENDING"
  BY DEF TodoIsPending, PendingItems
<1>1. ASSUME NEW b \in Batches, RequestStep(b) \/ ApiCrash(b),
             UNCHANGED workerVars
      PROVE  q \in Rows /\ item'[delivery'[d].batch][q] = "PENDING"
  <2>1. /\ delivery[d].at \in {"items", "markFailed"}
        /\ q \in delivery[d].todo
        /\ delivery'[d].batch = delivery[d].batch
    BY <1>1 DEF workerVars
  <2>2. PICK c \in Batches : c = delivery[d].batch
    BY <2>1 DEF WorkerTypeOK
  <2>3. q \in Rows /\ item[c][q] = "PENDING"
    BY <2>1, <2>2 DEF TodoIsPending, PendingItems
  <2>4. item'[c] = item[c]
    <3>1. UNCHANGED item \/ (InsertBatch(b) /\ req[b] \in BeforeInsert)
      BY <1>1, ApiFrame
    <3>2. req[b] \in BeforeInsert => b # c
      BY <2>3 DEF SettledInv, InsertPrecedesWork
    <3>3. QED
      BY <3>1, <3>2, InsertElsewhere
  <2>5. QED
    BY <2>1, <2>2, <2>3, <2>4
<1>2. CASE WorkerNext
  <2>1. CASE LoadStatuses(d)
    <3>1. /\ delivery'[d].batch = delivery[d].batch
          /\ delivery'[d].todo = PendingItems(delivery[d].batch)
          /\ UNCHANGED item
      BY <2>1 DEF LoadStatuses, At, Goto, WorkerTypeOK, Delivery, dbVars
    <3>2. QED
      BY <3>1 DEF PendingItems
  <2>2. CASE /\ delivery[d].at \in {"items", "markFailed"}
             /\ delivery'[d].batch = delivery[d].batch
             /\ delivery'[d].todo \subseteq delivery[d].todo
    <3>1. PICK c \in Batches : c = delivery[d].batch
      BY <2>2 DEF WorkerTypeOK
    <3>2. q \in Rows /\ item[c][q] = "PENDING"
      BY <2>2, <3>1 DEF TodoIsPending, PendingItems
    <3>3. SUFFICES ASSUME item'[c][q] # "PENDING" PROVE FALSE
      BY <2>2, <3>1, <3>2
    <3>4. /\ ~Fault("ambiguous")
          /\ ~(UNCHANGED dbVars)
      <4>1. "ambiguous" \in FaultKinds
        BY DEF FaultKinds
      <4>2. Fault("ambiguous") =>
              faults'["ambiguous"] = faults["ambiguous"] + 1
        BY <4>1 DEF Fault
      <4>3. faults["ambiguous"] \in Nat
        BY <4>1
      <4>4. QED
        BY <3>2, <3>3, <4>2, <4>3 DEF Calm, dbVars
    <3>5. CASE ProcessItem(d, q)
      <4>1. delivery' = [delivery EXCEPT ![d].todo = @ \ {q}]
        BY <3>4, <3>5 DEF ProcessItem
      <4>2. QED
        BY <4>1 DEF WorkerTypeOK, Delivery
    <3>6. CASE MarkFailed(d) /\ q = delivery[d].row
      <4>1. delivery' = [delivery EXCEPT ![d].at = "items", ![d].row = NoRow,
                              ![d].todo = @ \ {q}]
        BY <3>4, <3>6 DEF MarkFailed
      <4>2. QED
        BY <4>1 DEF WorkerTypeOK, Delivery
    <3>7. QED
      BY <1>2, <2>2, <3>1, <3>2, <3>3, <3>5, <3>6, OnlyCarrierSettles
  <2>3. QED
    BY <1>2, <2>1, <2>2, LoopSteps
<1>3. CASE UNCHANGED vars
  BY <1>3 DEF vars, dbVars, workerVars, TodoIsPending, PendingItems
<1>4. QED
  BY <1>1, <1>2, <1>3 DEF Next, ApiNext

\* The seats a cancellation names stay seats that were granted.
LEMMA SourcesStayGranted ==
    ASSUME TypeOK, SettledInv, TodoIsPending, SourcesGranted, [Next]_vars
    PROVE  SourcesGranted'
<1> USE DEF TypeOK, StoreTypeOK
<1>a. UNCHANGED ask
  BY ApiSteps, WorkerFrame DEF Next, ApiNext, vars
<1>b. \A b \in Batches, r \in Rows :
        payload'[b][r] # NoBatch => payload'[b][r] \in Batches
  <2>1. StoreTypeOK'
    BY TypeCorrectStep
  <2>2. QED
    BY <2>1
<1> SUFFICES ASSUME NEW b \in Batches, NEW r \in Rows, NEW src \in Batches,
                    payload'[b][r] = src
             PROVE  /\ IsCreate(src)
                    /\ ask[src].user = ask[b].user
                    /\ item'[src][r] \in {"SUCCESS", "CANCELLED"}
  BY <1>a, <1>b DEF SourcesGranted, IsCreate
<1>1. /\ IsCreate(src)
      /\ ask[src].user = ask[b].user
      /\ item[src][r] \in {"SUCCESS", "CANCELLED"}
  <2>1. CASE payload[b][r] = src
    BY <2>1 DEF SourcesGranted
  <2>2. CASE payload[b][r] # src
    <3>1. PICK c \in Batches : SourcesChosen(c)
      BY <2>2, ApiSteps, WorkerFrame DEF Next, ApiNext, vars, mqVars
    <3>2. PICK chosen \in [Rows -> Batches \cup {NoBatch}] :
            /\ payload' = [payload EXCEPT ![c] = chosen]
            /\ \A q \in Rows : chosen[q] # NoBatch =>
                 chosen[q] \in ActiveItems(ask[c].user, q)
      BY <3>1 DEF SourcesChosen
    <3>3. b = c /\ chosen[r] = src
      BY <2>2, <3>2
    <3>4. src \in ActiveItems(ask[b].user, r)
      BY <3>2, <3>3
    <3>5. QED
      BY <3>4 DEF ActiveItems, Holders, Holds, IsCreate
  <2>3. QED
    BY <2>1, <2>2
<1>2. item'[src][r] # item[src][r] => item'[src][r] = "CANCELLED"
  BY <1>1, SettledStays DEF Settled
<1>3. QED
  BY <1>1, <1>2

\* The invariant: what is always so, and what is while no message is doubled.
OnceInv ==
    /\ Unsent
    /\ FailedIsNoted
    /\ Calm => /\ \A b \in Batches : OneCopy(b)
               /\ TodoIsPending
               /\ SourcesGranted

BaseInv == TypeOK /\ SettledInv /\ OnceInv

LEMMA BaseInit == Init => BaseInv
<1> SUFFICES ASSUME Init PROVE BaseInv
  OBVIOUS
<1>1. TypeOK /\ SettledInv
  BY TypeCorrectInit, SettledInit
<1>2. \A d \in Deliveries : ~Busy(d) /\ delivery[d].at = "idle"
  BY DEF Init, WorkerInit, Idle, Busy
<1>3. Unsent
  BY <1>2 DEF Init, StoreInit, Unsent, Untouched
<1>4. FailedIsNoted
  BY <1>2 DEF FailedIsNoted, At
<1>5. \A b \in Batches : OneCopy(b)
  <2>1. /\ \A b \in Batches, n \in 0..MaxRetries : queue[b][n] = 0
        /\ \A b \in Batches : dlq[b] = 0
        /\ \A d \in Deliveries, b \in Batches : ~Carries(d, b)
    BY <1>2 DEF Init, StoreInit, Carries
  <2>2. QED
    BY <2>1 DEF OneCopy
<1>6. TodoIsPending
  BY <1>2 DEF TodoIsPending
<1>7. SourcesGranted
  BY DEF Init, StoreInit, SourcesGranted
<1>8. QED
  BY <1>1, <1>3, <1>4, <1>5, <1>6, <1>7 DEF BaseInv, OnceInv

LEMMA BaseStep ==
    ASSUME BaseInv, [Next]_vars
    PROVE  /\ BaseInv'
           /\ Calm' => Calm
<1> USE DEF BaseInv
<1>1. TypeOK' /\ SettledInv'
  BY TypeCorrectStep, SettledStep
<1>2. Unsent' /\ FailedIsNoted'
  BY UnsentStays, FailedStaysNoted DEF OnceInv
<1>3. Calm' => Calm
  <2>1. UNCHANGED faults \/ \E k \in FaultKinds : Fault(k)
    <3>1. CASE ApiNext
      BY <3>1, ApiOnlyAddsCopies DEF ApiNext
    <3>2. CASE WorkerNext
      BY <3>2, WorkerFaults
    <3>3. QED
      BY <3>1, <3>2 DEF Next, vars
  <2>2. QED
    BY <2>1, FaultsGrow DEF TypeOK
<1>4. ASSUME Calm'
      PROVE  (\A b \in Batches : OneCopy(b)')
               /\ TodoIsPending' /\ SourcesGranted'
  <2>1. /\ \A b \in Batches : OneCopy(b)
        /\ TodoIsPending
        /\ SourcesGranted
    BY <1>3, <1>4 DEF OnceInv
  <2>2. TodoIsPending' /\ SourcesGranted'
    BY <1>4, <2>1, TodoStaysPending, SourcesStayGranted
  <2>3. ASSUME NEW c \in Batches
        PROVE  OneCopy(c)'
    <3>1. ASSUME NEW b \in Batches, RequestStep(b) \/ ApiCrash(b),
                 UNCHANGED workerVars
          PROVE  OneCopy(c)'
      BY <1>1, <2>1, <3>1, ApiKeepsCopies DEF OnceInv
    <3>2. CASE WorkerNext
      BY <1>1, <1>4, <2>1, <3>2, WorkerKeepsCopies DEF OnceInv
    <3>3. CASE UNCHANGED vars
      BY <2>1, <3>3 DEF vars, mqVars, workerVars, OneCopy, Carries
    <3>4. QED
      BY <3>1, <3>2, <3>3 DEF Next, ApiNext
  <2>4. QED
    BY <2>2, <2>3
<1>5. QED
  BY <1>1, <1>2, <1>3, <1>4 DEF OnceInv

\* A message exists once while nothing has doubled it: a batch no request has
\* answered is unknown to the broker, and one copy at most is ready, dead or
\* in a callback until a connection breaks, a commit is hidden by an error or
\* a crash follows a failed statement.  Always so, whatever the faults: types,
\* and no item PENDING again once its loop has passed it.
THEOREM EachMessageOnce == Spec => []BaseInv
<1>1. Init => BaseInv
  BY BaseInit
<1>2. BaseInv /\ [Next]_vars => BaseInv'
  BY BaseStep
<1>3. QED
  BY <1>1, <1>2, PTL DEF Spec

\* An outcome is final: while no fault has doubled a message or hidden a
\* commit, no handler, retry, redelivery or dead-letter transaction rewrites
\* an item that has left PENDING, for every kind of client and every number
\* of students, workers and batches; only a cancellation turns the SUCCESS of
\* a registration into CANCELLED.
THEOREM OutcomesAreFinal == Spec /\ []Calm => OutcomeIsFinal
<1>1. BaseInv /\ Calm /\ [Next]_vars =>
        [\A b \in Batches, r \in Rows :
           item[b][r] \in Settled /\ item'[b][r] # item[b][r]
             => Holds(b, r) /\ item'[b][r] = "CANCELLED"]_vars
  <2> SUFFICES ASSUME BaseInv, Calm, [Next]_vars,
                      NEW b \in Batches, NEW r \in Rows,
                      item[b][r] \in Settled, item'[b][r] # item[b][r]
               PROVE  Holds(b, r) /\ item'[b][r] = "CANCELLED"
    OBVIOUS
  <2>1. QED
    BY SettledStays DEF BaseInv, OnceInv
<1>2. QED
  BY <1>1, EachMessageOnce, PTL DEF Spec, OutcomeIsFinal

----------------------------------------------------------------------------
(* Clients that wait for an answer.                                        *)

Unanswered(b) == req[b] \notin Answered \cup {"idle"}

\* ... or for the batch as well.
Open(b) == Unanswered(b) \/ batch[b] = "PENDING"

NoBatchYet == \A b \in Batches : req[b] \in BeforeInsert => batch[b] = "NONE"

OneInFlight ==
    \A b, c \in Batches :
        b # c /\ ask[b].user = ask[c].user => ~(Unanswered(b) /\ Unanswered(c))

\* What CheckNoPending read is still so at the insert.
CreateAlone ==
    \A b, c \in Batches :
        /\ IsCreate(b)
        /\ req[b] \in InFlight
        /\ ask[b].user = ask[c].user
        => batch[c] # "PENDING"

OnePendingCreate ==
    \A b, c \in Batches :
        /\ b # c
        /\ ask[b].user = ask[c].user
        /\ IsCreate(b)
        /\ IsCreate(c)
        => ~(batch[b] = "PENDING" /\ batch[c] = "PENDING")

OneOpen ==
    \A b, c \in Batches :
        b # c /\ ask[b].user = ask[c].user => ~(Open(b) /\ Open(c))

WaitInv ==
    /\ NoBatchYet
    /\ Clients # "free" => OneInFlight /\ CreateAlone /\ OnePendingCreate
    /\ Clients = "polling" => OneOpen

\* No batch but the one inserted becomes PENDING.
LEMMA PendingBefore ==
    ASSUME TypeOK, [Next]_vars, NEW c \in Batches, batch'[c] = "PENDING"
    PROVE  \/ batch[c] = "PENDING"
           \/ InsertBatch(c) /\ req[c] = "insert" /\ req'[c] \notin BeforeInsert
<1>1. ASSUME NEW b \in Batches, RequestStep(b) \/ ApiCrash(b)
      PROVE  \/ batch[c] = "PENDING"
             \/ InsertBatch(c) /\ req[c] = "insert" /\ req'[c] \notin BeforeInsert
  <2>1. \/ UNCHANGED batch
        \/ InsertBatch(b) /\ req[b] = "insert" /\ req'[b] \notin BeforeInsert
    BY <1>1, ApiSteps DEF dbVars, BeforeInsert
  <2>2. QED
    BY <2>1, InsertElsewhere
<1>2. CASE WorkerNext
  BY <1>2, WorkerNeverReopens
<1>3. CASE UNCHANGED vars
  BY <1>3 DEF vars, dbVars
<1>4. QED
  BY <1>1, <1>2, <1>3 DEF Next, ApiNext

\* Which requests a step may start.
LEMMA RequestBefore ==
    ASSUME TypeOK, [Next]_vars, NEW c \in Batches
    PROVE  /\ req'[c] \in BeforeInsert => req[c] \in BeforeInsert
           /\ Unanswered(c)' =>
                \/ Unanswered(c)
                \/ /\ req[c] = "idle" /\ MayStart(c)
                   /\ UNCHANGED <<ask, dbVars>>
                   /\ \A b \in Batches \ {c} : req'[b] = req[b]
           /\ IsCreate(c) /\ req'[c] \in InFlight =>
                \/ req[c] \in InFlight
                \/ /\ PendingBatches(ask[c].user, BatchTypes) = {}
                   /\ UNCHANGED batch
<1>1. ASSUME NEW b \in Batches, RequestStep(b) \/ ApiCrash(b)
      PROVE  /\ req'[c] \in BeforeInsert => req[c] \in BeforeInsert
             /\ Unanswered(c)' =>
                  \/ Unanswered(c)
                  \/ /\ req[c] = "idle" /\ MayStart(c)
                     /\ UNCHANGED <<ask, dbVars>>
                     /\ \A d \in Batches \ {c} : req'[d] = req[d]
             /\ IsCreate(c) /\ req'[c] \in InFlight =>
                  \/ req[c] \in InFlight
                  \/ /\ PendingBatches(ask[c].user, BatchTypes) = {}
                     /\ UNCHANGED batch
  <2>1. CASE c # b
    <3>1. req'[c] = req[c]
      BY <1>1, <2>1, ApiOnlyAddsCopies
    <3>2. QED
      BY <3>1 DEF Unanswered
  <2>2. CASE c = b
    <3>1. /\ UNCHANGED ask
          /\ req[b] \notin Answered
          /\ req[b] = "idle" => MayStart(b)
          /\ \/ UNCHANGED dbVars
             \/ /\ req[b] = "insert"
                /\ req'[b] \in {"publish", "rollback"}
          /\ IsCreate(b) /\ req'[b] \in InFlight =>
               \/ req[b] \in InFlight
               \/ PendingBatches(ask[b].user, BatchTypes) = {}
      BY <1>1, ApiSteps
    <3>2. /\ \A d \in Batches \ {b} : req'[d] = req[d]
          /\ req'[b] \in BeforeInsert => req[b] \in BeforeInsert
      BY <1>1, ApiOnlyAddsCopies, ApiFrame
    <3>3. req'[b] \in InFlight => UNCHANGED batch
      BY <3>1 DEF InFlight, BeforeInsert, dbVars
    <3>4. QED
      BY <2>2, <3>1, <3>2, <3>3 DEF Unanswered
  <2>3. QED
    BY <2>1, <2>2
<1>2. CASE UNCHANGED req
  BY <1>2 DEF Unanswered
<1>3. QED
  BY <1>1, <1>2 DEF Next, ApiNext, vars, apiVars

\* The requests of one student stay one after the other.
LEMMA OneInFlightStays ==
    ASSUME TypeOK, OneInFlight, Clients # "free", [Next]_vars
    PROVE  OneInFlight'
<1>a. UNCHANGED ask
  BY ApiSteps, WorkerFrame DEF Next, ApiNext, vars
<1> SUFFICES ASSUME NEW b \in Batches, NEW c \in Batches,
                    b # c, ask[b].user = ask[c].user,
                    Unanswered(b)', Unanswered(c)'
             PROVE  FALSE
  BY <1>a DEF OneInFlight
<1>1. ~(Unanswered(b) /\ Unanswered(c))
  BY DEF OneInFlight
<1>2. ASSUME NEW x \in Batches, NEW y \in Batches, x # y,
             ask[x].user = ask[y].user, ~Unanswered(x),
             Unanswered(x)', Unanswered(y)'
      PROVE  FALSE
  <2>1. MayStart(x) /\ req'[y] = req[y]
    BY <1>2, RequestBefore
  <2>2. ~Unanswered(y)
    BY <1>2, <2>1 DEF MayStart, Unanswered
  <2>3. QED
    BY <1>2, <2>1, <2>2 DEF Unanswered
<1>3. QED
  BY <1>1, <1>2

LEMMA CreateAloneStays ==
    ASSUME TypeOK, OneInFlight, CreateAlone, NoBatchYet, Clients # "free",
           [Next]_vars
    PROVE  CreateAlone'
<1>a. UNCHANGED ask
  BY ApiSteps, WorkerFrame DEF Next, ApiNext, vars
<1> SUFFICES ASSUME NEW b \in Batches, NEW c \in Batches,
                    IsCreate(b), req'[b] \in InFlight,
                    ask[b].user = ask[c].user, batch'[c] = "PENDING"
             PROVE  FALSE
  BY <1>a DEF CreateAlone, IsCreate
<1>1. batch[c] # "PENDING"
  <2>1. CASE req[b] \in InFlight
    BY <2>1 DEF CreateAlone
  <2>2. CASE PendingBatches(ask[b].user, BatchTypes) = {}
    <3>1. ask[c].type \in BatchTypes
      BY StoreAssumption DEF TypeOK, StoreTypeOK
    <3>2. QED
      BY <2>2, <3>1 DEF PendingBatches
  <2>3. QED
    BY <2>1, <2>2, RequestBefore
<1>2. InsertBatch(c) /\ req[c] = "insert" /\ req'[c] \notin BeforeInsert
  BY <1>1, PendingBefore
<1>3. b # c
  BY <1>2 DEF InFlight
<1>4. Unanswered(c)
  BY <1>2 DEF Unanswered, Answered
<1>5. Unanswered(b)'
  BY DEF InFlight, BeforeInsert, Unanswered
<1>6. ~Unanswered(b)
  BY <1>3, <1>4 DEF OneInFlight
<1>7. UNCHANGED dbVars
  BY <1>5, <1>6, RequestBefore
<1>8. QED
  BY <1>1, <1>7 DEF dbVars

LEMMA OnePendingCreateStays ==
    ASSUME TypeOK, CreateAlone, OnePendingCreate, [Next]_vars
    PROVE  OnePendingCreate'
<1>a. UNCHANGED ask
  BY ApiSteps, WorkerFrame DEF Next, ApiNext, vars
<1> SUFFICES ASSUME NEW b \in Batches, NEW c \in Batches,
                    b # c, ask[b].user = ask[c].user, IsCreate(b), IsCreate(c),
                    batch'[b] = "PENDING", batch'[c] = "PENDING"
             PROVE  FALSE
  BY <1>a DEF OnePendingCreate, IsCreate
<1>1. ASSUME NEW x \in Batches, NEW y \in Batches, x # y,
             ask[x].user = ask[y].user, IsCreate(x),
             batch'[y] = "PENDING", InsertBatch(x), req[x] = "insert"
      PROVE  FALSE
  <2>1. batch[y] = "PENDING"
    BY <1>1, InsertElsewhere
  <2>2. req[x] \in InFlight
    BY <1>1 DEF InFlight, BeforeInsert, ReqPoints, Answered
  <2>3. QED
    BY <1>1, <2>1, <2>2 DEF CreateAlone
<1>2. QED
  BY <1>1, PendingBefore DEF OnePendingCreate

\* A polling student has one open request or batch at a time.
LEMMA OneOpenStays ==
    ASSUME TypeOK, OneOpen, Clients = "polling", [Next]_vars
    PROVE  OneOpen'
<1>a. UNCHANGED ask
  BY ApiSteps, WorkerFrame DEF Next, ApiNext, vars
<1> SUFFICES ASSUME NEW b \in Batches, NEW c \in Batches,
                    b # c, ask[b].user = ask[c].user, Open(b)', Open(c)'
             PROVE  FALSE
  BY <1>a DEF OneOpen
<1>1. ~(Open(b) /\ Open(c))
  BY DEF OneOpen
<1>2. ASSUME NEW x \in Batches, NEW y \in Batches, x # y,
             ask[x].user = ask[y].user, ~Open(x), Open(x)', Open(y)'
      PROVE  FALSE
  <2>1. ~(batch'[x] = "PENDING")
    BY <1>2, PendingBefore DEF Open, Unanswered, Answered
  <2>2. Unanswered(x)' /\ ~Unanswered(x)
    BY <1>2, <2>1 DEF Open
  <2>3. MayStart(x) /\ req'[y] = req[y] /\ UNCHANGED dbVars
    BY <1>2, <2>2, RequestBefore
  <2>4. ~Open(y)
    BY <1>2, <2>3 DEF MayStart, Open, Unanswered
  <2>5. QED
    BY <1>2, <2>3, <2>4 DEF Open, Unanswered, dbVars
<1>3. QED
  BY <1>1, <1>2

\* A batch of which nothing is with the broker or a worker is left alone.
LEMMA UntouchedBatchStays ==
    ASSUME TypeOK, WorkerNext, NEW c \in Batches, Untouched(c)
    PROVE  batch'[c] = batch[c]
<1>1. UNCHANGED batch \/ \E b \in Batches \ {c} :
                           batch' = [batch EXCEPT ![b] = "COMPLETED"]
  <2>1. ASSUME NEW d \in Deliveries, CompleteBatch(d),
               MarkBatchCompleted(delivery[d].batch)
        PROVE  \E b \in Batches \ {c} :
                  batch' = [batch EXCEPT ![b] = "COMPLETED"]
    <3>1. delivery[d].batch \in Batches \ {c}
      BY <2>1 DEF CompleteBatch, At, Untouched, Busy, TypeOK,
                        WorkerTypeOK
    <3>2. QED
      BY <2>1, <3>1 DEF MarkBatchCompleted
  <2>2. ASSUME NEW b \in Batches, DeadLetter(b), MarkBatchFailed(b)
        PROVE  \E x \in Batches \ {c} :
                  batch' = [batch EXCEPT ![x] = "COMPLETED"]
    <3>1. b # c
      BY <2>2 DEF DeadLetter, Untouched
    <3>2. batch' = [batch EXCEPT ![b] = "COMPLETED"]
      BY <2>2 DEF MarkBatchFailed
    <3>3. QED
      BY <3>1, <3>2
  <2>3. ASSUME NEW b, NEW r, SlotStatement(b, r) \/ MarkItemFailed(b, r)
        PROVE  UNCHANGED batch
    BY <2>3 DEF SlotStatement, AcquireSlotAndMarkSuccess,
                ReleaseSlotAndMarkItems, MarkItemFailed
  <2>4. QED
    BY <2>1, <2>2, <2>3, WorkerWrites DEF dbVars
<1>2. QED
  BY <1>1 DEF TypeOK, StoreTypeOK

LEMMA NoBatchYetStays ==
    ASSUME TypeOK, SettledInv, NoBatchYet, [Next]_vars
    PROVE  NoBatchYet'
<1> SUFFICES ASSUME NEW c \in Batches, req'[c] \in BeforeInsert
             PROVE  batch'[c] = "NONE"
  BY DEF NoBatchYet
<1>1. req[c] \in BeforeInsert /\ batch[c] = "NONE"
  BY RequestBefore DEF NoBatchYet
<1>2. Untouched(c)
  BY <1>1 DEF SettledInv, InsertPrecedesWork, Untouched
<1>3. ASSUME NEW b \in Batches, RequestStep(b) \/ ApiCrash(b)
      PROVE  batch'[c] = batch[c]
  <2>1. \/ UNCHANGED batch
        \/ InsertBatch(b) /\ req'[b] \notin BeforeInsert
    BY <1>3, ApiFrame
  <2>2. QED
    BY <2>1, InsertElsewhere
<1>4. CASE WorkerNext
  BY <1>1, <1>2, <1>4, UntouchedBatchStays
<1>5. CASE UNCHANGED vars
  BY <1>1, <1>5 DEF vars, dbVars
<1>6. QED
  BY <1>1, <1>3, <1>4, <1>5 DEF Next, ApiNext

LEMMA WaitStep ==
    ASSUME TypeOK, SettledInv, WaitInv, [Next]_vars
    PROVE  WaitInv'
<1>1. NoBatchYet'
  BY NoBatchYetStays DEF WaitInv
<1>2. Clients # "free" => OneInFlight' /\ CreateAlone' /\ OnePendingCreate'
  BY OneInFlightStays, CreateAloneStays, OnePendingCreateStays DEF WaitInv
<1>3. Clients = "polling" => OneOpen'
  BY OneOpenStays DEF WaitInv
<1>4. QED
  BY <1>1, <1>2, <1>3 DEF WaitInv

LEMMA WaitInit == Init => WaitInv
<1> SUFFICES ASSUME Init PROVE WaitInv
  OBVIOUS
<1>1. \A b \in Batches : req[b] = "idle" /\ batch[b] = "NONE"
  BY DEF Init, StoreInit, ApiInit
<1>2. QED
  BY <1>1 DEF WaitInv, NoBatchYet, OneInFlight, CreateAlone, OnePendingCreate,
              OneOpen, Open, Unanswered, InFlight

\* A student whose requests wait for an answer never has two PENDING CREATE
\* batches: what assertNoPendingBatch read is still so at the insert, several
\* awaits later, for every number of faults.
THEOREM OneBatchAtATime ==
    ASSUME Clients # "free"
    PROVE  Spec => []OneBatchPerStudent
<1>1. Init => WaitInv
  BY WaitInit
<1>2. TypeOK /\ SettledInv /\ WaitInv /\ [Next]_vars => WaitInv'
  BY WaitStep
<1>3. TypeOK /\ WaitInv => OneBatchPerStudent
  <2> SUFFICES ASSUME TypeOK, OnePendingCreate, NEW u \in Students
               PROVE  Cardinality(PendingBatches(u, {"CREATE"})) <= 1
    BY DEF WaitInv, OneBatchPerStudent
  <2> DEFINE S == PendingBatches(u, {"CREATE"})
  <2>1. \A b, c \in S : b = c
    BY DEF PendingBatches, OnePendingCreate, IsCreate
  <2> HIDE DEF S
  <2>2. CASE S = {}
    BY <2>2, FS_EmptySet DEF S
  <2>3. ASSUME NEW b \in S
        PROVE  Cardinality(S) <= 1
    <3>1. S = {b}
      BY <2>1
    <3>2. Cardinality(S) = 1
      BY <3>1, FS_Singleton
    <3>3. QED
      BY <3>2
  <2>4. QED
    BY <2>2, <2>3 DEF S
<1>4. QED
  BY <1>1, <1>2, <1>3, TypeCorrect, SettledAlways, PTL DEF Spec

----------------------------------------------------------------------------
(* One seat per course.                                                    *)

\* An item to settle belongs to a batch that is not over.
PendingHasBatch ==
    \A b \in Batches, r \in Rows :
        item[b][r] = "PENDING" => batch[b] = "PENDING"

\* A worker only ends batches.
LEMMA WorkerEndsBatches ==
    ASSUME TypeOK, WorkerNext, NEW c \in Batches
    PROVE  batch'[c] \in {batch[c], "COMPLETED"}
<1>1. ASSUME NEW b, NEW r, SlotStatement(b, r) \/ MarkItemFailed(b, r)
      PROVE  UNCHANGED batch
  BY <1>1 DEF SlotStatement, AcquireSlotAndMarkSuccess,
              ReleaseSlotAndMarkItems, MarkItemFailed
<1>2. ASSUME NEW b, MarkBatchCompleted(b) \/ MarkBatchFailed(b)
      PROVE  batch'[c] \in {batch[c], "COMPLETED"}
  BY <1>2 DEF MarkBatchCompleted, MarkBatchFailed, TypeOK, StoreTypeOK
<1>3. QED
  BY <1>1, <1>2, WorkerWrites DEF dbVars

LEMMA PendingHasBatchStays ==
    ASSUME TypeOK, SettledInv, PendingHasBatch, [Next]_vars
    PROVE  PendingHasBatch'
<1> SUFFICES ASSUME NEW c \in Batches, NEW q \in Rows, item'[c][q] = "PENDING"
             PROVE  batch'[c] = "PENDING"
  BY DEF PendingHasBatch
<1>1. ASSUME NEW b \in Batches, RequestStep(b) \/ ApiCrash(b)
      PROVE  batch'[c] = "PENDING"
  <2>1. CASE UNCHANGED <<batch, item>>
    BY <2>1 DEF PendingHasBatch
  <2>2. CASE InsertBatch(b) /\ c = b
    BY <2>2 DEF InsertBatch, TypeOK, StoreTypeOK
  <2>3. CASE InsertBatch(b) /\ c # b
    BY <2>3, InsertElsewhere DEF PendingHasBatch
  <2>4. QED
    BY <1>1, <2>1, <2>2, <2>3, ApiFrame
<1>2. CASE WorkerNext
  <2>1. batch[c] = "PENDING"
    BY <1>2, WorkerItems DEF PendingHasBatch
  <2>2. batch'[c] # "COMPLETED"
    BY SettledStep DEF SettledInv, CompletedIsSettled, PendingItems
  <2>3. QED
    BY <1>2, <2>1, <2>2, WorkerEndsBatches
<1>3. CASE UNCHANGED vars
  BY <1>3 DEF vars, dbVars, PendingHasBatch
<1>4. QED
  BY <1>1, <1>2, <1>3 DEF Next, ApiNext

\* Request b has, or is about to ask for, a seat on row r.
Claims(b, r) ==
    /\ IsCreate(b)
    /\ \/ item[b][r] \in {"PENDING", "SUCCESS"}
       \/ req[b] \in {"reserve", "insert"} /\ r \in Asked(b)

OneClaim ==
    \A b1, b2 \in Batches, c1, c2 \in Codes :
        /\ b1 # b2
        /\ ask[b1].user = ask[b2].user
        /\ CourseOf[c1] = CourseOf[c2]
        => ~( /\ \E r \in RowsOf[c1] : Claims(b1, r)
              /\ \E r \in RowsOf[c2] : Claims(b2, r) )

\* A claim begins with the check of step 9, and with no other step.
LEMMA ClaimBegins ==
    ASSUME TypeOK, SettledInv, TodoIsPending, SourcesGranted, [Next]_vars,
           NEW b \in Batches, NEW r \in Rows, Claims(b, r)', ~Claims(b, r)
    PROVE  /\ IsCreate(b)
           /\ req[b] = "active"
           /\ r \in Asked(b)
           /\ {CourseOf[c] : c \in ask[b].codes}
                \cap ActiveCourses(ask[b].user) = {}
           /\ req'[b] # req[b]
           /\ \A c \in Batches \ {b} : req'[c] = req[c]
<1>a. UNCHANGED ask
  BY ApiSteps, WorkerFrame DEF Next, ApiNext, vars
<1>b. IsCreate(b) /\ item[b][r] \notin {"PENDING", "SUCCESS"}
  BY <1>a DEF Claims, IsCreate
<1>c. Asked(b)' = Asked(b)
  BY <1>a DEF Asked
<1>1. item'[b][r] \notin {"PENDING", "SUCCESS"}
  <2>1. ASSUME NEW c \in Batches, RequestStep(c) \/ ApiCrash(c)
        PROVE  item'[b][r] \notin {"PENDING", "SUCCESS"}
    <3>1. CASE UNCHANGED item
      BY <1>b, <3>1
    <3>2. CASE InsertBatch(c) /\ c # b
      BY <1>b, <3>2, InsertElsewhere
    <3>3. CASE InsertBatch(b) /\ req[b] = "insert"
      <4>1. r \notin Asked(b)
        BY <1>b, <3>3 DEF Claims
      <4>2. item'[b][r] = "NONE"
        BY <3>3, <4>1 DEF InsertBatch, TypeOK, StoreTypeOK
      <4>3. QED
        BY <4>2
    <3>4. QED
      BY <2>1, <3>1, <3>2, <3>3, ApiSteps DEF dbVars
  <2>2. CASE WorkerNext
    BY <1>b, <2>2, WorkerSettles, WriteOutcome
  <2>3. CASE UNCHANGED vars
    BY <1>b, <2>3 DEF vars, dbVars
  <2>4. QED
    BY <2>1, <2>2, <2>3 DEF Next, ApiNext
<1>2. req'[b] \in {"reserve", "insert"} /\ r \in Asked(b)
  BY <1>1, <1>c DEF Claims
<1>3. req[b] \notin {"reserve", "insert"}
  BY <1>b, <1>2 DEF Claims
<1>4. PICK c \in Batches : RequestStep(c) \/ ApiCrash(c)
  BY <1>2, <1>3 DEF Next, ApiNext, vars, apiVars
<1>5. c = b
  BY <1>2, <1>3, <1>4, ApiOnlyAddsCopies
<1>6. QED
  BY <1>b, <1>2, <1>3, <1>4, <1>5, ApiSteps, ApiOnlyAddsCopies

LEMMA OneClaimStays ==
    ASSUME TypeOK, SettledInv, TodoIsPending, SourcesGranted, PendingHasBatch,
           OneInFlight, CreateAlone, OneClaim, [Next]_vars
    PROVE  OneClaim'
<1>a. UNCHANGED ask
  BY ApiSteps, WorkerFrame DEF Next, ApiNext, vars
<1>1. ASSUME NEW b1 \in Batches, NEW b2 \in Batches,
             NEW c1 \in Codes, NEW c2 \in Codes,
             b1 # b2, ask[b1].user = ask[b2].user, CourseOf[c1] = CourseOf[c2],
             NEW r1 \in RowsOf[c1], NEW r2 \in RowsOf[c2],
             Claims(b1, r1)', Claims(b2, r2)', ~Claims(b1, r1)
      PROVE  FALSE
  <2>0. r1 \in Rows /\ r2 \in Rows
    OBVIOUS
  <2>1. /\ IsCreate(b1)
        /\ req[b1] = "active"
        /\ r1 \in Asked(b1)
        /\ {CourseOf[c] : c \in ask[b1].codes}
             \cap ActiveCourses(ask[b1].user) = {}
        /\ req'[b2] = req[b2]
    BY <1>1, <2>0, ClaimBegins
  <2>2. Claims(b2, r2)
    BY <1>1, <2>0, <2>1, ClaimBegins
  <2>3. c1 \in ask[b1].codes
    <3>1. PICK c \in ask[b1].codes : r1 \in RowsOf[c]
      BY <2>1 DEF Asked
    <3>2. c \in Codes
      BY DEF TypeOK, StoreTypeOK
    <3>3. c = c1
      BY <3>1, <3>2
    <3>4. QED
      BY <3>1, <3>3
  <2>4. item[b2][r2] # "SUCCESS"
    <3>1. SUFFICES ASSUME item[b2][r2] = "SUCCESS" PROVE FALSE
      OBVIOUS
    <3>2. b2 \in ActiveItems(ask[b1].user, r2)
      BY <1>1, <2>2, <3>1 DEF ActiveItems, Holders, Holds, Claims, IsCreate
    <3>3. CourseOf[c2] \in ActiveCourses(ask[b1].user)
      BY <3>2 DEF ActiveCourses
    <3>4. CourseOf[c1] \in {CourseOf[c] : c \in ask[b1].codes}
      BY <2>3
    <3>5. QED
      BY <1>1, <2>1, <3>3, <3>4
  <2>5. item[b2][r2] # "PENDING"
    <3>1. req[b1] \in InFlight
      BY <2>1 DEF InFlight, BeforeInsert, ReqPoints, Answered
    <3>2. batch[b2] # "PENDING"
      BY <1>1, <2>1, <3>1 DEF CreateAlone
    <3>3. QED
      BY <2>0, <3>2 DEF PendingHasBatch
  <2>6. req[b2] \in {"reserve", "insert"}
    BY <2>2, <2>4, <2>5 DEF Claims
  <2>7. Unanswered(b1) /\ Unanswered(b2)
    BY <2>1, <2>6 DEF Unanswered, Answered
  <2>8. QED
    BY <1>1, <2>7 DEF OneInFlight
<1>2. SUFFICES ASSUME NEW b1 \in Batches, NEW b2 \in Batches,
                      NEW c1 \in Codes, NEW c2 \in Codes,
                      b1 # b2, ask[b1].user = ask[b2].user,
                      CourseOf[c1] = CourseOf[c2],
                      NEW r1 \in RowsOf[c1], NEW r2 \in RowsOf[c2],
                      Claims(b1, r1)', Claims(b2, r2)'
               PROVE  FALSE
  BY <1>a DEF OneClaim
<1>3. ~(Claims(b1, r1) /\ Claims(b2, r2))
  BY <1>2 DEF OneClaim
<1>4. QED
  BY <1>1, <1>2, <1>3

----------------------------------------------------------------------------
(* Seats and items.                                                        *)

\* Requests that do not cancel, or students that wait for each batch: a seat
\* is then asked back once (double_cancel shows what happens otherwise).
CreateOnly == \A a \in Asks : a.type = "CREATE"

Orderly == Clients = "polling" \/ CreateOnly

\* From the choice of its sources to the last item, a cancellation is alone
\* with the seats it gives back.
Withdrawing(b) ==
    \/ req[b] \in {"pending", "reserve", "insert", "rollback", "publish"}
    \/ batch[b] = "PENDING"

SourceHeld ==
    \A b \in Batches, r \in Rows :
        /\ ~IsCreate(b)
        /\ payload[b][r] # NoBatch
        /\ Withdrawing(b)
        /\ item[b][r] \in {"NONE", "PENDING"}
        => item[payload[b][r]][r] = "SUCCESS"

SeatsCounted ==
    \A r \in Rows : /\ IsFiniteSet(Holders(r))
                    /\ slDk[r] = Cardinality(Holders(r))

\* What is left of that when a message may be worked on twice, as long as
\* nobody gives a seat back: the counter may be too high, never too low.
HoldersCounted ==
    \A r \in Rows : /\ IsFiniteSet(Holders(r))
                    /\ Cardinality(Holders(r)) <= slDk[r]

LEMMA CreateOnlyType ==
    ASSUME CreateOnly, TypeOK, NEW b \in Batches
    PROVE  IsCreate(b)
BY DEF CreateOnly, TypeOK, StoreTypeOK, IsCreate

\* Only a cancellation takes the SUCCESS of a registration away.
LEMMA ReleasedBy ==
    ASSUME TypeOK, SettlingWrite, NEW c \in Batches, NEW q \in Rows,
           item[c][q] = "SUCCESS", item'[c][q] # "SUCCESS"
    PROVE  \E b \in Batches :
             /\ item[b][q] = "PENDING"
             /\ ~IsCreate(b)
             /\ payload[b][q] = c
             /\ ask[c].user = ask[b].user
             /\ item'[b][q] = "SUCCESS"
<1> USE DEF TypeOK, StoreTypeOK
<1>1. ASSUME NEW b \in Batches, NEW r \in Rows,
             \/ AcquireSlotAndMarkSuccess(b, r)
             \/ item[b][r] = "PENDING" /\ MarkItemFailed(b, r)
      PROVE  item'[c][q] = "SUCCESS"
  <2>1. CASE AcquireSlotAndMarkSuccess(b, r)
    BY <2>1 DEF AcquireSlotAndMarkSuccess
  <2>2. CASE item[b][r] = "PENDING" /\ MarkItemFailed(b, r)
    <3>1. item' = [item EXCEPT ![b][r] = "FAILED"] /\ ~(b = c /\ r = q)
      BY <2>2 DEF MarkItemFailed
    <3>2. QED
      BY <3>1
  <2>3. QED
    BY <1>1, <2>1, <2>2
<1>2. ASSUME NEW b \in Batches, NEW src \in Batches, NEW r \in Rows,
             /\ item[b][r] = "PENDING"
             /\ ~IsCreate(b)
             /\ payload[b][r] = src
             /\ IsCreate(src)
             /\ ask[src].user = ask[b].user
             /\ ReleaseSlotAndMarkItems(b, r, src)
      PROVE  \E x \in Batches :
               /\ item[x][q] = "PENDING"
               /\ ~IsCreate(x)
               /\ payload[x][q] = c
               /\ ask[c].user = ask[x].user
               /\ item'[x][q] = "SUCCESS"
  <2>1. /\ item' = [item EXCEPT ![src][r] = "CANCELLED", ![b][r] = "SUCCESS"]
        /\ src # b
    BY <1>2 DEF ReleaseSlotAndMarkItems
  <2>2. c = src /\ q = r
    BY <2>1
  <2>3. item'[b][r] = "SUCCESS"
    BY <2>1
  <2>4. QED
    BY <1>2, <2>2, <2>3
<1>3. ASSUME NEW b \in Batches, MarkBatchFailed(b)
      PROVE  item'[c][q] = "SUCCESS"
  <2>1. item' = [item EXCEPT ![b] =
                   [r \in Rows |-> IF item[b][r] = "PENDING" THEN "FAILED"
                                                             ELSE item[b][r]]]
    BY <1>3 DEF MarkBatchFailed
  <2>2. item'[c] = item[c]
          \/ item'[c] = [r \in Rows |-> IF item[c][r] = "PENDING"
                                          THEN "FAILED" ELSE item[c][r]]
    BY <2>1
  <2>3. QED
    BY <2>2
<1>4. ~(UNCHANGED dbVars) /\ ~(\E b \in Batches : MarkBatchCompleted(b))
  BY DEF dbVars, MarkBatchCompleted
<1>5. QED
  BY <1>1, <1>2, <1>3, <1>4 DEF SettlingWrite

\* Nobody else cancels what a polling student is cancelling.
LEMMA SourceStaysHeld ==
    ASSUME BaseInv, Calm, PendingHasBatch, OneOpen, SourceHeld, [Next]_vars
    PROVE  SourceHeld'
<1> USE DEF BaseInv, OnceInv
<1>a. UNCHANGED ask
  BY ApiSteps, WorkerFrame DEF Next, ApiNext, vars
<1>b. \A b \in Batches, r \in Rows :
        payload'[b][r] # NoBatch => payload'[b][r] \in Batches
  <2>1. StoreTypeOK'
    BY TypeCorrectStep DEF TypeOK
  <2>2. QED
    BY <2>1 DEF StoreTypeOK
<1> SUFFICES ASSUME NEW b \in Batches, NEW r \in Rows, NEW src \in Batches,
                    ~IsCreate(b), payload'[b][r] = src, Withdrawing(b)',
                    item'[b][r] \in {"NONE", "PENDING"}
             PROVE  item'[src][r] = "SUCCESS"
  BY <1>a, <1>b DEF SourceHeld, IsCreate
<1>1. ASSUME NEW x \in Batches, RequestStep(x) \/ ApiCrash(x)
      PROVE  item'[src][r] = "SUCCESS"
  <2>1. item[src][r] = "SUCCESS" => item'[src][r] = "SUCCESS"
    <3>1. InsertBatch(x) /\ req[x] = "insert" => item[x][r] = "NONE"
      BY DEF SettledInv, InsertPrecedesWork, BeforeInsert, ReqPoints, Answered
    <3>2. UNCHANGED item \/ (InsertBatch(x) /\ req[x] = "insert")
      BY <1>1, ApiSteps DEF dbVars
    <3>3. QED
      BY <3>1, <3>2, InsertElsewhere
  <2>2. CASE x # b
    <3>1. req'[b] = req[b] /\ batch'[b] = batch[b]
      BY <1>1, <2>2, ApiOnlyAddsCopies
    <3>2. payload'[b] = payload[b]
      <4>1. \/ UNCHANGED payload
            \/ \E chosen \in [Rows -> Batches \cup {NoBatch}] :
                  payload' = [payload EXCEPT ![x] = chosen]
        BY <1>1, ApiSteps DEF SourcesChosen
      <4>2. QED
        BY <2>2, <4>1 DEF TypeOK, StoreTypeOK
    <3>3. item'[b] = item[b]
      BY <1>1, <2>2, ApiFrame, InsertElsewhere
    <3>4. QED
      BY <2>1, <3>1, <3>2, <3>3 DEF SourceHeld, Withdrawing
  <2>3. CASE x = b
    <3>1. CASE SourcesChosen(b)
      <4>1. PICK chosen \in [Rows -> Batches \cup {NoBatch}] :
              /\ payload' = [payload EXCEPT ![b] = chosen]
              /\ \A q \in Rows : chosen[q] # NoBatch =>
                   chosen[q] \in ActiveItems(ask[b].user, q)
        BY <3>1 DEF SourcesChosen
      <4>2. chosen[r] = src
        BY <4>1 DEF TypeOK, StoreTypeOK
      <4>3. src \in ActiveItems(ask[b].user, r)
        BY <4>1, <4>2
      <4>4. QED
        BY <2>1, <4>3 DEF ActiveItems, Holders, Holds
    <3>2. CASE ~SourcesChosen(b)
      <4>1. /\ UNCHANGED payload
            /\ req'[b] \in {"pending", "reserve", "insert", "rollback",
                            "publish"} =>
                 req[b] \in {"pending", "reserve", "insert", "rollback",
                             "publish"}
            /\ \/ UNCHANGED dbVars
               \/ /\ InsertBatch(b)
                  /\ req[b] = "insert"
        BY <1>1, <2>3, <3>2, ApiSteps
      <4>2. Withdrawing(b)
        BY <4>1 DEF Withdrawing, dbVars
      <4>3. item[b][r] \in {"NONE", "PENDING"}
        <5>1. req[b] = "insert" => item[b][r] = "NONE"
          BY DEF SettledInv, InsertPrecedesWork, BeforeInsert, ReqPoints,
                 Answered
        <5>2. QED
          BY <4>1, <5>1 DEF dbVars
      <4>4. QED
        BY <2>1, <4>1, <4>2, <4>3 DEF SourceHeld
    <3>3. QED
      BY <3>1, <3>2
  <2>4. QED
    BY <2>2, <2>3
<1>2. CASE WorkerNext /\ UNCHANGED apiVars
  <2>1. UNCHANGED <<payload, req>>
    BY <1>2, WorkerFrame DEF apiVars
  <2>2. Withdrawing(b)
    BY <1>2, <2>1, WorkerNeverReopens DEF Withdrawing
  <2>3. SettlingWrite
    BY <1>2, WorkerSettles
  <2>4. item[b][r] \in {"NONE", "PENDING"}
    BY <2>3, WriteOutcome
  <2>5. /\ item[src][r] = "SUCCESS"
        /\ ask[src].user = ask[b].user
    BY <2>1, <2>2, <2>4 DEF SourceHeld, SourcesGranted
  <2>6. SUFFICES ASSUME item'[src][r] # "SUCCESS" PROVE FALSE
    OBVIOUS
  <2>7. PICK x \in Batches :
          /\ item[x][r] = "PENDING"
          /\ ask[src].user = ask[x].user
          /\ item'[x][r] = "SUCCESS"
    BY <2>3, <2>5, <2>6, ReleasedBy
  <2>8. x # b
    BY <2>7
  <2>9. Open(x)
    BY <2>7 DEF PendingHasBatch, Open
  <2>10. Open(b)
    BY <2>2 DEF Withdrawing, Open, Unanswered, Answered
  <2>11. QED
    BY <2>5, <2>7, <2>8, <2>9, <2>10 DEF OneOpen
<1>3. CASE UNCHANGED vars
  BY <1>3 DEF vars, dbVars, mqVars, apiVars, SourceHeld, Withdrawing
<1>4. QED
  BY <1>1, <1>2, <1>3 DEF Next, ApiNext

\* The seat a cancellation gives back is still its student's.
LEMMA SourceIsHeld ==
    ASSUME TypeOK, Orderly, PendingHasBatch,
           Clients = "polling" => SourceHeld,
           NEW b \in Batches, NEW src \in Batches, NEW r \in Rows,
           item[b][r] = "PENDING", ~IsCreate(b), payload[b][r] = src
    PROVE  item[src][r] = "SUCCESS"
<1>1. Clients = "polling"
  BY CreateOnlyType DEF Orderly
<1>2. Withdrawing(b)
  BY DEF PendingHasBatch, Withdrawing
<1>3. QED
  BY <1>1, <1>2 DEF SourceHeld

\* The holders of a row after a step that writes one item of it.
LEMMA HoldersAfter ==
    ASSUME UNCHANGED ask, NEW r \in Rows, NEW b \in Batches, IsCreate(b),
           \A c \in Batches : c # b /\ IsCreate(c) => item'[c][r] = item[c][r]
    PROVE  Holders(r)' = IF item'[b][r] = "SUCCESS" THEN Holders(r) \cup {b}
                                                    ELSE Holders(r) \ {b}
BY DEF Holders, Holds, IsCreate

\* What a step does to a row: nothing, one seat taken for one more holder, or
\* one seat given back by one of its holders.
LEMMA RowSteps ==
    ASSUME BaseInv, Calm, Orderly, PendingHasBatch,
           Clients = "polling" => SourceHeld, [Next]_vars, NEW r \in Rows
    PROVE  \/ slDk'[r] = slDk[r] /\ Holders(r)' = Holders(r)
           \/ \E b \in Batches \ Holders(r) :
                /\ slDk'[r] = slDk[r] + 1
                /\ Holders(r)' = Holders(r) \cup {b}
           \/ \E b \in Holders(r) :
                /\ slDk'[r] = IF slDk[r] > 0 THEN slDk[r] - 1 ELSE 0
                /\ Holders(r)' = Holders(r) \ {b}
<1> USE DEF BaseInv, OnceInv
<1>a. UNCHANGED ask
  BY ApiSteps, WorkerFrame DEF Next, ApiNext, vars
<1>t. TypeOK /\ slDk \in [Rows -> Nat]
        /\ item \in [Batches -> [Rows -> ItemStatus]]
  BY DEF TypeOK, StoreTypeOK
<1>s. ASSUME UNCHANGED slDk,
             \A c \in Batches : item'[c][r] # item[c][r] =>
                                  item[c][r] # "SUCCESS" /\ item'[c][r] # "SUCCESS"
      PROVE  slDk'[r] = slDk[r] /\ Holders(r)' = Holders(r)
  BY <1>a, <1>s DEF Holders, Holds
<1>1. ASSUME NEW b \in Batches, RequestStep(b) \/ ApiCrash(b)
      PROVE  slDk'[r] = slDk[r] /\ Holders(r)' = Holders(r)
  <2>1. CASE UNCHANGED dbVars
    BY <1>s, <2>1 DEF dbVars
  <2>2. CASE InsertBatch(b) /\ req[b] = "insert"
    <3>1. item[b][r] = "NONE"
      BY <2>2 DEF SettledInv, InsertPrecedesWork, BeforeInsert, ReqPoints,
                  Answered
    <3>2. item'[b][r] \in {"PENDING", "NONE"} /\ UNCHANGED slDk
      BY <1>t, <2>2 DEF InsertBatch
    <3>3. QED
      BY <1>s, <1>t, <2>2, <3>1, <3>2, InsertElsewhere
  <2>3. QED
    BY <1>1, <2>1, <2>2, ApiSteps
<1>2. ASSUME NEW b \in Batches, NEW q \in Rows, item[b][q] = "PENDING",
             IsCreate(b), AcquireSlotAndMarkSuccess(b, q)
      PROVE  \/ slDk'[r] = slDk[r] /\ Holders(r)' = Holders(r)
             \/ \E c \in Batches \ Holders(r) :
                  /\ slDk'[r] = slDk[r] + 1
                  /\ Holders(r)' = Holders(r) \cup {c}
  <2>1. /\ slDk' = [slDk EXCEPT ![q] = @ + 1]
        /\ item' = [item EXCEPT ![b][q] = "SUCCESS"]
    BY <1>2 DEF AcquireSlotAndMarkSuccess
  <2>2. CASE q = r
    <3>1. b \notin Holders(r)
      BY <1>2, <2>2 DEF Holders, Holds
    <3>2. /\ slDk'[r] = slDk[r] + 1
          /\ item'[b][r] = "SUCCESS"
          /\ \A c \in Batches : c # b => item'[c] = item[c]
      BY <1>t, <2>1, <2>2
    <3>3. Holders(r)' = Holders(r) \cup {b}
      BY <1>2, <1>a, <3>2, HoldersAfter
    <3>4. QED
      BY <3>1, <3>2, <3>3
  <2>3. CASE q # r
    <3>1. slDk'[r] = slDk[r] /\ \A c \in Batches : item'[c][r] = item[c][r]
      BY <1>t, <2>1, <2>3
    <3>2. QED
      BY <1>a, <3>1 DEF Holders, Holds
  <2>4. QED
    BY <2>2, <2>3
<1>3. ASSUME NEW b \in Batches, NEW src \in Batches, NEW q \in Rows,
             item[b][q] = "PENDING", ~IsCreate(b), payload[b][q] = src,
             IsCreate(src), ReleaseSlotAndMarkItems(b, q, src)
      PROVE  \/ slDk'[r] = slDk[r] /\ Holders(r)' = Holders(r)
             \/ \E c \in Holders(r) :
                  /\ slDk'[r] = IF slDk[r] > 0 THEN slDk[r] - 1 ELSE 0
                  /\ Holders(r)' = Holders(r) \ {c}
  <2>1. /\ slDk' = [slDk EXCEPT ![q] = IF @ > 0 THEN @ - 1 ELSE 0]
        /\ item' = [item EXCEPT ![src][q] = "CANCELLED", ![b][q] = "SUCCESS"]
        /\ src # b
    BY <1>3 DEF ReleaseSlotAndMarkItems
  <2>2. CASE q = r
    <3>1. src \in Holders(r)
      BY <1>t, <1>3, <2>2, SourceIsHeld DEF Holders, Holds, IsCreate
    <3>2. /\ slDk'[r] = IF slDk[r] > 0 THEN slDk[r] - 1 ELSE 0
          /\ item'[src][r] = "CANCELLED"
          /\ \A c \in Batches : c # b /\ c # src => item'[c] = item[c]
      BY <1>t, <2>1, <2>2
    <3>3. Holders(r)' = Holders(r) \ {src}
      BY <1>3, <1>a, <3>2, HoldersAfter
    <3>4. QED
      BY <3>1, <3>2, <3>3
  <2>3. CASE q # r
    <3>1. slDk'[r] = slDk[r] /\ \A c \in Batches : item'[c][r] = item[c][r]
      BY <1>t, <2>1, <2>3
    <3>2. QED
      BY <1>a, <3>1 DEF Holders, Holds
  <2>4. QED
    BY <2>2, <2>3
<1>4. ASSUME \/ UNCHANGED dbVars
             \/ \E b \in Batches, q \in Rows :
                  item[b][q] = "PENDING" /\ MarkItemFailed(b, q)
             \/ \E b \in Batches : MarkBatchCompleted(b)
             \/ \E b \in Batches : MarkBatchFailed(b)
      PROVE  slDk'[r] = slDk[r] /\ Holders(r)' = Holders(r)
  <2>1. UNCHANGED slDk
    BY <1>4 DEF dbVars, MarkItemFailed, MarkBatchCompleted, MarkBatchFailed
  <2>2. ASSUME NEW c \in Batches, item'[c][r] # item[c][r]
        PROVE  item[c][r] # "SUCCESS" /\ item'[c][r] # "SUCCESS"
    <3>1. ASSUME NEW b \in Batches, NEW q \in Rows,
                 item[b][q] = "PENDING", MarkItemFailed(b, q)
          PROVE  item[c][r] # "SUCCESS" /\ item'[c][r] # "SUCCESS"
      BY <1>t, <2>2, <3>1 DEF MarkItemFailed
    <3>2. ASSUME NEW b \in Batches, MarkBatchFailed(b)
          PROVE  item[c][r] # "SUCCESS" /\ item'[c][r] # "SUCCESS"
      <4>1. item' = [item EXCEPT ![b] =
                       [q \in Rows |-> IF item[b][q] = "PENDING" THEN "FAILED"
                                                                 ELSE item[b][q]]]
        BY <3>2 DEF MarkBatchFailed
      <4>2. c = b
        BY <1>t, <2>2, <4>1
      <4>3. item'[c] = [q \in Rows |-> IF item[c][q] = "PENDING" THEN "FAILED"
                                                                ELSE item[c][q]]
        BY <1>t, <4>1, <4>2
      <4>4. QED
        BY <2>2, <4>3
    <3>3. QED
      BY <1>4, <2>2, <3>1, <3>2 DEF dbVars, MarkBatchCompleted
  <2>3. QED
    BY <1>s, <2>1, <2>2
<1>5. CASE WorkerNext
  <2>1. SettlingWrite
    BY <1>5, WorkerSettles
  <2>2. QED
    BY <2>1, <1>2, <1>3, <1>4 DEF SettlingWrite
<1>6. CASE UNCHANGED vars
  BY <1>4, <1>6 DEF vars
<1>7. QED
  BY <1>1, <1>5, <1>6 DEF Next, ApiNext

LEMMA SeatsStayCounted ==
    ASSUME BaseInv, Calm, Orderly, PendingHasBatch,
           Clients = "polling" => SourceHeld, SeatsCounted, [Next]_vars
    PROVE  SeatsCounted'
<1> SUFFICES ASSUME NEW r \in Rows
             PROVE  /\ IsFiniteSet(Holders(r)')
                    /\ slDk'[r] = Cardinality(Holders(r)')
  BY DEF SeatsCounted
<1> DEFINE H == Holders(r)
<1>1. IsFiniteSet(H) /\ slDk[r] = Cardinality(H) /\ Cardinality(H) \in Nat
  BY FS_CardinalityType DEF SeatsCounted
<1> HIDE DEF H
<1>2. CASE slDk'[r] = slDk[r] /\ Holders(r)' = H
  BY <1>1, <1>2
<1>3. ASSUME NEW b \in Batches \ H, slDk'[r] = slDk[r] + 1,
             Holders(r)' = H \cup {b}
      PROVE  IsFiniteSet(Holders(r)') /\ slDk'[r] = Cardinality(Holders(r)')
  BY <1>1, <1>3, FS_AddElement
<1>4. ASSUME NEW b \in H, Holders(r)' = H \ {b},
             slDk'[r] = IF slDk[r] > 0 THEN slDk[r] - 1 ELSE 0
      PROVE  IsFiniteSet(Holders(r)') /\ slDk'[r] = Cardinality(Holders(r)')
  <2>1. IsFiniteSet(H \ {b}) /\ Cardinality(H \ {b}) = Cardinality(H) - 1
    BY <1>1, FS_RemoveElement
  <2>2. Cardinality(H \ {b}) \in Nat
    BY <2>1, FS_CardinalityType
  <2>3. QED
    BY <1>1, <1>4, <2>1, <2>2
<1>5. QED
  BY <1>2, <1>3, <1>4, RowSteps DEF H

\* Without cancellations, a message worked on twice can only take a seat too
\* many for its item: every holder still has one.
LEMMA HoldersStayCounted ==
    ASSUME TypeOK, SettledInv, CreateOnly, HoldersCounted, [Next]_vars
    PROVE  HoldersCounted'
<1>a. UNCHANGED ask
  BY ApiSteps, WorkerFrame DEF Next, ApiNext, vars
<1>t. /\ slDk \in [Rows -> Nat]
      /\ item \in [Batches -> [Rows -> ItemStatus]]
  BY DEF TypeOK, StoreTypeOK
<1>h. \A r \in Rows : /\ IsFiniteSet(Holders(r))
                      /\ Cardinality(Holders(r)) \in Nat
                      /\ Cardinality(Holders(r)) <= slDk[r]
  BY FS_CardinalityType DEF HoldersCounted
<1>s. ASSUME UNCHANGED slDk,
             \A r \in Rows : Holders(r)' \subseteq Holders(r)
      PROVE  HoldersCounted'
  <2> SUFFICES ASSUME NEW r \in Rows
               PROVE  /\ IsFiniteSet(Holders(r)')
                      /\ Cardinality(Holders(r)') <= slDk'[r]
    BY DEF HoldersCounted
  <2>1. PICK H : H = Holders(r)'
    OBVIOUS
  <2>2. H \subseteq Holders(r)
    BY <1>s, <2>1
  <2>3. IsFiniteSet(H) /\ Cardinality(H) <= Cardinality(Holders(r))
    BY <1>h, <2>2, FS_Subset
  <2>4. Cardinality(H) \in Nat
    BY <2>3, FS_CardinalityType
  <2>5. QED
    BY <1>h, <1>s, <1>t, <2>1, <2>3, <2>4
<1>1. ASSUME NEW b \in Batches, RequestStep(b) \/ ApiCrash(b)
      PROVE  HoldersCounted'
  <2>1. CASE UNCHANGED dbVars
    BY <1>a, <1>s, <2>1 DEF dbVars, Holders, Holds
  <2>2. CASE InsertBatch(b)
    <3>1. /\ \A r \in Rows : item'[b][r] \in {"PENDING", "NONE"}
          /\ \A c \in Batches : c # b => item'[c] = item[c]
          /\ UNCHANGED slDk
      BY <1>t, <2>2 DEF InsertBatch
    <3>2. QED
      BY <1>a, <1>s, <3>1 DEF Holders, Holds
  <2>3. QED
    BY <1>1, <2>1, <2>2, ApiSteps
<1>2. ASSUME NEW b \in Batches, NEW q \in Rows, SlotStatement(b, q)
      PROVE  HoldersCounted'
  <2>1. IsCreate(b) /\ AcquireSlotAndMarkSuccess(b, q)
    BY <1>2, CreateOnlyType DEF SlotStatement, IsCreate
  <2>2. /\ slDk' = [slDk EXCEPT ![q] = @ + 1]
        /\ item' = [item EXCEPT ![b][q] = "SUCCESS"]
    BY <2>1 DEF AcquireSlotAndMarkSuccess
  <2> SUFFICES ASSUME NEW r \in Rows
               PROVE  /\ IsFiniteSet(Holders(r)')
                      /\ Cardinality(Holders(r)') <= slDk'[r]
    BY DEF HoldersCounted
  <2>3. CASE r = q
    <3>1. /\ item'[b][r] = "SUCCESS"
          /\ \A c \in Batches : c # b => item'[c] = item[c]
          /\ slDk'[r] = slDk[r] + 1
      BY <1>t, <2>2, <2>3
    <3>2. Holders(r)' = Holders(r) \cup {b}
      BY <1>a, <2>1, <3>1, HoldersAfter
    <3>3. /\ IsFiniteSet(Holders(r) \cup {b})
          /\ Cardinality(Holders(r) \cup {b}) <= Cardinality(Holders(r)) + 1
      <4>1. PICK H : H = Holders(r)
        OBVIOUS
      <4>2. IsFiniteSet(H) /\ Cardinality(H) \in Nat
        BY <1>h, <4>1
      <4>3. /\ IsFiniteSet(H \cup {b})
            /\ \/ Cardinality(H \cup {b}) = Cardinality(H)
               \/ Cardinality(H \cup {b}) = Cardinality(H) + 1
        BY <4>2, FS_AddElement
      <4>4. QED
        BY <4>1, <4>2, <4>3
    <3>4. Cardinality(Holders(r) \cup {b}) \in Nat
      BY <3>3, FS_CardinalityType
    <3>5. QED
      BY <1>h, <1>t, <3>1, <3>2, <3>3, <3>4
  <2>4. CASE r # q
    <3>1. slDk'[r] = slDk[r] /\ \A c \in Batches : item'[c][r] = item[c][r]
      BY <1>t, <2>2, <2>4
    <3>2. Holders(r)' = Holders(r)
      BY <1>a, <3>1 DEF Holders, Holds
    <3>3. QED
      BY <1>h, <3>1, <3>2
  <2>5. QED
    BY <2>3, <2>4
<1>3. ASSUME \/ UNCHANGED dbVars
             \/ \E b, q : MarkItemFailed(b, q)
             \/ \E b : MarkBatchCompleted(b)
             \/ \E b : MarkBatchFailed(b)
      PROVE  HoldersCounted'
  <2>1. UNCHANGED slDk
    BY <1>3 DEF dbVars, MarkItemFailed, MarkBatchCompleted, MarkBatchFailed
  <2>2. ASSUME NEW c \in Batches, NEW r \in Rows, item'[c][r] = "SUCCESS"
        PROVE  item[c][r] = "SUCCESS"
    <3>1. ASSUME NEW b, NEW q, MarkItemFailed(b, q)
          PROVE  item[c][r] = "SUCCESS"
      BY <1>t, <2>2, <3>1 DEF MarkItemFailed
    <3>2. ASSUME NEW b, MarkBatchFailed(b)
          PROVE  item[c][r] = "SUCCESS"
      BY <1>t, <2>2, <3>2 DEF MarkBatchFailed
    <3>3. QED
      BY <1>3, <2>2, <3>1, <3>2 DEF dbVars, MarkBatchCompleted
  <2>3. QED
    BY <1>a, <1>s, <2>1, <2>2 DEF Holders, Holds
<1>4. CASE WorkerNext
  <2>1. ASSUME NEW d \in Deliveries, NEW q \in Rows, ProcessItem(d, q),
               SlotStatement(delivery[d].batch, q)
        PROVE  HoldersCounted'
    <3>1. delivery[d].batch \in Batches
      BY <2>1 DEF ProcessItem, At, TypeOK, WorkerTypeOK
    <3>2. QED
      BY <1>2, <2>1, <3>1
  <2>2. QED
    BY <1>3, <1>4, <2>1, WorkerWrites
<1>5. CASE UNCHANGED vars
  BY <1>3, <1>5 DEF vars
<1>6. QED
  BY <1>1, <1>4, <1>5 DEF Next, ApiNext

----------------------------------------------------------------------------
(* All of it, as one inductive invariant of the pipeline.                  *)

SeatInv ==
    /\ BaseInv
    /\ WaitInv
    /\ PendingHasBatch
    /\ Calm /\ Clients # "free" => OneClaim
    /\ Calm /\ Clients = "polling" => SourceHeld
    /\ Calm /\ Orderly => SeatsCounted
    /\ CreateOnly => HoldersCounted

LEMMA SeatInit == Init => SeatInv
<1> SUFFICES ASSUME Init PROVE SeatInv
  OBVIOUS
<1>1. BaseInv /\ WaitInv
  BY BaseInit, WaitInit
<1>2. /\ \A b \in Batches, r \in Rows : item[b][r] = "NONE"
      /\ \A b \in Batches : req[b] = "idle" /\ batch[b] = "NONE"
      /\ \A b \in Batches, r \in Rows : payload[b][r] = NoBatch
      /\ \A r \in Rows : slDk[r] = 0
  BY DEF Init, StoreInit, ApiInit
<1>3. PendingHasBatch /\ SourceHeld
  BY <1>2 DEF PendingHasBatch, SourceHeld
<1>4. OneClaim
  <2>1. \A b \in Batches, r \in Rows : ~Claims(b, r)
    BY <1>2 DEF Claims
  <2>2. QED
    BY <2>1 DEF OneClaim
<1>5. \A r \in Rows : /\ IsFiniteSet(Holders(r))
                      /\ Cardinality(Holders(r)) = 0
  <2>1. \A r \in Rows : Holders(r) = {}
    BY <1>2 DEF Holders, Holds
  <2>2. QED
    BY <2>1, FS_EmptySet
<1>6. SeatsCounted /\ HoldersCounted
  BY <1>2, <1>5 DEF SeatsCounted, HoldersCounted
<1>7. QED
  BY <1>1, <1>3, <1>4, <1>6 DEF SeatInv

LEMMA SeatStep ==
    ASSUME SeatInv, [Next]_vars
    PROVE  SeatInv'
<1>1. BaseInv' /\ (Calm' => Calm)
  BY BaseStep DEF SeatInv
<1>2. TypeOK /\ SettledInv
  BY DEF SeatInv, BaseInv
<1>3. WaitInv' /\ PendingHasBatch'
  BY <1>2, WaitStep, PendingHasBatchStays DEF SeatInv
<1>4. Calm' => TodoIsPending /\ SourcesGranted
  BY <1>1 DEF SeatInv, BaseInv, OnceInv
<1>5. Calm' /\ Clients # "free" => OneClaim'
  BY <1>1, <1>2, <1>4, OneClaimStays DEF SeatInv, WaitInv
<1>6. Calm' /\ Clients = "polling" => SourceHeld'
  BY <1>1, SourceStaysHeld DEF SeatInv, WaitInv
<1>7. Calm' /\ Orderly => SeatsCounted'
  BY <1>1, SeatsStayCounted DEF SeatInv
<1>8. CreateOnly => HoldersCounted'
  BY <1>2, HoldersStayCounted DEF SeatInv
<1>9. QED
  BY <1>1, <1>3, <1>5, <1>6, <1>7, <1>8 DEF SeatInv

LEMMA SeatAlways == Spec => []SeatInv
<1>1. SeatInv /\ [Next]_vars => SeatInv'
  BY SeatStep
<1>2. QED
  BY <1>1, SeatInit, PTL DEF Spec

\* The counter is exact: while no fault has doubled a message or hidden a
\* commit, and students cancel what they polled to the end or nothing at all,
\* the seats taken on a row are the students registered on it, in every state
\* between the statements of any number of handlers.
THEOREM CounterIsExact ==
    ASSUME Orderly
    PROVE  Spec => [](Calm => SeatsMatchHolders)
<1>1. SeatInv => (Calm => SeatsMatchHolders)
  BY DEF SeatInv, SeatsCounted, SeatsMatchHolders
<1>2. QED
  BY <1>1, SeatAlways, PTL

\* A row never has more students than seats ...
LEMMA HoldersBounded ==
    ASSUME TypeOK, CapacityRespected, SeatsCounted \/ HoldersCounted
    PROVE  HoldersWithinCapacity
<1> SUFFICES ASSUME NEW r \in Rows
             PROVE  Cardinality(Holders(r)) <= SlMax[r]
  BY DEF HoldersWithinCapacity
<1>1. slDk[r] \in Nat /\ SlMax[r] \in Nat /\ slDk[r] <= SlMax[r]
  BY DEF CapacityRespected, TypeOK, StoreTypeOK
<1>2. IsFiniteSet(Holders(r)) /\ Cardinality(Holders(r)) <= slDk[r]
  BY <1>1 DEF SeatsCounted, HoldersCounted
<1>3. Cardinality(Holders(r)) \in Nat
  BY <1>2, FS_CardinalityType
<1>4. QED
  BY <1>1, <1>2, <1>3

\* ... where seats are only asked for, whatever the faults: a message worked
\* on twice, a hidden commit or a crash may lose seats, never oversell them.
THEOREM NeverOversold ==
    ASSUME CreateOnly
    PROVE  Spec => []HoldersWithinCapacity
<1>1. TypeOK /\ CapacityRespected /\ SeatInv => HoldersWithinCapacity
  BY HoldersBounded DEF SeatInv
<1>2. QED
  BY <1>1, SeatAlways, TypeCorrect, Capacity, PTL

\* ... and where polling students cancel as well, until the first fault that
\* doubles a message or hides a commit.
THEOREM NotOversoldWhenPolling ==
    ASSUME Orderly
    PROVE  Spec => [](Calm => HoldersWithinCapacity)
<1>1. TypeOK /\ CapacityRespected /\ SeatInv => (Calm => HoldersWithinCapacity)
  BY HoldersBounded DEF SeatInv
<1>2. QED
  BY <1>1, SeatAlways, TypeCorrect, Capacity, PTL

\* Two CREATE batches never both win a seat in one course for one student who
\* waits for the answer of one request before the next: the check of step 9
\* is still so when the worker, minutes later, takes the seat.
THEOREM OneSeatPerCourse ==
    ASSUME Clients # "free"
    PROVE  Spec => [](Calm => OneCoursePerStudent)
<1>1. SeatInv => (Calm => OneCoursePerStudent)
  <2> SUFFICES ASSUME OneClaim PROVE OneCoursePerStudent
    BY DEF SeatInv
  <2>1. \A b \in Batches, r \in Rows : Holds(b, r) => Claims(b, r)
    BY DEF Holds, Claims, IsCreate
  <2>2. \A c \in Codes : RowsOf[c] \subseteq Rows
    OBVIOUS
  <2>3. QED
    BY <2>1, <2>2 DEF OneClaim, OneCoursePerStudent
<1>2. QED
  BY <1>1, SeatAlways, PTL

----------------------------------------------------------------------------
(* The pipeline implements the ledger of SeatLedger.                       *)

Seats == [b \in Batches |-> [r \in Rows |-> SeatOf(b, r)]]

\* The ledger's word for an item of a batch of type t with status s.
SeatFor(t, s) ==
    IF ~(t = "CREATE") THEN "none"
    ELSE CASE s = "NONE"      -> "none"
           [] s = "PENDING"   -> "asked"
           [] s = "SUCCESS"   -> "granted"
           [] s = "FAILED"    -> "refused"
           [] s = "CANCELLED" -> "returned"

LEMMA SeatForValues ==
    /\ \A t, s : t # "CREATE" => SeatFor(t, s) = "none"
    /\ SeatFor("CREATE", "NONE") = "none"
    /\ SeatFor("CREATE", "PENDING") = "asked"
    /\ SeatFor("CREATE", "SUCCESS") = "granted"
    /\ SeatFor("CREATE", "FAILED") = "refused"
    /\ SeatFor("CREATE", "CANCELLED") = "returned"
BY DEF SeatFor

LEMMA SeatOfItem ==
    ASSUME NEW c \in Batches, NEW r \in Rows
    PROVE  /\ Seats[c][r] = SeatFor(ask[c].type, item[c][r])
           /\ Seats'[c][r] = SeatFor(ask'[c].type, item'[c][r])
<1>1. /\ SeatOf(c, r) = SeatFor(ask[c].type, item[c][r])
      /\ SeatOf(c, r)' = SeatFor(ask'[c].type, item'[c][r])
  BY DEF SeatOf, SeatFor, IsCreate
<1>2. Seats[c][r] = SeatOf(c, r) /\ Seats'[c][r] = SeatOf(c, r)'
  BY DEF Seats
<1>3. QED
  BY <1>1, <1>2

\* The ledger counts as this module does.
LEMMA LedgerCounts == \A S : Ledger!Cardinality(S) = Cardinality(S)
BY DEF Ledger!Cardinality, Cardinality

LEMMA RowOfSeats ==
    ASSUME NEW c \in Batches
    PROVE  /\ Seats[c] = [r \in Rows |-> Seats[c][r]]
           /\ Seats'[c] = [r \in Rows |-> Seats'[c][r]]
BY DEF Seats

\* A write to the items of one batch changes its row of the ledger.
LEMMA SeatsAfter ==
    ASSUME NEW b \in Batches, NEW f, Seats'[b] = f,
           \A c \in Batches, r \in Rows : c # b => Seats'[c][r] = Seats[c][r]
    PROVE  Seats' = [Seats EXCEPT ![b] = f]
<1>1. PICK S : S = Seats
  OBVIOUS
<1>2. PICK T : T = Seats'
  OBVIOUS
<1>3. S = [c \in Batches |-> S[c]] /\ T = [c \in Batches |-> T[c]]
  BY <1>1, <1>2 DEF Seats
<1>4. T[b] = f
  BY <1>2
<1>5. ASSUME NEW c \in Batches, c # b
      PROVE  T[c] = S[c]
  <2>1. \A r \in Rows : T[c][r] = S[c][r]
    BY <1>1, <1>2, <1>5
  <2>2. /\ S[c] = [r \in Rows |-> S[c][r]]
        /\ T[c] = [r \in Rows |-> T[c][r]]
    BY <1>1, <1>2, RowOfSeats
  <2>3. QED
    BY <2>1, <2>2
<1>6. T = [S EXCEPT ![b] = f]
  BY <1>3, <1>4, <1>5
<1>7. QED
  BY <1>1, <1>2, <1>6

\* ... and when every seat is left as it was.
LEMMA SeatsKept ==
    ASSUME \A c \in Batches, r \in Rows : Seats'[c][r] = Seats[c][r]
    PROVE  UNCHANGED Seats
<1>1. PICK S : S = Seats
  OBVIOUS
<1>2. PICK T : T = Seats'
  OBVIOUS
<1>3. /\ S = [c \in Batches |-> [r \in Rows |-> S[c][r]]]
      /\ T = [c \in Batches |-> [r \in Rows |-> T[c][r]]]
  BY <1>1, <1>2 DEF Seats
<1>4. \A c \in Batches, r \in Rows : T[c][r] = S[c][r]
  BY <1>1, <1>2
<1>5. S = T
  BY <1>3, <1>4
<1>6. QED
  BY <1>1, <1>2, <1>5

\* A batch that is inserted asks for its rows.
LEMMA InsertAsks ==
    ASSUME TypeOK, SettledInv, UNCHANGED ask,
           NEW b \in Batches, InsertBatch(b), req[b] = "insert"
    PROVE  Ledger!Next \/ UNCHANGED Seats
<1>1. /\ \A r \in Rows : item[b][r] = "NONE"
      /\ \A r \in Rows : item'[b][r] = IF r \in Asked(b) THEN "PENDING"
                                                         ELSE "NONE"
      /\ \A c \in Batches : c # b => item'[c] = item[c]
  <2>1. \A r \in Rows : item[b][r] = "NONE"
    BY DEF SettledInv, InsertPrecedesWork, BeforeInsert, ReqPoints, Answered
  <2>2. QED
    BY <2>1, InsertElsewhere DEF InsertBatch, TypeOK, StoreTypeOK
<1>2. CASE ~IsCreate(b)
  <2>1. \A c \in Batches, r \in Rows : Seats'[c][r] = Seats[c][r]
    BY <1>1, <1>2, SeatOfItem, SeatForValues DEF IsCreate
  <2>2. QED
    BY <2>1, SeatsKept
<1>3. CASE IsCreate(b)
  <2>1. PICK R \in SUBSET Rows : R = Asked(b)
    <3>1. Asked(b) \subseteq Rows
      BY DEF Asked, TypeOK, StoreTypeOK
    <3>2. QED
      BY <3>1
  <2>3. /\ \A c \in Batches, r \in Rows : c # b => Seats'[c][r] = Seats[c][r]
        /\ \A r \in Rows : Seats'[b][r] = IF r \in R THEN "asked" ELSE "none"
    BY <1>1, <1>3, <2>1, SeatOfItem, SeatForValues DEF IsCreate
  <2>4. Seats'[b] = [r \in Rows |-> IF r \in R THEN "asked" ELSE "none"]
    <3>1. PICK g : g = Seats'[b]
      OBVIOUS
    <3>2. g = [r \in Rows |-> g[r]]
      BY <3>1, RowOfSeats
    <3>3. \A r \in Rows : g[r] = IF r \in R THEN "asked" ELSE "none"
      BY <2>3, <3>1
    <3>4. g = [r \in Rows |-> IF r \in R THEN "asked" ELSE "none"]
      BY <3>2, <3>3
    <3>5. QED
      BY <3>1, <3>4
  <2>5. \A r \in Rows : Seats[b][r] = "none"
    BY <1>1, <1>3, SeatOfItem, SeatForValues DEF IsCreate
  <2>6. Seats' = [Seats EXCEPT ![b] = [r \in Rows |->
                     IF r \in R THEN "asked" ELSE "none"]]
    BY <2>3, <2>4, SeatsAfter
  <2>7. Ledger!Ask(b, R)
    BY <2>5, <2>6 DEF Ledger!Ask, Seats
  <2>8. QED
    BY <2>7 DEF Ledger!Next
<1>4. QED
  BY <1>2, <1>3

\* The guarded UPDATE of a CREATE item grants a seat that is free.
LEMMA AcquireGrants ==
    ASSUME TypeOK, SeatsCounted, UNCHANGED ask,
           NEW b \in Batches, NEW r \in Rows, item[b][r] = "PENDING",
           IsCreate(b), AcquireSlotAndMarkSuccess(b, r)
    PROVE  Ledger!Next
<1>1. /\ item' = [item EXCEPT ![b][r] = "SUCCESS"]
      /\ slDk[r] < SlMax[r]
  BY DEF AcquireSlotAndMarkSuccess
<1>2. Seats[b][r] = "asked"
  BY SeatOfItem, SeatForValues DEF IsCreate
<1>3. \A c \in Batches, q \in Rows :
        Seats'[c][q] = IF c = b /\ q \in {r} THEN "granted" ELSE Seats[c][q]
  <2>1. \A c \in Batches, q \in Rows :
          item'[c][q] = IF c = b /\ q = r THEN "SUCCESS" ELSE item[c][q]
    BY <1>1 DEF TypeOK, StoreTypeOK
  <2>2. QED
    BY <2>1, SeatOfItem, SeatForValues DEF IsCreate
<1>4. Seats'[b] = [Seats[b] EXCEPT ![r] = "granted"]
  <2>1. PICK g, h : g = Seats'[b] /\ h = Seats[b]
    OBVIOUS
  <2>2. g = [q \in Rows |-> g[q]] /\ h = [q \in Rows |-> h[q]]
    BY <2>1, RowOfSeats
  <2>3. \A q \in Rows : g[q] = IF q = r THEN "granted" ELSE h[q]
    BY <1>3, <2>1
  <2>4. g = [h EXCEPT ![r] = "granted"]
    BY <2>2, <2>3
  <2>5. QED
    BY <2>1, <2>4
<1>5. Seats' = [Seats EXCEPT ![b][r] = "granted"]
  BY <1>3, <1>4, SeatsAfter
<1>6. Seats[b][r] = "asked"
  BY <1>2 DEF Seats
<1>7. {c \in Batches : Seats[c][r] = "granted"} = Holders(r)
  <2>1. \A c \in Batches : Seats[c][r] = "granted" <=> Holds(c, r)
    <3>1. ASSUME NEW c \in Batches
          PROVE  item[c][r] \in {"NONE", "PENDING", "SUCCESS", "FAILED",
                                 "CANCELLED"}
      BY DEF TypeOK, StoreTypeOK, ItemStatus
    <3>2. ASSUME NEW c \in Batches
          PROVE  Seats[c][r] = "granted" <=> Holds(c, r)
      <4>1. CASE ask[c].type = "CREATE"
        BY <3>1, <4>1, SeatOfItem, SeatForValues DEF Holds
      <4>2. CASE ask[c].type # "CREATE"
        BY <4>2, SeatOfItem, SeatForValues DEF Holds
      <4>3. QED
        BY <4>1, <4>2
    <3>3. QED
      BY <3>2
  <2>2. QED
    BY <2>1 DEF Holders
<1>8. Cardinality({c \in Batches : Seats[c][r] = "granted"}) < SlMax[r]
  BY <1>1, <1>7 DEF SeatsCounted
<1>9. Ledger!Grant(b, r)
  <2>1. Ledger!Granted(r) = {c \in Batches : Seats[c][r] = "granted"}
    BY DEF Ledger!Granted, Seats
  <2>2. Ledger!Cardinality(Ledger!Granted(r)) < SlMax[r]
    BY <1>8, <2>1, LedgerCounts
  <2>3. QED
    BY <1>5, <1>6, <2>2 DEF Ledger!Grant, Seats
<1>10. QED
  BY <1>9 DEF Ledger!Next

\* A CANCEL item returns the seat of the registration it cancels.
LEMMA ReleaseReturns ==
    ASSUME TypeOK, UNCHANGED ask,
           NEW b \in Batches, NEW src \in Batches, NEW r \in Rows,
           ~IsCreate(b), IsCreate(src), item[src][r] = "SUCCESS",
           ReleaseSlotAndMarkItems(b, r, src)
    PROVE  Ledger!Next
<1>1. /\ item' = [item EXCEPT ![src][r] = "CANCELLED", ![b][r] = "SUCCESS"]
      /\ src # b
  BY DEF ReleaseSlotAndMarkItems
<1>2. \A c \in Batches, q \in Rows :
        c # b => item'[c][q] = IF c = src /\ q = r THEN "CANCELLED"
                                                   ELSE item[c][q]
  BY <1>1 DEF TypeOK, StoreTypeOK
<1>3. \A c \in Batches, q \in Rows :
        Seats'[c][q] = IF c = src /\ q \in {r} THEN "returned" ELSE Seats[c][q]
  BY <1>2, SeatOfItem, SeatForValues DEF IsCreate
<1>4. Seats'[src] = [Seats[src] EXCEPT ![r] = "returned"]
  <2>1. PICK g, h : g = Seats'[src] /\ h = Seats[src]
    OBVIOUS
  <2>2. g = [q \in Rows |-> g[q]] /\ h = [q \in Rows |-> h[q]]
    BY <2>1, RowOfSeats
  <2>3. \A q \in Rows : g[q] = IF q = r THEN "returned" ELSE h[q]
    BY <1>3, <2>1
  <2>4. g = [h EXCEPT ![r] = "returned"]
    BY <2>2, <2>3
  <2>5. QED
    BY <2>1, <2>4
<1>5. Seats' = [Seats EXCEPT ![src][r] = "returned"]
  BY <1>3, <1>4, SeatsAfter
<1>6. Seats[src][r] = "granted"
  BY SeatOfItem, SeatForValues DEF Seats, IsCreate
<1>7. Ledger!Return(src, r)
  BY <1>5, <1>6 DEF Ledger!Return, Seats
<1>8. QED
  BY <1>7 DEF Ledger!Next

\* Marking items FAILED refuses what they asked for.
LEMMA FailureRefuses ==
    ASSUME UNCHANGED ask, NEW b \in Batches, NEW R \in SUBSET Rows,
           \A r \in R : item[b][r] = "PENDING",
           \A r \in R : item'[b][r] = "FAILED",
           \A c \in Batches, r \in Rows :
             c # b \/ r \notin R => item'[c][r] = item[c][r]
    PROVE  Ledger!Next \/ UNCHANGED Seats
<1>1. CASE ~IsCreate(b)
  <2>1. \A c \in Batches, r \in Rows : Seats'[c][r] = Seats[c][r]
    BY <1>1, SeatOfItem, SeatForValues DEF IsCreate
  <2>2. QED
    BY <2>1, SeatsKept
<1>2. CASE IsCreate(b)
  <2>1. \A c \in Batches, r \in Rows :
          Seats'[c][r] = IF c = b /\ r \in R THEN "refused" ELSE Seats[c][r]
    BY <1>2, SeatOfItem, SeatForValues DEF IsCreate
  <2>2. Seats'[b] = [r \in Rows |-> IF r \in R THEN "refused" ELSE Seats[b][r]]
    <3>1. PICK g, h : g = Seats'[b] /\ h = Seats[b]
      OBVIOUS
    <3>2. Seats'[b] = [r \in Rows |-> Seats'[b][r]]
      BY RowOfSeats
    <3>3. g = [r \in Rows |-> g[r]]
      BY <3>1, <3>2
    <3>4. \A r \in Rows : g[r] = IF r \in R THEN "refused" ELSE h[r]
      BY <2>1, <3>1
    <3>5. g = [r \in Rows |-> IF r \in R THEN "refused" ELSE h[r]]
      BY <3>3, <3>4
    <3>6. QED
      BY <3>1, <3>5
  <2>3. Seats' = [Seats EXCEPT ![b] = [r \in Rows |->
                     IF r \in R THEN "refused" ELSE Seats[b][r]]]
    BY <2>1, <2>2, SeatsAfter
  <2>4. \A r \in R : Seats[b][r] = "asked"
    BY <1>2, SeatOfItem, SeatForValues DEF Seats, IsCreate
  <2>5. Ledger!Refuse(b, R)
    BY <2>3, <2>4 DEF Ledger!Refuse, Seats
  <2>6. QED
    BY <2>5 DEF Ledger!Next
<1>3. QED
  BY <1>1, <1>2

\* Every statement of a handler is a step of the ledger, or none.
LEMMA LedgerStep ==
    ASSUME SeatInv, Calm, Orderly, [Next]_vars
    PROVE  Ledger!Next \/ UNCHANGED Seats
<1>a. UNCHANGED ask
  BY ApiSteps, WorkerFrame DEF SeatInv, BaseInv, Next, ApiNext, vars
<1>b. TypeOK /\ SettledInv /\ TodoIsPending /\ SourcesGranted
  BY DEF SeatInv, BaseInv, OnceInv
<1>i. item \in [Batches -> [Rows -> ItemStatus]]
  BY <1>b DEF TypeOK, StoreTypeOK
<1>s. ASSUME UNCHANGED item
      PROVE  UNCHANGED Seats
  <2>1. \A c \in Batches, r \in Rows : Seats'[c][r] = Seats[c][r]
    BY <1>a, <1>s, SeatOfItem
  <2>2. QED
    BY <2>1, SeatsKept
<1>1. ASSUME NEW b \in Batches, RequestStep(b) \/ ApiCrash(b)
      PROVE  Ledger!Next \/ UNCHANGED Seats
  <2>1. CASE UNCHANGED dbVars
    BY <1>s, <2>1 DEF dbVars
  <2>2. CASE InsertBatch(b) /\ req[b] = "insert"
    BY <1>a, <1>b, <2>2, InsertAsks
  <2>3. QED
    BY <1>1, <1>b, <2>1, <2>2, ApiSteps
<1>2. ASSUME NEW b \in Batches, NEW r \in Rows, item[b][r] = "PENDING",
             IsCreate(b), AcquireSlotAndMarkSuccess(b, r)
      PROVE  Ledger!Next
  <2>1. SeatsCounted
    BY DEF SeatInv
  <2>2. QED
    BY <1>a, <1>b, <1>2, <2>1, AcquireGrants
<1>3. ASSUME NEW b \in Batches, NEW src \in Batches, NEW r \in Rows,
             item[b][r] = "PENDING", ~IsCreate(b), payload[b][r] = src,
             IsCreate(src), ReleaseSlotAndMarkItems(b, r, src)
      PROVE  Ledger!Next
  <2>1. item[src][r] = "SUCCESS"
    BY <1>b, <1>3, SourceIsHeld DEF SeatInv
  <2>2. QED
    BY <1>a, <1>b, <1>3, <2>1, ReleaseReturns
<1>4. ASSUME NEW b \in Batches, NEW r \in Rows, item[b][r] = "PENDING",
             MarkItemFailed(b, r)
      PROVE  Ledger!Next \/ UNCHANGED Seats
  <2>1. PICK R \in SUBSET Rows : R = {r}
    OBVIOUS
  <2>2. /\ \A q \in R : item'[b][q] = "FAILED"
        /\ \A c \in Batches, q \in Rows :
             c # b \/ q \notin R => item'[c][q] = item[c][q]
    BY <1>i, <1>4, <2>1 DEF MarkItemFailed
  <2>3. \A q \in R : item[b][q] = "PENDING"
    BY <1>4, <2>1
  <2>4. QED
    BY ONLY <1>a, <2>2, <2>3, FailureRefuses
<1>5. ASSUME NEW b \in Batches, MarkBatchFailed(b)
      PROVE  Ledger!Next \/ UNCHANGED Seats
  <2>1. PICK R \in SUBSET Rows : R = PendingItems(b)
    BY DEF PendingItems
  <2>2. /\ \A q \in R : item'[b][q] = "FAILED"
        /\ \A c \in Batches, q \in Rows :
             c # b \/ q \notin R => item'[c][q] = item[c][q]
    <3>1. item' = [item EXCEPT ![b] =
                     [r \in Rows |-> IF item[b][r] = "PENDING" THEN "FAILED"
                                                               ELSE item[b][r]]]
      BY <1>5 DEF MarkBatchFailed
    <3>2. QED
      BY <1>i, <2>1, <3>1 DEF PendingItems
  <2>3. \A q \in R : item[b][q] = "PENDING"
    BY <2>1 DEF PendingItems
  <2>4. /\ \A q \in R : item'[b][q] = "FAILED"
        /\ \A c \in Batches, q \in Rows :
             c # b \/ q \notin R => item'[c][q] = item[c][q]
    BY <2>2
  <2>5. QED
    BY ONLY <1>a, <2>3, <2>4, FailureRefuses
<1>6. CASE WorkerNext
  <2>1. SettlingWrite
    BY <1>b, <1>6, WorkerSettles
  <2>2. CASE UNCHANGED dbVars \/ \E b \in Batches : MarkBatchCompleted(b)
    BY <1>s, <2>2 DEF dbVars, MarkBatchCompleted
  <2>3. QED
    BY <2>1, <2>2, <1>2, <1>3, <1>4, <1>5 DEF SettlingWrite
<1>7. CASE UNCHANGED vars
  BY <1>s, <1>7 DEF vars, dbVars
<1>8. QED
  BY <1>1, <1>6, <1>7 DEF Next, ApiNext

LEMMA LedgerInit == Init => Ledger!Init
<1> SUFFICES ASSUME Init PROVE Ledger!Init
  OBVIOUS
<1>1. \A b \in Batches, r \in Rows : item[b][r] = "NONE"
  BY DEF Init, StoreInit
<1>2. \A b \in Batches, r \in Rows : Seats[b][r] = "none"
  BY <1>1, SeatOfItem, SeatForValues
<1>3. PICK S : S = Seats
  OBVIOUS
<1>4. S = [b \in Batches |-> [r \in Rows |-> S[b][r]]]
  BY <1>3 DEF Seats
<1>5. \A b \in Batches, r \in Rows : S[b][r] = "none"
  BY <1>2, <1>3
<1>6. S = [b \in Batches |-> [r \in Rows |-> "none"]]
  BY <1>4, <1>5
<1>7. Seats = [b \in Batches |-> [r \in Rows |-> "none"]]
  BY <1>3, <1>6
<1>8. QED
  BY <1>7 DEF Ledger!Init, Seats

\* The pipeline implements the ledger: while no fault has doubled a message
\* or hidden a commit, and students cancel what they polled to the end or
\* nothing at all, queue, retries, redeliveries, crashes, failed statements
\* and the dead-letter consumer come to asking for seats, granting a free one,
\* refusing and returning, each once.
THEOREM ImplementsLedger ==
    ASSUME Orderly
    PROVE  Spec /\ []Calm => LedgerSpec
<1>1. Init => Ledger!Init
  BY LedgerInit
<1>2. SeatInv /\ Calm /\ [Next]_vars => [Ledger!Next]_Seats
  BY LedgerStep
<1>3. QED
  BY <1>1, <1>2, SeatAlways, PTL DEF Spec, LedgerSpec, Ledger!Spec, Seats

----------------------------------------------------------------------------
(* The scheduler.                                                          *)

\* A step of the scheduler, or of the expiry of a key, changes no counter but
\* those of Redis, and no state but those and its own.
LEMMA SchedulerFrame ==
    ASSUME CacheTypeOK, SchedulerNext
    PROVE  /\ UNCHANGED <<ask, dbVars, mqVars>>
           /\ UNCHANGED faults \/ Fault("redis")
           /\ slots' \in [Rows -> Int \cup {Missing}]
           /\ slotTtl' \subseteq Rows
           /\ lookup' \subseteq Codes
           /\ SchedulerTypeOK'
<1> USE SchedulerAssumption DEF redisVars
<1>t. StoreTypeOK /\ SchedulerTypeOK
  BY DEF CacheTypeOK, TypeOK
<1>r. /\ slots \in [Rows -> Int \cup {Missing}]
      /\ slotTtl \subseteq Rows
      /\ lookup \subseteq Codes
  BY <1>t DEF StoreTypeOK
<1>j. /\ job \in [Jobs -> {"idle", "load", "compare", "write"}]
      /\ read \in [Jobs -> [Rows -> Nat \cup {Missing}]]
      /\ expiries \in Nat
      /\ "heal" \in Jobs /\ "reconcile" \in Jobs
  BY <1>t DEF SchedulerTypeOK, Jobs
<1>m. ASSUME NEW j \in Jobs, NEW p, NEW q \in {"idle", "load", "compare", "write"},
             Step(j, p, q)
      PROVE  job' \in [Jobs -> {"idle", "load", "compare", "write"}]
  BY <1>j, <1>m DEF Step
<1>1. CASE HealCheck
  BY <1>1, <1>j, <1>m, <1>r DEF HealCheck, SchedulerTypeOK
<1>2. ASSUME NEW j \in Jobs, NEW p, NEW q \in {"idle", "load", "compare", "write"},
             LoadSections(j, p, q)
      PROVE  /\ UNCHANGED <<ask, dbVars, mqVars, redisVars, faults>>
             /\ SchedulerTypeOK'
  <2>1. FreeOf(Rows) \in [Rows -> Nat \cup {Missing}]
    BY <1>t, FreeOfType
  <2>2. read' \in [Jobs -> [Rows -> Nat \cup {Missing}]]
    BY <1>2, <1>j, <2>1 DEF LoadSections
  <2>3. QED
    BY <1>2, <1>j, <1>m, <2>2 DEF LoadSections, SchedulerTypeOK
<1>3. CASE ReconcileCompare
  <2>1. PICK v, q : /\ v = [r \in Rows |-> IF slots[r] = read["reconcile"][r]
                                    THEN Missing ELSE read["reconcile"][r]]
                    /\ q = IF v = NoValue THEN "idle" ELSE "write"
    OBVIOUS
  <2>2. v \in [Rows -> Nat \cup {Missing}]
    BY <1>j, <2>1
  <2>3. /\ Step("reconcile", "compare", q)
        /\ read' = [read EXCEPT !["reconcile"] = v]
        /\ UNCHANGED <<ask, dbVars, mqVars, redisVars, faults, expiries>>
    BY <1>3, <2>1 DEF ReconcileCompare
  <2>4. read' \in [Jobs -> [Rows -> Nat \cup {Missing}]]
    BY <1>j, <2>2, <2>3
  <2>5. job' \in [Jobs -> {"idle", "load", "compare", "write"}]
    BY <1>j, <1>m, <2>1, <2>3
  <2>6. QED
    BY <1>j, <1>r, <2>3, <2>4, <2>5 DEF SchedulerTypeOK
<1>4. ASSUME NEW j \in Jobs, WriteSlots(j)
      PROVE  /\ UNCHANGED <<ask, dbVars, mqVars>>
             /\ UNCHANGED faults \/ Fault("redis")
             /\ slots' \in [Rows -> Int \cup {Missing}]
             /\ slotTtl' \subseteq Rows
             /\ lookup' \subseteq Codes
             /\ SchedulerTypeOK'
  <2>1. NoValue \in [Rows -> Nat \cup {Missing}]
    BY <1>t, FreeOfType DEF NoValue
  <2>2. read' \in [Jobs -> [Rows -> Nat \cup {Missing}]]
    BY <1>4, <1>j, <2>1 DEF WriteSlots
  <2>3. job' \in [Jobs -> {"idle", "load", "compare", "write"}]
    BY <1>4, <1>m DEF WriteSlots
  <2>4. read[j] \in [Rows -> Nat \cup {Missing}]
    BY <1>j
  <2>5. /\ slots' \in [Rows -> Int \cup {Missing}]
        /\ slotTtl' \subseteq Rows
        /\ lookup' \subseteq Codes
    <3>1. CASE SetSlots(read[j]) /\ lookup' = IF j = "heal" THEN Codes ELSE lookup
      BY <1>t, <1>r, <2>4, <3>1, SetSlotsType
    <3>2. CASE UNCHANGED redisVars
      BY <1>r, <3>2
    <3>3. QED
      BY <1>4, <3>1, <3>2 DEF WriteSlots
  <2>6. QED
    BY <1>4, <1>j, <2>2, <2>3, <2>5 DEF WriteSlots, SchedulerTypeOK
<1>5. CASE Expire
  <2>1. slots' \in [Rows -> Int \cup {Missing}] /\ slotTtl' \subseteq Rows
          /\ lookup' \subseteq Codes
    BY <1>5, <1>r DEF Expire
  <2>2. expiries' \in Nat /\ UNCHANGED <<job, read>>
    BY <1>5, <1>j DEF Expire
  <2>3. QED
    BY <1>5, <1>j, <2>1, <2>2 DEF Expire, SchedulerTypeOK
<1>6. CASE HealLoad
  BY <1>2, <1>6, <1>j, <1>r DEF HealLoad
<1>7. CASE ReconcileLoad
  BY <1>2, <1>7, <1>j, <1>r DEF ReconcileLoad
<1>8. QED
  BY <1>1, <1>3, <1>4, <1>5, <1>6, <1>7 DEF SchedulerNext, JobStep

LEMMA CacheTypeInit == CacheInit => CacheTypeOK
<1> SUFFICES ASSUME CacheInit PROVE CacheTypeOK
  OBVIOUS
<1>1. TypeOK
  BY TypeCorrectInit DEF CacheInit
<1>2. NoValue \in [Rows -> Nat \cup {Missing}]
  BY <1>1, FreeOfType DEF NoValue, TypeOK
<1>3. SchedulerTypeOK
  BY <1>2 DEF CacheInit, SchedulerInit, SchedulerTypeOK
<1>4. QED
  BY <1>1, <1>3 DEF CacheTypeOK

\* Of a step of the composition, the pipeline sees one of its own, or one
\* that leaves it alone.
LEMMA SchedulerElsewhere ==
    ASSUME CacheTypeOK, SchedulerNext, UNCHANGED <<apiVars, workerVars>>
    PROVE  /\ UNCHANGED <<ask, dbVars, mqVars, apiVars, workerVars>>
           /\ faults' \in [FaultKinds -> Nat]
           /\ \A k \in FaultKinds \ {"redis"} : faults'[k] = faults[k]
           /\ CacheTypeOK'
<1>1. "redis" \in FaultKinds
  BY DEF FaultKinds
<1>2. StoreTypeOK /\ ApiTypeOK /\ WorkerTypeOK
  BY DEF CacheTypeOK, TypeOK
<1>3. /\ faults' \in [FaultKinds -> Nat]
      /\ \A k \in FaultKinds \ {"redis"} : faults'[k] = faults[k]
  <2>1. CASE UNCHANGED faults
    BY <1>2, <2>1 DEF StoreTypeOK
  <2>2. CASE Fault("redis")
    BY <1>1, <1>2, <2>2 DEF StoreTypeOK, Fault
  <2>3. QED
    BY <2>1, <2>2, SchedulerFrame
<1>4. StoreTypeOK'
  BY <1>2, <1>3, SchedulerFrame DEF StoreTypeOK, dbVars, mqVars
<1>5. ApiTypeOK' /\ WorkerTypeOK'
  BY <1>2 DEF ApiTypeOK, WorkerTypeOK, apiVars, workerVars
<1>6. QED
  BY <1>3, <1>4, <1>5, SchedulerFrame DEF CacheTypeOK, TypeOK

\* The variables of the composition hold values of their types, for every
\* expiry of a key and every interleaving of the two jobs with requests.
THEOREM CacheTyped == CacheSpec => []CacheTypeOK
<1>1. CacheTypeOK /\ [CacheNext]_cacheVars => CacheTypeOK'
  <2> SUFFICES ASSUME CacheTypeOK, [CacheNext]_cacheVars
               PROVE  CacheTypeOK'
    OBVIOUS
  <2>1. CASE [Next]_vars /\ UNCHANGED schedulerVars
    <3>1. TypeOK'
      BY <2>1, TypeCorrectStep DEF CacheTypeOK
    <3>2. SchedulerTypeOK'
      BY <2>1 DEF CacheTypeOK, SchedulerTypeOK, schedulerVars
    <3>3. QED
      BY <3>1, <3>2 DEF CacheTypeOK
  <2>2. CASE SchedulerNext /\ UNCHANGED <<apiVars, workerVars>>
    BY <2>2, SchedulerElsewhere
  <2>3. QED
    BY <2>1, <2>2 DEF CacheNext, cacheVars
<1>2. QED
  BY <1>1, CacheTypeInit, PTL DEF CacheSpec

LEMMA SchedulerKeepsSeats ==
    ASSUME SeatInv, CacheTypeOK, SchedulerNext, UNCHANGED <<apiVars, workerVars>>
    PROVE  SeatInv'
<1> USE DEF dbVars, mqVars, apiVars, workerVars
<1>1. /\ UNCHANGED <<ask, slDk, batch, item, payload, queue, dlq, req, seen,
                     delivery>>
      /\ \A k \in FaultKinds \ {"redis"} : faults'[k] = faults[k]
      /\ TypeOK'
  BY SchedulerElsewhere DEF CacheTypeOK
<1>2. (Calm' <=> Calm) /\ faults'["db"] = faults["db"]
  BY <1>1 DEF Calm, FaultKinds
<1>3. SettledInv'
  BY <1>1 DEF SeatInv, BaseInv, SettledInv, InsertPrecedesWork, SourcesInserted,
              TodoCoversPending, CompletedIsSettled, PendingItems, Busy
<1>4. Unsent'
  BY <1>1 DEF SeatInv, BaseInv, OnceInv, Unsent, Untouched, Busy
<1>5. FailedIsNoted'
  BY <1>1, <1>2 DEF SeatInv, BaseInv, OnceInv, FailedIsNoted, At
<1>6. Calm' => \A b \in Batches : OneCopy(b)'
  <2>1. Calm' => \A b \in Batches : OneCopy(b)
    BY <1>2 DEF SeatInv, BaseInv, OnceInv
  <2>2. ASSUME NEW b \in Batches, OneCopy(b)
        PROVE  OneCopy(b)'
    <3>1. \A d \in Deliveries : Carries(d, b)' => Carries(d, b)
      BY <1>1, <1>2 DEF Carries
    <3>2. StoreTypeOK /\ StoreTypeOK'
      BY <1>1 DEF CacheTypeOK, TypeOK
    <3>3. /\ \A n \in 0..MaxRetries : queue'[b][n] <= queue[b][n]
          /\ dlq'[b] <= dlq[b]
      BY <1>1, <3>2 DEF StoreTypeOK
    <3>4. QED
      BY <2>2, <3>1, <3>2, <3>3, CopiesFewer
  <2>3. QED
    BY <2>1, <2>2
<1>7. Calm' => TodoIsPending' /\ SourcesGranted'
  BY <1>1, <1>2 DEF SeatInv, BaseInv, OnceInv, TodoIsPending, PendingItems,
                    SourcesGranted, IsCreate
<1>8. BaseInv'
  BY <1>1, <1>3, <1>4, <1>5, <1>6, <1>7 DEF BaseInv, OnceInv
<1>9. WaitInv' /\ PendingHasBatch'
  BY <1>1 DEF SeatInv, WaitInv, NoBatchYet, OneInFlight, CreateAlone,
              OnePendingCreate, OneOpen, Open, Unanswered, PendingHasBatch,
              IsCreate
<1>10. /\ Calm' /\ Clients # "free" => OneClaim'
       /\ Calm' /\ Clients = "polling" => SourceHeld'
  BY <1>1, <1>2 DEF SeatInv, OneClaim, Claims, Asked, SourceHeld, Withdrawing,
                    IsCreate
<1>11. \A r \in Rows : Holders(r)' = Holders(r)
  BY <1>1 DEF Holders, Holds
<1>12. /\ Calm' /\ Orderly => SeatsCounted'
       /\ CreateOnly => HoldersCounted'
  BY <1>1, <1>2, <1>11 DEF SeatInv, SeatsCounted, HoldersCounted
<1>13. QED
  BY <1>8, <1>9, <1>10, <1>12 DEF SeatInv

\* Redis only fails fast, PostgreSQL decides: whatever expiry, refill, heal
\* and reconcile do to the slot counters, with any number of rows, keys and
\* jobs' runs, the seats taken in the DB stay exactly the seats of registered
\* students and within sl_max, until a fault doubles a message or hides a
\* commit.
THEOREM SeatsIgnoreCache ==
    ASSUME Orderly
    PROVE  CacheSpec => [](Calm => SeatsIndependentOfCache)
<1> DEFINE Inv == SeatInv /\ CapacityRespected
<1>1. CacheInit => Inv
  BY SeatInit, CapacityInit DEF CacheInit
<1>2. CacheTypeOK /\ Inv /\ [CacheNext]_cacheVars => Inv'
  <2> SUFFICES ASSUME CacheTypeOK, Inv, [CacheNext]_cacheVars
               PROVE  Inv'
    OBVIOUS
  <2>1. CASE [Next]_vars
    BY <2>1, SeatStep, CapacityStep DEF CacheTypeOK
  <2>2. CASE SchedulerNext /\ UNCHANGED <<apiVars, workerVars>>
    <3>1. SeatInv'
      BY <2>2, SchedulerKeepsSeats
    <3>2. CapacityRespected'
      BY <2>2, SchedulerFrame DEF dbVars, CapacityRespected
    <3>3. QED
      BY <3>1, <3>2
  <2>3. QED
    BY <2>1, <2>2 DEF CacheNext, cacheVars
<1>3. CacheTypeOK /\ Inv => (Calm => SeatsIndependentOfCache)
  <2> SUFFICES ASSUME CacheTypeOK, Inv, Calm
               PROVE  SeatsIndependentOfCache
    OBVIOUS
  <2>1. SeatsCounted
    BY DEF SeatInv
  <2>2. HoldersWithinCapacity
    BY <2>1, HoldersBounded DEF CacheTypeOK
  <2>3. SeatsMatchHolders
    BY <2>1 DEF SeatsCounted, SeatsMatchHolders
  <2>4. QED
    BY <2>2, <2>3 DEF SeatsIndependentOfCache
<1>4. QED
  BY <1>1, <1>2, <1>3, CacheTyped, PTL DEF CacheSpec

----------------------------------------------------------------------------
(* The slot counters of Redis.                                             *)

\* Nothing worse than an error that left the DB alone has happened.
Accountable == \A k \in FaultKinds \ {"db", "publish"} : faults[k] = 0

\* A prewarmed Redis that never failed is never missed and never refilled.
CountersLive ==
    faults["redis"] = 0 =>
        /\ lookup = Codes
        /\ slots \in [Rows -> Int]
        /\ \A b \in Batches : req[b] \notin {"fill", "refill", "refillFull"}

\* The batch row tells whether the reservation of a request was undone, its
\* items are rows the request reserved, and its message follows it.
ReservationsNoted ==
    \A b \in Batches :
        /\ req[b] \in {"publish", "done"} => batch[b] # "NONE"
        /\ req[b] = "rollback" => batch[b] = "NONE"
        /\ batch[b] = "NONE" => Untouched(b)
        /\ \A r \in Rows : item[b][r] # "NONE" =>
             r \in Asked(b) /\ batch[b] # "NONE"

SlotsCounted ==
    \A r \in Rows :
        /\ IsFiniteSet(Unseated(r))
        /\ IsFiniteSet(Unreleased(r))
        /\ slots[r] = SlMax[r] - slDk[r] - Cardinality(Unseated(r))
                                         + Cardinality(Unreleased(r))

AccountInv ==
    /\ CountersLive
    /\ Accountable => ReservationsNoted /\ SlotsCounted

\* Request b has touched the counter of row r, its item has not settled it.
Waiting(b, r) ==
    /\ Reserved(b, r)
    /\ item[b][r] # "SUCCESS"
    /\ IsCreate(b) => item[b][r] # "CANCELLED"

\* The two sets of the equation after a step in which one batch may begin or
\* cease to wait.
LEMMA WaitingAfter ==
    ASSUME UNCHANGED ask, NEW r \in Rows, NEW b \in Batches,
           \A c \in Batches : c # b => (Waiting(c, r)' <=> Waiting(c, r))
    PROVE  /\ Unseated(r)' = IF IsCreate(b)
                               THEN IF Waiting(b, r)' THEN Unseated(r) \cup {b}
                                                      ELSE Unseated(r) \ {b}
                               ELSE Unseated(r)
           /\ Unreleased(r)' = IF IsCreate(b)
                                 THEN Unreleased(r)
                                 ELSE IF Waiting(b, r)'
                                        THEN Unreleased(r) \cup {b}
                                        ELSE Unreleased(r) \ {b}
           /\ b \in Unseated(r) <=> IsCreate(b) /\ Waiting(b, r)
           /\ b \in Unreleased(r) <=> ~IsCreate(b) /\ Waiting(b, r)
<1>1. \A c \in Batches :
        /\ c \in Unseated(r) <=> IsCreate(c) /\ Waiting(c, r)
        /\ c \in Unreleased(r) <=> ~IsCreate(c) /\ Waiting(c, r)
  BY DEF Unseated, Unreleased, Waiting
<1>2. \A c \in Batches :
        /\ c \in Unseated(r)' <=> IsCreate(c)' /\ Waiting(c, r)'
        /\ c \in Unreleased(r)' <=> ~IsCreate(c)' /\ Waiting(c, r)'
  BY DEF Unseated, Unreleased, Waiting
<1>3. \A c \in Batches : IsCreate(c)' <=> IsCreate(c)
  BY DEF IsCreate
<1>4. PICK U, R, V, W : /\ U = Unseated(r) /\ V = Unseated(r)'
                        /\ R = Unreleased(r) /\ W = Unreleased(r)'
  OBVIOUS
<1>5. /\ U \subseteq Batches /\ V \subseteq Batches
      /\ R \subseteq Batches /\ W \subseteq Batches
  BY <1>4 DEF Unseated, Unreleased
<1>6. /\ \A c \in Batches : c # b => (c \in V <=> c \in U)
      /\ \A c \in Batches : c # b => (c \in W <=> c \in R)
  BY <1>1, <1>2, <1>3, <1>4
<1>7. /\ b \in V <=> IsCreate(b) /\ Waiting(b, r)'
      /\ b \in W <=> ~IsCreate(b) /\ Waiting(b, r)'
      /\ b \in U <=> IsCreate(b) /\ Waiting(b, r)
      /\ b \in R <=> ~IsCreate(b) /\ Waiting(b, r)
  BY <1>1, <1>2, <1>3, <1>4
<1>8. /\ b \in V => V = U \cup {b}
      /\ b \notin V => V = U \ {b}
      /\ b \in W => W = R \cup {b}
      /\ b \notin W => W = R \ {b}
  BY <1>5, <1>6
<1>9. /\ (b \in V <=> b \in U) => V = U
      /\ (b \in W <=> b \in R) => W = R
  <2>1. ASSUME b \in V <=> b \in U
        PROVE  V = U
    <3>1. \A c : c \in V <=> c \in U
      BY <1>5, <1>6, <2>1
    <3>2. QED
      BY <3>1
  <2>2. ASSUME b \in W <=> b \in R
        PROVE  W = R
    <3>1. \A c : c \in W <=> c \in R
      BY <1>5, <1>6, <2>2
    <3>2. QED
      BY <3>1
  <2>3. QED
    BY <2>1, <2>2
<1>10. /\ V = IF IsCreate(b) THEN IF Waiting(b, r)' THEN U \cup {b} ELSE U \ {b}
                             ELSE U
       /\ W = IF IsCreate(b) THEN R
                             ELSE IF Waiting(b, r)' THEN R \cup {b} ELSE R \ {b}
  BY <1>7, <1>8, <1>9
<1>11. QED
  BY <1>4, <1>7, <1>10

\* A fault that has not happened had not happened before.
LEMMA FaultsBefore ==
    ASSUME TypeOK, [Next]_vars
    PROVE  /\ \A k \in FaultKinds : faults'[k] = 0 => faults[k] = 0
           /\ Accountable' => Accountable
           /\ Calm' => Calm
<1>1. UNCHANGED faults \/ \E k \in FaultKinds : Fault(k)
  <2>1. CASE ApiNext
    BY <2>1, ApiOnlyAddsCopies DEF ApiNext
  <2>2. CASE WorkerNext
    BY <2>2, WorkerFaults
  <2>3. QED
    BY <2>1, <2>2 DEF Next, vars
<1>2. /\ \A k \in FaultKinds : /\ faults[k] \in Nat
                               /\ faults'[k] \in Nat
                               /\ faults'[k] >= faults[k]
      /\ Calm' => Calm
  BY <1>1, FaultsGrow DEF TypeOK
<1>3. \A k \in FaultKinds : faults'[k] = 0 => faults[k] = 0
  BY <1>2
<1>4. QED
  BY <1>2, <1>3 DEF Accountable

LEMMA AccountableIsCalm ==
    ASSUME Accountable
    PROVE  Calm /\ faults["redis"] = 0 /\ faults["ambiguous"] = 0
                /\ faults["crash"] = 0
BY DEF Accountable, Calm, FaultKinds

LEMMA WorkerLeavesRedis ==
    ASSUME WorkerNext
    PROVE  UNCHANGED redisVars
BY DEF WorkerNext, DeliveryStep, Deliver, LoadStatuses, ProcessItem,
       MarkFailed, CompleteBatch, RetryOrDeadLetter, Ack, DieDetached,
       LoseConnection, Crash, DeadLetter, redisVars

\* A fault leaves its mark.
LEMMA FaultShows ==
    ASSUME TypeOK, NEW k \in FaultKinds, Fault(k)
    PROVE  faults'[k] # 0
<1>1. faults[k] \in Nat /\ faults'[k] = faults[k] + 1
  BY DEF TypeOK, StoreTypeOK, Fault
<1>2. QED
  BY <1>1

\* While Redis never failed, requests resolve every code and find every
\* counter: the two ways to overwrite a counter are not taken.
LEMMA RequestsMissNothing ==
    ASSUME TypeOK, CountersLive, NEW b \in Batches,
           RequestStep(b), faults["redis"] = 0, faults'["redis"] = 0
    PROVE  /\ req'[b] \notin {"fill", "refill", "refillFull"}
           /\ \/ /\ UNCHANGED <<dbVars, redisVars>>
                 /\ req[b] \notin {"insert", "rollback", "publish", "done"}
                 /\ req'[b] \notin {"insert", "rollback", "publish", "done"}
              \/ /\ req[b] = "reserve"
                 /\ req'[b] = "insert"
                 /\ AdjustSlots(Asked(b), Delta(b))
                 /\ UNCHANGED dbVars
              \/ /\ req[b] = "insert"
                 /\ UNCHANGED redisVars
                 /\ \/ InsertBatch(b) /\ req'[b] = "publish"
                    \/ UNCHANGED dbVars /\ req'[b] = "rollback"
                    \/ /\ InsertBatch(b)
                       /\ req'[b] = "rollback"
                       /\ Fault("ambiguous")
              \/ /\ req[b] = "rollback"
                 /\ req'[b] = "error"
                 /\ AdjustSlots(Asked(b), -Delta(b))
                 /\ UNCHANGED dbVars
              \/ /\ req[b] = "publish"
                 /\ req'[b] \in {"done", "error"}
                 /\ UNCHANGED <<dbVars, redisVars>>
<1>t. req \in [Batches -> ReqPoints] /\ "redis" \in FaultKinds
  BY DEF TypeOK, ApiTypeOK, FaultKinds
<1>l. /\ lookup = Codes
      /\ slots \in [Rows -> Int]
      /\ req[b] \notin {"fill", "refill", "refillFull"}
  BY DEF CountersLive
<1>f. ~Fault("redis")
  BY <1>t, FaultShows
<1>a. /\ ask[b].codes \subseteq Codes
      /\ Asked(b) \subseteq Rows
  BY AskedType DEF TypeOK, StoreTypeOK
<1>1. CASE CheckNoPending(b)
  BY <1>1, <1>t DEF CheckNoPending, MayStart, Move
<1>2. CASE Resolve(b)
  <2>1. ask[b].codes \ lookup = {}
    BY <1>a, <1>l
  <2>2. /\ IF IsCreate(b) THEN req[b] = "resolve" ELSE MayStart(b)
        /\ Move(b, AfterResolve(b))
        /\ UNCHANGED <<dbVars, redisVars>>
    BY <1>2, <1>f, <2>1 DEF Resolve
  <2>3. QED
    BY <1>t, <2>2 DEF AfterResolve, MayStart, Move
<1>3. CASE CheckCapacity(b)
  <2>1. {r \in Asked(b) : ~Cached(r)} = {}
    BY <1>a, <1>l DEF Cached
  <2>2. /\ req[b] = "capacity"
        /\ \/ Move(b, "rejected")
           \/ Move(b, "active")
        /\ UNCHANGED <<dbVars, redisVars>>
    BY <1>3, <1>f, <2>1 DEF CheckCapacity
  <2>3. QED
    BY <1>t, <2>2 DEF Move
<1>4. CASE ReadActiveForCreate(b) \/ ReadActiveForCancel(b)
  BY <1>4, <1>t DEF ReadActiveForCreate, ReadActiveForCancel, Move
<1>5. CASE ReserveSlots(b)
  BY <1>5, <1>t, <1>f DEF ReserveSlots, Move
<1>6. CASE InsertBatchRows(b)
  BY <1>6, <1>t DEF InsertBatchRows, Move
<1>7. CASE RollbackSlots(b)
  BY <1>7, <1>t, <1>f DEF RollbackSlots, Throw, Move
<1>8. CASE Publish(b)
  BY <1>8, <1>t DEF Publish, Move
<1>9. CASE FillLookup(b) \/ RefillSlots(b)
  BY <1>9, <1>l DEF FillLookup, RefillSlots
<1>10. QED
  BY <1>1, <1>2, <1>3, <1>4, <1>5, <1>6, <1>7, <1>8, <1>9 DEF RequestStep

\* DECRBY and INCRBY of counters that are there.
LEMMA AdjustLive ==
    ASSUME slots \in [Rows -> Int], NEW R, NEW delta \in Int,
           AdjustSlots(R, delta)
    PROVE  /\ slots' \in [Rows -> Int]
           /\ lookup' = lookup
           /\ \A r \in Rows : slots'[r] = IF r \in R THEN slots[r] + delta
                                                     ELSE slots[r]
<1>1. \A r \in Rows : Cached(r)
  BY DEF Cached
<1>2. slots' = [r \in Rows |-> IF r \notin R THEN slots[r]
                              ELSE IF Cached(r) THEN slots[r] + delta ELSE delta]
  BY DEF AdjustSlots
<1>3. \A r \in Rows : slots'[r] = IF r \in R THEN slots[r] + delta ELSE slots[r]
  BY <1>1, <1>2
<1>4. QED
  BY <1>2, <1>3 DEF AdjustSlots

LEMMA CountersStayLive ==
    ASSUME TypeOK, CountersLive, [Next]_vars
    PROVE  CountersLive'
<1> SUFFICES ASSUME faults'["redis"] = 0
             PROVE  /\ lookup' = Codes
                    /\ slots' \in [Rows -> Int]
                    /\ \A c \in Batches :
                         req'[c] \notin {"fill", "refill", "refillFull"}
  BY DEF CountersLive
<1>1. faults["redis"] = 0
  BY FaultsBefore DEF FaultKinds
<1>2. /\ lookup = Codes
      /\ slots \in [Rows -> Int]
      /\ \A c \in Batches : req[c] \notin {"fill", "refill", "refillFull"}
  BY <1>1 DEF CountersLive
<1>3. CASE UNCHANGED redisVars /\ UNCHANGED req
  BY <1>2, <1>3 DEF redisVars
<1>4. ASSUME NEW b \in Batches, RequestStep(b) \/ ApiCrash(b)
      PROVE  /\ lookup' = Codes
             /\ slots' \in [Rows -> Int]
             /\ \A c \in Batches :
                  req'[c] \notin {"fill", "refill", "refillFull"}
  <2>1. \A c \in Batches \ {b} : req'[c] = req[c]
    BY <1>4, ApiOnlyAddsCopies
  <2>2. CASE RequestStep(b)
    <3>1. req'[b] \notin {"fill", "refill", "refillFull"}
      BY <1>1, <2>2, RequestsMissNothing
    <3>2. /\ Delta(b) \in Int
          /\ -Delta(b) \in Int
      BY DEF Delta
    <3>3. \/ UNCHANGED redisVars
          \/ AdjustSlots(Asked(b), Delta(b))
          \/ AdjustSlots(Asked(b), -Delta(b))
      BY <1>1, <2>2, RequestsMissNothing
    <3>4. lookup' = Codes /\ slots' \in [Rows -> Int]
      BY <1>2, <3>2, <3>3, AdjustLive DEF redisVars
    <3>5. QED
      BY <1>2, <2>1, <3>1, <3>4
  <2>3. CASE ApiCrash(b)
    BY <1>2, <2>1, <2>3 DEF ApiCrash, Move, redisVars, TypeOK, ApiTypeOK
  <2>4. QED
    BY <1>4, <2>2, <2>3
<1>5. QED
  BY <1>3, <1>4, WorkerLeavesRedis DEF Next, ApiNext, vars, apiVars

\* An insert is seen in the DB.
LEMMA InsertShows ==
    ASSUME TypeOK, NoBatchYet, NEW b \in Batches,
           InsertBatch(b), req[b] = "insert"
    PROVE  ~(UNCHANGED dbVars)
<1>1. batch[b] = "NONE"
  BY DEF NoBatchYet, BeforeInsert, ReqPoints, Answered
<1>2. batch'[b] = "PENDING"
  BY DEF InsertBatch, TypeOK, StoreTypeOK
<1>3. QED
  BY <1>1, <1>2 DEF dbVars

LEMMA ReservationsStayNoted ==
    ASSUME TypeOK, SettledInv, TodoIsPending, SourcesGranted, NoBatchYet,
           CountersLive, ReservationsNoted, Accountable', [Next]_vars
    PROVE  ReservationsNoted'
<1>a. UNCHANGED ask
  BY ApiSteps, WorkerFrame DEF Next, ApiNext, vars
<1>b. \A c \in Batches : Asked(c)' = Asked(c)
  BY <1>a DEF Asked
<1>f. /\ faults["redis"] = 0 /\ faults'["redis"] = 0
      /\ ~Fault("crash") /\ ~Fault("ambiguous")
  <2>1. Accountable
    BY FaultsBefore
  <2>2. /\ faults'["redis"] = 0
        /\ faults'["crash"] = 0
        /\ faults'["ambiguous"] = 0
    BY DEF Accountable, FaultKinds
  <2>3. "crash" \in FaultKinds /\ "ambiguous" \in FaultKinds
    BY DEF FaultKinds
  <2>4. QED
    BY <2>1, <2>2, <2>3, AccountableIsCalm, FaultShows
<1>1. ASSUME NEW b \in Batches, RequestStep(b) \/ ApiCrash(b),
             UNCHANGED workerVars, NEW c \in Batches
      PROVE  /\ req'[c] \in {"publish", "done"} => batch'[c] # "NONE"
             /\ req'[c] = "rollback" => batch'[c] = "NONE"
             /\ batch'[c] = "NONE" => Untouched(c)'
             /\ \A r \in Rows : item'[c][r] # "NONE" =>
                  r \in Asked(c) /\ batch'[c] # "NONE"
  <2>1. RequestStep(b)
    BY <1>1, <1>f DEF ApiCrash
  <2>2. \/ UNCHANGED dbVars
        \/ InsertBatch(b) /\ req[b] = "insert" /\ req'[b] = "publish"
    BY <1>f, <2>1, RequestsMissNothing DEF dbVars
  <2>3. CASE c # b
    <3>1. req'[c] = req[c] /\ batch'[c] = batch[c] /\ item'[c] = item[c]
      BY <2>2, <2>3, <1>1, ApiOnlyAddsCopies, InsertElsewhere DEF dbVars
    <3>2. Untouched(c) => Untouched(c)'
      <4>1. queue'[c] = queue[c]
        <5>1. UNCHANGED queue \/ Enqueue(b, 0)
          BY <1>1, ApiOnlyAddsCopies
        <5>2. QED
          BY <2>3, <5>1 DEF Enqueue, TypeOK, StoreTypeOK
      <4>2. UNCHANGED <<dlq, delivery>>
        BY <1>1, ApiOnlyAddsCopies DEF workerVars
      <4>3. QED
        BY <4>1, <4>2 DEF Untouched, Busy
    <3>3. QED
      BY <3>1, <3>2 DEF ReservationsNoted
  <2>4. CASE c = b /\ InsertBatch(b) /\ req'[b] = "publish"
    <3>1. batch'[b] = "PENDING"
      BY <2>4 DEF InsertBatch, TypeOK, StoreTypeOK
    <3>2. \A r \in Rows : item'[b][r] # "NONE" => r \in Asked(b)
      BY <2>4 DEF InsertBatch, TypeOK, StoreTypeOK
    <3>3. QED
      BY <2>4, <3>1, <3>2
  <2>5. CASE c = b /\ UNCHANGED dbVars
    <3>1. batch'[b] = batch[b] /\ item'[b] = item[b]
      BY <2>5 DEF dbVars
    <3>2. req'[b] \in {"publish", "done"} => req[b] = "publish"
      BY <1>f, <2>1, <2>5, RequestsMissNothing, InsertShows
    <3>3. req'[b] = "rollback" => batch[b] = "NONE"
      <4>1. req'[b] = "rollback" => req[b] = "insert"
        BY <1>f, <2>1, RequestsMissNothing
      <4>2. QED
        BY <4>1 DEF NoBatchYet, BeforeInsert, ReqPoints, Answered
    <3>4. batch[b] = "NONE" => Untouched(b)'
      <4>1. SUFFICES ASSUME batch[b] = "NONE" PROVE Untouched(b)'
        OBVIOUS
      <4>2. Untouched(b) /\ req[b] # "publish"
        BY <4>1 DEF ReservationsNoted
      <4>3. UNCHANGED <<queue, dlq, delivery>>
        BY <1>1, <4>2, ApiSteps, ApiOnlyAddsCopies DEF workerVars
      <4>4. QED
        BY <4>2, <4>3 DEF Untouched, Busy
    <3>5. QED
      BY <2>5, <3>1, <3>2, <3>3, <3>4 DEF ReservationsNoted
  <2>6. QED
    BY <2>2, <2>3, <2>4, <2>5
<1>2. ASSUME WorkerNext, UNCHANGED apiVars, NEW c \in Batches
      PROVE  /\ req'[c] \in {"publish", "done"} => batch'[c] # "NONE"
             /\ req'[c] = "rollback" => batch'[c] = "NONE"
             /\ batch'[c] = "NONE" => Untouched(c)'
             /\ \A r \in Rows : item'[c][r] # "NONE" =>
                  r \in Asked(c) /\ batch'[c] # "NONE"
  <2>1. req'[c] = req[c]
    BY <1>2 DEF apiVars
  <2>2. batch'[c] \in {batch[c], "COMPLETED"}
    BY <1>2, WorkerEndsBatches
  <2>3. CASE batch[c] = "NONE"
    <3>1. Untouched(c)
      BY <2>3 DEF ReservationsNoted
    <3>2. Untouched(c)'
      BY <1>2, <3>1, UntouchedStays DEF Untouched
    <3>3. batch'[c] = "NONE"
      BY <1>2, <2>3, <3>1, UntouchedBatchStays
    <3>4. \A r \in Rows : item[c][r] = "NONE"
      BY <2>3 DEF ReservationsNoted
    <3>5. \A r \in Rows : item'[c][r] = "NONE"
      BY <1>2, <3>4, WorkerSettles, WriteOutcome DEF Holds
    <3>6. QED
      BY <2>1, <2>3, <3>2, <3>3, <3>5 DEF ReservationsNoted
  <2>4. CASE batch[c] # "NONE"
    <3>1. batch'[c] # "NONE"
      BY <2>2, <2>4
    <3>2. \A r \in Rows : item'[c][r] # "NONE" => item[c][r] # "NONE"
      BY <1>2, WorkerSettles, WriteOutcome DEF Holds
    <3>3. QED
      BY <2>1, <2>4, <3>1, <3>2 DEF ReservationsNoted
  <2>5. QED
    BY <2>3, <2>4
<1>3. CASE UNCHANGED vars
  BY <1>3, <1>b DEF vars, dbVars, mqVars, apiVars, workerVars,
                    ReservationsNoted, Untouched, Busy
<1>4. CASE Next
  <2>1. \A c \in Batches :
             /\ req'[c] \in {"publish", "done"} => batch'[c] # "NONE"
             /\ req'[c] = "rollback" => batch'[c] = "NONE"
             /\ batch'[c] = "NONE" => Untouched(c)'
             /\ \A r \in Rows : item'[c][r] # "NONE" =>
                  r \in Asked(c) /\ batch'[c] # "NONE"
    BY <1>1, <1>2, <1>4 DEF Next, ApiNext
  <2>2. QED
    BY <1>b, <2>1 DEF ReservationsNoted
<1>5. QED
  BY <1>3, <1>4

\* What a request step does to the counter of a row: nothing, a reservation,
\* or the rollback of one.
LEMMA RequestCounts ==
    ASSUME TypeOK, SettledInv, NoBatchYet, CountersLive, ReservationsNoted,
           Accountable', NEW b \in Batches, RequestStep(b) \/ ApiCrash(b),
           [Next]_vars, NEW r \in Rows
    PROVE  /\ slDk'[r] = slDk[r]
           /\ \A c \in Batches : c # b => (Waiting(c, r)' <=> Waiting(c, r))
           /\ \/ slots'[r] = slots[r] /\ (Waiting(b, r)' <=> Waiting(b, r))
              \/ /\ slots'[r] = slots[r] + Delta(b)
                 /\ ~Waiting(b, r) /\ Waiting(b, r)'
              \/ /\ slots'[r] = slots[r] - Delta(b)
                 /\ Waiting(b, r) /\ ~Waiting(b, r)'
<1>a. UNCHANGED ask
  BY ApiSteps
<1>b. \A c \in Batches : Asked(c)' = Asked(c) /\ (IsCreate(c)' <=> IsCreate(c))
  BY <1>a DEF Asked, IsCreate
<1>f. /\ faults["redis"] = 0 /\ faults'["redis"] = 0
      /\ ~Fault("crash") /\ ~Fault("ambiguous")
  <2>1. Accountable
    BY FaultsBefore
  <2>2. /\ faults'["redis"] = 0
        /\ faults'["crash"] = 0
        /\ faults'["ambiguous"] = 0
    BY DEF Accountable, FaultKinds
  <2>3. "crash" \in FaultKinds /\ "ambiguous" \in FaultKinds
    BY DEF FaultKinds
  <2>4. QED
    BY <2>1, <2>2, <2>3, AccountableIsCalm, FaultShows
<1>s. slots \in [Rows -> Int] /\ Delta(b) \in Int /\ -Delta(b) \in Int
  BY <1>f DEF CountersLive, Delta
<1>1. RequestStep(b)
  BY <1>f DEF ApiCrash
<1>w. \A c \in Batches :
        /\ Waiting(c, r) <=>
             /\ r \in Asked(c)
             /\ \/ req[c] \in {"insert", "rollback", "publish", "done"}
                \/ batch[c] # "NONE"
             /\ item[c][r] # "SUCCESS"
             /\ IsCreate(c) => item[c][r] # "CANCELLED"
        /\ Waiting(c, r)' <=>
             /\ r \in Asked(c)
             /\ \/ req'[c] \in {"insert", "rollback", "publish", "done"}
                \/ batch'[c] # "NONE"
             /\ item'[c][r] # "SUCCESS"
             /\ IsCreate(c) => item'[c][r] # "CANCELLED"
  BY <1>b DEF Waiting, Reserved
<1>2. \/ UNCHANGED dbVars
      \/ InsertBatch(b) /\ req[b] = "insert" /\ req'[b] = "publish"
  BY <1>1, <1>f, RequestsMissNothing DEF dbVars
<1>3. slDk'[r] = slDk[r]
  BY <1>2 DEF dbVars, InsertBatch
<1>4. \A c \in Batches : c # b =>
        req'[c] = req[c] /\ batch'[c] = batch[c] /\ item'[c] = item[c]
  BY <1>1, <1>2, ApiOnlyAddsCopies, InsertElsewhere DEF dbVars
<1>5. \A c \in Batches : c # b => (Waiting(c, r)' <=> Waiting(c, r))
  BY <1>4, <1>w
<1>6. CASE /\ UNCHANGED <<dbVars, redisVars>>
           /\ req[b] \notin {"insert", "rollback", "publish", "done"}
           /\ req'[b] \notin {"insert", "rollback", "publish", "done"}
  <2>1. slots'[r] = slots[r] /\ (Waiting(b, r)' <=> Waiting(b, r))
    BY <1>6, <1>w DEF dbVars, redisVars
  <2>2. QED
    BY <1>3, <1>5, <2>1
<1>7. CASE /\ req[b] = "reserve"
           /\ req'[b] = "insert"
           /\ AdjustSlots(Asked(b), Delta(b))
           /\ UNCHANGED dbVars
  <2>1. batch[b] = "NONE" /\ item[b][r] = "NONE"
    BY <1>7 DEF NoBatchYet, BeforeInsert, ReqPoints, Answered, ReservationsNoted
  <2>2. /\ ~Waiting(b, r)
        /\ Waiting(b, r)' <=> r \in Asked(b)
    BY <1>7, <1>w, <2>1 DEF dbVars
  <2>3. slots'[r] = IF r \in Asked(b) THEN slots[r] + Delta(b) ELSE slots[r]
    BY <1>7, <1>s, AdjustLive
  <2>4. QED
    BY <1>3, <1>5, <2>2, <2>3
<1>8. CASE /\ req[b] = "insert"
           /\ UNCHANGED redisVars
           /\ \/ InsertBatch(b) /\ req'[b] = "publish"
              \/ UNCHANGED dbVars /\ req'[b] = "rollback"
  <2>1. item[b][r] = "NONE"
    BY <1>8 DEF NoBatchYet, BeforeInsert, ReqPoints, Answered, ReservationsNoted
  <2>2. item'[b][r] \in {"NONE", "PENDING"}
    BY <1>8, <2>1 DEF InsertBatch, dbVars, TypeOK, StoreTypeOK
  <2>3. Waiting(b, r)' <=> Waiting(b, r)
    BY <1>8, <1>w, <2>1, <2>2
  <2>4. QED
    BY <1>3, <1>5, <1>8, <2>3 DEF redisVars
<1>9. CASE /\ req[b] = "rollback"
           /\ req'[b] = "error"
           /\ AdjustSlots(Asked(b), -Delta(b))
           /\ UNCHANGED dbVars
  <2>1. batch[b] = "NONE" /\ item[b][r] = "NONE"
    BY <1>9 DEF ReservationsNoted
  <2>2. /\ Waiting(b, r) <=> r \in Asked(b)
        /\ ~Waiting(b, r)'
    BY <1>9, <1>w, <2>1 DEF dbVars
  <2>3. slots'[r] = IF r \in Asked(b) THEN slots[r] + (-Delta(b)) ELSE slots[r]
    BY <1>9, <1>s, AdjustLive
  <2>4. slots[r] + (-Delta(b)) = slots[r] - Delta(b)
    BY <1>s
  <2>5. QED
    BY <1>3, <1>5, <2>2, <2>3, <2>4
<1>10. CASE /\ req[b] = "publish"
            /\ req'[b] \in {"done", "error"}
            /\ UNCHANGED <<dbVars, redisVars>>
  <2>1. batch[b] # "NONE"
    BY <1>10 DEF ReservationsNoted
  <2>2. slots'[r] = slots[r] /\ (Waiting(b, r)' <=> Waiting(b, r))
    BY <1>10, <1>w, <2>1 DEF dbVars, redisVars
  <2>3. QED
    BY <1>3, <1>5, <2>2
<1>11. QED
  BY <1>1, <1>f, <1>6, <1>7, <1>8, <1>9, <1>10, RequestsMissNothing

\* What a statement of a handler does to the counter: nothing.  It settles at
\* most one item, with one seat taken or given back.
LEMMA SettleCounts ==
    ASSUME BaseInv, Calm, Orderly, PendingHasBatch,
           Clients = "polling" => SourceHeld, SeatsCounted, ReservationsNoted,
           WorkerNext, UNCHANGED apiVars, NEW r \in Rows
    PROVE  /\ slots'[r] = slots[r]
           /\ \/ /\ slDk'[r] = slDk[r]
                 /\ \A c \in Batches : Waiting(c, r)' <=> Waiting(c, r)
              \/ \E b \in Batches :
                   /\ slDk'[r] = IF IsCreate(b) THEN slDk[r] + 1 ELSE slDk[r] - 1
                   /\ Waiting(b, r) /\ ~Waiting(b, r)'
                   /\ \A c \in Batches : c # b =>
                        (Waiting(c, r)' <=> Waiting(c, r))
<1> USE DEF BaseInv, OnceInv
<1>a. UNCHANGED ask
  BY WorkerFrame
<1>b. \A c \in Batches : Asked(c)' = Asked(c) /\ (IsCreate(c)' <=> IsCreate(c))
  BY <1>a DEF Asked, IsCreate
<1>t. /\ slDk \in [Rows -> Nat]
      /\ item \in [Batches -> [Rows -> ItemStatus]]
      /\ batch \in [Batches -> BatchStatus]
  BY DEF TypeOK, StoreTypeOK
<1>s. slots'[r] = slots[r]
  BY WorkerLeavesRedis DEF redisVars
<1>n. \A c \in Batches : batch'[c] # "NONE" <=> batch[c] # "NONE"
  <2>1. ASSUME NEW c \in Batches, batch[c] = "NONE"
        PROVE  batch'[c] = "NONE"
    BY <2>1, UntouchedBatchStays DEF ReservationsNoted
  <2>2. \A c \in Batches : batch'[c] \in {batch[c], "COMPLETED"}
    BY WorkerEndsBatches
  <2>3. QED
    BY <2>1, <2>2
<1>w. \A c \in Batches :
        /\ Waiting(c, r) <=>
             /\ r \in Asked(c)
             /\ \/ req[c] \in {"insert", "rollback", "publish", "done"}
                \/ batch[c] # "NONE"
             /\ item[c][r] # "SUCCESS"
             /\ IsCreate(c) => item[c][r] # "CANCELLED"
        /\ Waiting(c, r)' <=>
             /\ r \in Asked(c)
             /\ \/ req[c] \in {"insert", "rollback", "publish", "done"}
                \/ batch[c] # "NONE"
             /\ item'[c][r] # "SUCCESS"
             /\ IsCreate(c) => item'[c][r] # "CANCELLED"
  BY <1>b, <1>n DEF Waiting, Reserved, apiVars
<1>p. \A c \in Batches : item[c][r] = "PENDING" => Waiting(c, r)
  BY <1>w DEF ReservationsNoted
<1>k. ASSUME UNCHANGED slDk,
             \A c \in Batches : item'[c][r] # item[c][r] => item'[c][r] = "FAILED"
      PROVE  /\ slDk'[r] = slDk[r]
             /\ \A c \in Batches : Waiting(c, r)' <=> Waiting(c, r)
  <2>1. ASSUME NEW c \in Batches, item'[c][r] # item[c][r]
        PROVE  Waiting(c, r)' <=> Waiting(c, r)
    <3>1. item[c][r] = "PENDING" /\ item'[c][r] = "FAILED"
      BY <1>k, <2>1, WorkerSettles, WriteOutcome
    <3>2. QED
      BY <1>p, <1>w, <3>1
  <2>2. ASSUME NEW c \in Batches, item'[c][r] = item[c][r]
        PROVE  Waiting(c, r)' <=> Waiting(c, r)
    BY <1>w, <2>2
  <2>3. QED
    BY <1>k, <2>1, <2>2
<1>1. ASSUME NEW b \in Batches, NEW q \in Rows, item[b][q] = "PENDING",
             IsCreate(b), AcquireSlotAndMarkSuccess(b, q)
      PROVE  \/ /\ slDk'[r] = slDk[r]
                /\ \A c \in Batches : Waiting(c, r)' <=> Waiting(c, r)
             \/ /\ slDk'[r] = slDk[r] + 1
                /\ Waiting(b, r) /\ ~Waiting(b, r)'
                /\ \A c \in Batches : c # b =>
                     (Waiting(c, r)' <=> Waiting(c, r))
  <2>1. /\ slDk' = [slDk EXCEPT ![q] = @ + 1]
        /\ item' = [item EXCEPT ![b][q] = "SUCCESS"]
    BY <1>1 DEF AcquireSlotAndMarkSuccess
  <2>2. CASE q = r
    <3>1. /\ slDk'[r] = slDk[r] + 1
          /\ item'[b][r] = "SUCCESS"
          /\ \A c \in Batches : c # b => item'[c][r] = item[c][r]
      BY <1>t, <2>1, <2>2
    <3>2. QED
      BY <1>1, <1>p, <1>w, <2>2, <3>1
  <2>3. CASE q # r
    <3>1. slDk'[r] = slDk[r] /\ \A c \in Batches : item'[c][r] = item[c][r]
      BY <1>t, <2>1, <2>3
    <3>2. QED
      BY <1>w, <3>1
  <2>4. QED
    BY <2>2, <2>3
<1>2. ASSUME NEW b \in Batches, NEW src \in Batches, NEW q \in Rows,
             item[b][q] = "PENDING", ~IsCreate(b), payload[b][q] = src,
             IsCreate(src), ReleaseSlotAndMarkItems(b, q, src)
      PROVE  \/ /\ slDk'[r] = slDk[r]
                /\ \A c \in Batches : Waiting(c, r)' <=> Waiting(c, r)
             \/ /\ slDk'[r] = slDk[r] - 1
                /\ Waiting(b, r) /\ ~Waiting(b, r)'
                /\ \A c \in Batches : c # b =>
                     (Waiting(c, r)' <=> Waiting(c, r))
  <2>1. /\ slDk' = [slDk EXCEPT ![q] = IF @ > 0 THEN @ - 1 ELSE 0]
        /\ item' = [item EXCEPT ![src][q] = "CANCELLED", ![b][q] = "SUCCESS"]
        /\ src # b
    BY <1>2 DEF ReleaseSlotAndMarkItems
  <2>2. CASE q = r
    <3>1. item[src][r] = "SUCCESS"
      BY <1>2, <2>2, SourceIsHeld
    <3>2. slDk[r] > 0
      <4>1. src \in Holders(r)
        BY <1>2, <3>1 DEF Holders, Holds, IsCreate
      <4>2. IsFiniteSet(Holders(r)) /\ slDk[r] = Cardinality(Holders(r))
        BY DEF SeatsCounted
      <4>3. slDk[r] # 0
        BY <4>1, <4>2, FS_EmptySet
      <4>4. QED
        BY <1>t, <4>3
    <3>3. /\ slDk'[r] = slDk[r] - 1
          /\ item'[b][r] = "SUCCESS"
          /\ item'[src][r] = "CANCELLED"
          /\ \A c \in Batches : c # b /\ c # src => item'[c][r] = item[c][r]
      BY <1>t, <2>1, <2>2, <3>2
    <3>4. Waiting(src, r)' <=> Waiting(src, r)
      BY <1>2, <1>w, <3>1, <3>3
    <3>5. \A c \in Batches : c # b => (Waiting(c, r)' <=> Waiting(c, r))
      BY <1>w, <3>3, <3>4
    <3>6. Waiting(b, r) /\ ~Waiting(b, r)'
      BY <1>2, <1>p, <1>w, <2>2, <3>3
    <3>7. QED
      BY <3>3, <3>5, <3>6
  <2>3. CASE q # r
    <3>1. slDk'[r] = slDk[r] /\ \A c \in Batches : item'[c][r] = item[c][r]
      BY <1>t, <2>1, <2>3
    <3>2. QED
      BY <1>w, <3>1
  <2>4. QED
    BY <2>2, <2>3
<1>3. CASE \/ UNCHANGED dbVars
           \/ \E b \in Batches, q \in Rows :
                item[b][q] = "PENDING" /\ MarkItemFailed(b, q)
           \/ \E b \in Batches : MarkBatchCompleted(b)
           \/ \E b \in Batches : MarkBatchFailed(b)
  <2>1. UNCHANGED slDk
    BY <1>3 DEF dbVars, MarkItemFailed, MarkBatchCompleted, MarkBatchFailed
  <2>2. ASSUME NEW c \in Batches, item'[c][r] # item[c][r]
        PROVE  item'[c][r] = "FAILED"
    <3>1. ASSUME NEW b \in Batches, NEW q \in Rows, MarkItemFailed(b, q)
          PROVE  item'[c][r] = "FAILED"
      BY <1>t, <2>2, <3>1 DEF MarkItemFailed
    <3>2. ASSUME NEW b \in Batches, MarkBatchFailed(b)
          PROVE  item'[c][r] = "FAILED"
      <4>1. item' = [item EXCEPT ![b] =
                       [q \in Rows |-> IF item[b][q] = "PENDING" THEN "FAILED"
                                                                 ELSE item[b][q]]]
        BY <3>2 DEF MarkBatchFailed
      <4>2. c = b
        BY <1>t, <2>2, <4>1
      <4>3. item'[c] = [q \in Rows |-> IF item[c][q] = "PENDING" THEN "FAILED"
                                                                ELSE item[c][q]]
        BY <1>t, <4>1, <4>2
      <4>4. QED
        BY <2>2, <4>3
    <3>3. QED
      BY <1>3, <2>2, <3>1, <3>2 DEF dbVars, MarkBatchCompleted
  <2>3. QED
    BY <1>k, <1>s, <2>1, <2>2
<1>4. SettlingWrite
  BY WorkerSettles
<1>5. QED
  BY <1>s, <1>1, <1>2, <1>3, <1>4 DEF SettlingWrite

LEMMA SlotsStayCounted ==
    ASSUME SeatInv, Orderly, CountersLive, ReservationsNoted, SlotsCounted,
           Accountable', [Next]_vars
    PROVE  SlotsCounted'
<1>c. /\ TypeOK /\ SettledInv /\ NoBatchYet /\ PendingHasBatch /\ BaseInv
      /\ Calm /\ faults["redis"] = 0
      /\ Clients = "polling" => SourceHeld
      /\ SeatsCounted
  <2>1. TypeOK
    BY DEF SeatInv, BaseInv
  <2>2. Calm /\ faults["redis"] = 0
    BY <2>1, FaultsBefore, AccountableIsCalm
  <2>3. QED
    BY <2>1, <2>2 DEF SeatInv, BaseInv, WaitInv
<1>a. UNCHANGED ask
  BY <1>c, ApiSteps, WorkerFrame DEF Next, ApiNext, vars
<1>d. slDk' \in [Rows -> Nat]
  BY <1>c, BaseStep DEF SeatInv, BaseInv, TypeOK, StoreTypeOK
<1> SUFFICES ASSUME NEW r \in Rows
             PROVE  /\ IsFiniteSet(Unseated(r)')
                    /\ IsFiniteSet(Unreleased(r)')
                    /\ slots'[r] = SlMax[r] - slDk'[r] - Cardinality(Unseated(r)')
                                                      + Cardinality(Unreleased(r)')
  BY DEF SlotsCounted
<1>t. /\ SlMax[r] \in Int /\ slDk[r] \in Int /\ slDk'[r] \in Int
      /\ slots[r] \in Int
  <2>1. slDk[r] \in Nat /\ slDk'[r] \in Nat /\ SlMax[r] \in Nat
    BY <1>c, <1>d, StoreAssumption DEF TypeOK, StoreTypeOK
  <2>2. QED
    BY <1>c, <2>1 DEF CountersLive
<1>p. PICK m, d, s, d2, s2, U, R, U2, R2 :
        /\ m \in Int /\ d \in Int /\ s \in Int
        /\ m = SlMax[r] /\ d = slDk[r] /\ s = slots[r]
        /\ d2 = slDk'[r] /\ s2 = slots'[r]
        /\ U = Unseated(r) /\ R = Unreleased(r)
        /\ U2 = Unseated(r)' /\ R2 = Unreleased(r)'
  BY <1>t
<1>q. /\ IsFiniteSet(U) /\ IsFiniteSet(R)
      /\ s = m - d - Cardinality(U) + Cardinality(R)
      /\ m \in Int /\ d \in Int /\ s \in Int /\ d2 \in Int
  BY <1>p, <1>t DEF SlotsCounted
<1>1. ASSUME NEW b \in Batches, RequestStep(b) \/ ApiCrash(b)
      PROVE  \/ /\ U2 = U /\ R2 = R
                /\ s2 = s /\ d2 = d
             \/ /\ IsCreate(b) /\ R2 = R
                /\ b \notin U /\ U2 = U \cup {b}
                /\ s2 = s - 1 /\ d2 = d
             \/ /\ IsCreate(b) /\ R2 = R
                /\ b \in U /\ U2 = U \ {b}
                /\ s2 = s + 1 /\ d2 = d
             \/ /\ ~IsCreate(b) /\ U2 = U
                /\ b \notin R /\ R2 = R \cup {b}
                /\ s2 = s + 1 /\ d2 = d
             \/ /\ ~IsCreate(b) /\ U2 = U
                /\ b \in R /\ R2 = R \ {b}
                /\ s2 = s - 1 /\ d2 = d
  <2>1. /\ d2 = d
        /\ \A c \in Batches : c # b => (Waiting(c, r)' <=> Waiting(c, r))
        /\ \/ s2 = s /\ (Waiting(b, r)' <=> Waiting(b, r))
           \/ s2 = s + Delta(b) /\ ~Waiting(b, r) /\ Waiting(b, r)'
           \/ s2 = s - Delta(b) /\ Waiting(b, r) /\ ~Waiting(b, r)'
    BY <1>1, <1>c, <1>p, RequestCounts
  <2>2. /\ U2 = IF IsCreate(b)
                  THEN IF Waiting(b, r)' THEN U \cup {b} ELSE U \ {b}
                  ELSE U
        /\ R2 = IF IsCreate(b) THEN R
                  ELSE IF Waiting(b, r)' THEN R \cup {b} ELSE R \ {b}
        /\ b \in U <=> IsCreate(b) /\ Waiting(b, r)
        /\ b \in R <=> ~IsCreate(b) /\ Waiting(b, r)
    BY <1>a, <1>p, <2>1, WaitingAfter
  <2>3. PICK w \in BOOLEAN, w2 \in BOOLEAN :
          (w <=> Waiting(b, r)) /\ (w2 <=> Waiting(b, r)')
    OBVIOUS
  <2>4. /\ Delta(b) = IF IsCreate(b) THEN -1 ELSE 1
        /\ s + (-1) = s - 1 /\ s - (-1) = s + 1
    BY <1>p DEF Delta, IsCreate
  <2>5. CASE IsCreate(b)
    BY <2>1, <2>2, <2>3, <2>4, <2>5
  <2>6. CASE ~IsCreate(b)
    BY <2>1, <2>2, <2>3, <2>4, <2>6
  <2>7. QED
    BY <2>5, <2>6
<1>2. ASSUME WorkerNext, UNCHANGED apiVars
      PROVE  \/ /\ U2 = U /\ R2 = R
                /\ s2 = s /\ d2 = d
             \/ \E b \in Batches :
                  \/ /\ IsCreate(b) /\ R2 = R
                     /\ b \in U /\ U2 = U \ {b}
                     /\ s2 = s /\ d2 = d + 1
                  \/ /\ ~IsCreate(b) /\ U2 = U
                     /\ b \in R /\ R2 = R \ {b}
                     /\ s2 = s /\ d2 = d - 1
  <2>1. /\ s2 = s
        /\ \/ /\ d2 = d
              /\ \A c \in Batches : Waiting(c, r)' <=> Waiting(c, r)
           \/ \E b \in Batches :
                /\ d2 = IF IsCreate(b) THEN d + 1 ELSE d - 1
                /\ Waiting(b, r) /\ ~Waiting(b, r)'
                /\ \A c \in Batches : c # b =>
                     (Waiting(c, r)' <=> Waiting(c, r))
    BY <1>2, <1>c, <1>p, SettleCounts
  <2>2. CASE d2 = d /\ \A c \in Batches : Waiting(c, r)' <=> Waiting(c, r)
    <3>1. ASSUME Batches # {} PROVE U2 = U /\ R2 = R
      <4>1. PICK b \in Batches : TRUE
        BY <3>1
      <4>2. /\ U2 = IF IsCreate(b)
                       THEN IF Waiting(b, r)' THEN U \cup {b} ELSE U \ {b}
                       ELSE U
            /\ R2 = IF IsCreate(b) THEN R
                       ELSE IF Waiting(b, r)' THEN R \cup {b} ELSE R \ {b}
            /\ b \in U <=> IsCreate(b) /\ Waiting(b, r)
            /\ b \in R <=> ~IsCreate(b) /\ Waiting(b, r)
        BY <1>a, <1>p, <2>2, WaitingAfter
      <4>3. QED
        BY <2>2, <4>2
    <3>2. ASSUME Batches = {} PROVE U2 = U /\ R2 = R
      BY <1>p, <3>2 DEF Unseated, Unreleased
    <3>3. QED
      BY <2>1, <2>2, <3>1, <3>2
  <2>3. ASSUME NEW b \in Batches,
               d2 = IF IsCreate(b) THEN d + 1 ELSE d - 1,
               Waiting(b, r), ~Waiting(b, r)',
               \A c \in Batches : c # b => (Waiting(c, r)' <=> Waiting(c, r))
        PROVE  \/ /\ IsCreate(b) /\ R2 = R
                  /\ b \in U /\ U2 = U \ {b}
                  /\ d2 = d + 1
               \/ /\ ~IsCreate(b) /\ U2 = U
                  /\ b \in R /\ R2 = R \ {b}
                  /\ d2 = d - 1
    <3>1. /\ U2 = IF IsCreate(b)
                    THEN IF Waiting(b, r)' THEN U \cup {b} ELSE U \ {b}
                    ELSE U
          /\ R2 = IF IsCreate(b) THEN R
                    ELSE IF Waiting(b, r)' THEN R \cup {b} ELSE R \ {b}
          /\ b \in U <=> IsCreate(b) /\ Waiting(b, r)
          /\ b \in R <=> ~IsCreate(b) /\ Waiting(b, r)
      BY <1>a, <1>p, <2>3, WaitingAfter
    <3>2. QED
      BY <2>3, <3>1
  <2>4. QED
    BY <2>1, <2>2, <2>3
<1>3. ASSUME UNCHANGED vars
      PROVE  U2 = U /\ R2 = R /\ s2 = s /\ d2 = d
  BY <1>3, <1>p DEF vars, dbVars, redisVars, apiVars, Unseated, Unreleased,
                    Reserved, IsCreate, Asked
<1>4. ASSUME NEW b \in Batches, s2 \in Int,
             \/ /\ U2 = U /\ R2 = R
                /\ s2 = s /\ d2 = d
             \/ /\ IsCreate(b) /\ R2 = R
                /\ b \notin U /\ U2 = U \cup {b}
                /\ s2 = s - 1 /\ d2 = d
             \/ /\ IsCreate(b) /\ R2 = R
                /\ b \in U /\ U2 = U \ {b}
                /\ \/ s2 = s + 1 /\ d2 = d
                   \/ s2 = s /\ d2 = d + 1
             \/ /\ ~IsCreate(b) /\ U2 = U
                /\ b \notin R /\ R2 = R \cup {b}
                /\ s2 = s + 1 /\ d2 = d
             \/ /\ ~IsCreate(b) /\ U2 = U
                /\ b \in R /\ R2 = R \ {b}
                /\ \/ s2 = s - 1 /\ d2 = d
                   \/ s2 = s /\ d2 = d - 1
      PROVE  /\ IsFiniteSet(U2)
             /\ IsFiniteSet(R2)
             /\ s2 = m - d2 - Cardinality(U2) + Cardinality(R2)
  <2>t. Cardinality(U) \in Nat /\ Cardinality(R) \in Nat
    BY <1>q, FS_CardinalityType
  <2>1. CASE U2 = U /\ R2 = R /\ s2 = s /\ d2 = d
    BY <1>q, <2>1
  <2>2. CASE R2 = R /\ b \notin U /\ U2 = U \cup {b} /\ s2 = s - 1 /\ d2 = d
    <3>1. IsFiniteSet(U2) /\ Cardinality(U2) = Cardinality(U) + 1
      BY <1>q, <2>2, FS_AddElement
    <3>2. QED
      BY <1>q, <2>t, <2>2, <3>1
  <2>3. CASE U2 = U /\ b \notin R /\ R2 = R \cup {b} /\ s2 = s + 1 /\ d2 = d
    <3>1. IsFiniteSet(R2) /\ Cardinality(R2) = Cardinality(R) + 1
      BY <1>q, <2>3, FS_AddElement
    <3>2. QED
      BY <1>q, <2>t, <2>3, <3>1
  <2>4. CASE /\ U2 = U /\ b \in R /\ R2 = R \ {b}
             /\ \/ s2 = s - 1 /\ d2 = d
                \/ s2 = s /\ d2 = d - 1
    <3>1. IsFiniteSet(R2) /\ Cardinality(R2) = Cardinality(R) - 1
      BY <1>q, <2>4, FS_RemoveElement
    <3>2. QED
      BY <1>q, <2>t, <2>4, <3>1
  <2>5. CASE /\ R2 = R /\ b \in U /\ U2 = U \ {b}
             /\ \/ s2 = s + 1 /\ d2 = d
                \/ s2 = s /\ d2 = d + 1
    <3>1. IsFiniteSet(U2) /\ Cardinality(U2) = Cardinality(U) - 1
      BY <1>q, <2>5, FS_RemoveElement
    <3>2. CASE s2 = s + 1 /\ d2 = d
      BY <1>q, <2>t, <2>5, <3>1, <3>2
    <3>3. CASE s2 = s /\ d2 = d + 1
      BY <1>q, <2>t, <2>5, <3>1, <3>3
    <3>4. QED
      BY <2>5, <3>2, <3>3
  <2>6. QED
    BY <1>4, <2>1, <2>2, <2>3, <2>4, <2>5
<1>5. /\ IsFiniteSet(U2)
      /\ IsFiniteSet(R2)
      /\ s2 = m - d2 - Cardinality(U2) + Cardinality(R2)
  <2>1. ASSUME NEW b \in Batches, RequestStep(b) \/ ApiCrash(b)
        PROVE  /\ IsFiniteSet(U2)
               /\ IsFiniteSet(R2)
               /\ s2 = m - d2 - Cardinality(U2) + Cardinality(R2)
    <3>1. s2 \in Int
      BY <1>1, <1>q, <2>1
    <3>2. QED
      BY <1>1, <1>4, <2>1, <3>1
  <2>2. ASSUME U2 = U, R2 = R, s2 = s, d2 = d
        PROVE  /\ IsFiniteSet(U2)
               /\ IsFiniteSet(R2)
               /\ s2 = m - d2 - Cardinality(U2) + Cardinality(R2)
    BY <1>q, <2>2
  <2>3. ASSUME WorkerNext, UNCHANGED apiVars
        PROVE  /\ IsFiniteSet(U2)
               /\ IsFiniteSet(R2)
               /\ s2 = m - d2 - Cardinality(U2) + Cardinality(R2)
    <3>1. ASSUME NEW b \in Batches,
                 \/ /\ IsCreate(b) /\ R2 = R
                    /\ b \in U /\ U2 = U \ {b}
                    /\ s2 = s /\ d2 = d + 1
                 \/ /\ ~IsCreate(b) /\ U2 = U
                    /\ b \in R /\ R2 = R \ {b}
                    /\ s2 = s /\ d2 = d - 1
          PROVE  /\ IsFiniteSet(U2)
                 /\ IsFiniteSet(R2)
                 /\ s2 = m - d2 - Cardinality(U2) + Cardinality(R2)
      <4>1. s2 \in Int
        BY <1>q, <3>1
      <4>2. QED
        BY <1>4, <3>1, <4>1
    <3>2. QED
      BY <1>2, <2>2, <2>3, <3>1
  <2>4. QED
    BY <1>3, <2>1, <2>2, <2>3 DEF Next, ApiNext
<1>6. QED
  BY <1>5, <1>p

\* Redis before a prewarmed session.
LEMMA AccountInit ==
    ASSUME Prewarmed, Init
    PROVE  AccountInv
<1>1. /\ slots = [r \in Rows |-> SlMax[r]]
      /\ lookup = Codes
      /\ slDk = [r \in Rows |-> 0]
      /\ \A b \in Batches : /\ req[b] = "idle"
                            /\ batch[b] = "NONE"
                            /\ \A r \in Rows : item[b][r] = "NONE"
  BY DEF Init, StoreInit, ApiInit
<1>2. \A r \in Rows : SlMax[r] \in Nat
  BY StoreAssumption
<1>3. CountersLive
  BY <1>1, <1>2 DEF CountersLive
<1>4. ReservationsNoted
  <2>1. \A b \in Batches : Untouched(b)
    BY DEF Init, StoreInit, WorkerInit, Idle, Untouched, Busy
  <2>2. QED
    BY <1>1, <2>1 DEF ReservationsNoted
<1>5. SlotsCounted
  <2>1. \A r \in Rows : Unseated(r) = {} /\ Unreleased(r) = {}
    BY <1>1 DEF Unseated, Unreleased, Reserved
  <2>2. IsFiniteSet({}) /\ Cardinality({}) = 0
    BY FS_EmptySet
  <2>3. \A r \in Rows : slots[r] = SlMax[r] - slDk[r] - 0 + 0
    BY <1>1, <1>2
  <2>4. QED
    BY <2>1, <2>2, <2>3 DEF SlotsCounted
<1>6. QED
  BY <1>3, <1>4, <1>5 DEF AccountInv

\* The slot counter accounts for every reservation: in a session that starts
\* prewarmed, while the only faults are statements and publishes that fail
\* without a trace, the counter of a row is the free seats of the DB less the
\* reservations that have no seat and plus the seats given back too early,
\* whatever order requests, rollbacks, handlers and retries run in.
THEOREM SlotsAccounted ==
    ASSUME Prewarmed, Orderly
    PROVE  Spec => []SlotsAccountForReservations
<1>1. Init => AccountInv
  BY AccountInit
<1>2. SeatInv /\ AccountInv /\ [Next]_vars => AccountInv'
  <2> SUFFICES ASSUME SeatInv, AccountInv, [Next]_vars
               PROVE  AccountInv'
    OBVIOUS
  <2>1. /\ TypeOK /\ SettledInv /\ NoBatchYet
        /\ Calm => TodoIsPending /\ SourcesGranted
    BY DEF SeatInv, BaseInv, OnceInv, WaitInv
  <2>2. CountersLive /\ CountersLive'
    BY <2>1, CountersStayLive DEF AccountInv
  <2>3. ASSUME Accountable'
        PROVE  ReservationsNoted' /\ SlotsCounted'
    <3>1. Accountable /\ Calm
      BY <2>1, <2>3, FaultsBefore, AccountableIsCalm
    <3>2. ReservationsNoted /\ SlotsCounted
      BY <3>1 DEF AccountInv
    <3>3. QED
      BY <2>1, <2>2, <2>3, <3>1, <3>2, ReservationsStayNoted, SlotsStayCounted
  <2>4. QED
    BY <2>2, <2>3 DEF AccountInv
<1>3. AccountInv => SlotsAccountForReservations
  BY DEF AccountInv, Accountable, SlotsCounted, SlotsAccountForReservations
<1>4. QED
  BY <1>1, <1>2, <1>3, SeatAlways, PTL DEF Spec
=============================================================================
