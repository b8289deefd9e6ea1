------------------------- MODULE RegistrationStore -------------------------
(***************************************************************************)
(* The three stores the registration pipeline shares, and the statements   *)
(* its processes run against them:                                         *)
(*                                                                         *)
(*   PostgreSQL  class_sections.sl_dk, registration_batches and            *)
(*               registration_batch_items                                  *)
(*   RabbitMQ    the main queue and its dead-letter queue                  *)
(*   Redis       the free-seat counters and the lookup-by-code entries     *)
(*                                                                         *)
(* A process of another module takes a step by conjoining one of the       *)
(* statements below with the update of its own program counter.            *)
(***************************************************************************)
EXTENDS Integers, FiniteSets

CONSTANTS
    Students,     \* users with the student role
    Codes,        \* section codes of the current semester
    Rows,         \* class_sections rows: one per weekly meeting of a code
    Batches,      \* batch ids: one per POST accepted by the controller
    NoBatch,      \* "no source item": undefined in a message
    Missing,      \* a Redis key that does not exist
    RowsOf,       \* code |-> the rows it resolves to
    Rep,          \* code |-> the first of them, the representative
    CourseOf,     \* code |-> its course
    SlMax,        \* row |-> class_sections.sl_max
    Asks,         \* the requests clients may send
    Prewarmed,    \* TRUE: the scheduler filled Redis before the session
    MaxRetries,   \* RABBITMQ_REGISTRATION_MAX_RETRIES (6 by default)
    MaxFaults     \* fault kind |-> how many of them a behaviour contains

FaultKinds == {"db", "ambiguous", "redis", "publish", "crash", "connection",
               "dlq"}

BatchTypes == {"CREATE", "CANCEL"}

ASSUME StoreAssumption ==
    /\ NoBatch \notin Batches
    /\ Missing \notin Int
    /\ RowsOf \in [Codes -> SUBSET Rows]
    /\ Rep \in [Codes -> Rows]
    /\ \A c \in Codes : Rep[c] \in RowsOf[c]
    /\ \A c, d \in Codes : c # d => RowsOf[c] \cap RowsOf[d] = {}
    /\ SlMax \in [Rows -> Nat]
    /\ Asks \subseteq [user : Students, type : BatchTypes,
                       codes : SUBSET Codes]
    /\ Prewarmed \in BOOLEAN
    /\ MaxRetries \in Nat
    /\ MaxFaults \in [FaultKinds -> Nat]

VARIABLES
    ask,      \* ask[b]: who sends request b and what it asks for; never changes
    slDk,     \* slDk[r]: class_sections.sl_dk, seats counted as taken
    batch,    \* batch[b]: registration_batches.status, "NONE" before the insert
    item,     \* item[b][r]: status of b's item on row r, "NONE" if there is none
    payload,  \* payload[b][r]: sourceItemId b's message carries for row r
    queue,    \* queue[b][n]: copies of b's message ready with retry count n
    dlq,      \* dlq[b]: copies of b's message in the dead-letter queue
    slots,    \* slots[r]: reg:section:slots:{r}
    slotTtl,  \* rows whose slot key carries an expiry
    lookup,   \* codes whose reg:section:code key exists
    faults    \* faults[k]: faults of kind k so far

dbVars    == <<slDk, batch, item>>
mqVars    == <<payload, queue, dlq>>
redisVars == <<slots, slotTtl, lookup>>

----------------------------------------------------------------------------

BatchStatus == {"NONE", "PENDING", "COMPLETED"}
ItemStatus  == {"NONE", "PENDING", "SUCCESS", "FAILED", "CANCELLED"}

StoreTypeOK ==
    /\ ask \in [Batches -> Asks]
    /\ slDk \in [Rows -> Nat]
    /\ batch \in [Batches -> BatchStatus]
    /\ item \in [Batches -> [Rows -> ItemStatus]]
    /\ payload \in [Batches -> [Rows -> Batches \cup {NoBatch}]]
    /\ queue \in [Batches -> [0..MaxRetries -> Nat]]
    /\ dlq \in [Batches -> Nat]
    /\ slots \in [Rows -> Int \cup {Missing}]
    /\ slotTtl \subseteq Rows
    /\ lookup \subseteq Codes
    /\ faults \in [FaultKinds -> Nat]

\* Before the session nobody is registered; Redis is prewarmed or cold.
StoreInit ==
    /\ ask \in [Batches -> Asks]
    /\ slDk = [r \in Rows |-> 0]
    /\ batch = [b \in Batches |-> "NONE"]
    /\ item = [b \in Batches |-> [r \in Rows |-> "NONE"]]
    /\ payload = [b \in Batches |-> [r \in Rows |-> NoBatch]]
    /\ queue = [b \in Batches |-> [n \in 0..MaxRetries |-> 0]]
    /\ dlq = [b \in Batches |-> 0]
    /\ slots = [r \in Rows |-> IF Prewarmed THEN SlMax[r] ELSE Missing]
    /\ slotTtl = IF Prewarmed THEN Rows ELSE {}
    /\ lookup = IF Prewarmed THEN Codes ELSE {}
    /\ faults = [k \in FaultKinds |-> 0]

----------------------------------------------------------------------------
(* What the statements read.                                               *)

Asked(b) == UNION {RowsOf[c] : c \in ask[b].codes}

\* Free seats as every writer of the cache computes them from one DB row.
Free(r) == IF SlMax[r] > slDk[r] THEN SlMax[r] - slDk[r] ELSE 0

\* The CREATE item of batch b on row r is a live registration of its student.
Holds(b, r) == ask[b].type = "CREATE" /\ item[b][r] = "SUCCESS"

Holders(r) == {b \in Batches : Holds(b, r)}

\* The items findActiveRegistrationItems returns for student u on row r.
ActiveItems(u, r) == {b \in Holders(r) : ask[b].user = u}

\* Mutant: the status filter on the items to process is missing.
PendingItemsAnyStatus(b) == {r \in Rows : item[b][r] # "NONE"}

PendingItems(b) == {r \in Rows : item[b][r] = "PENDING"}

----------------------------------------------------------------------------
(* PostgreSQL.                                                             *)

InsertBatch(b) ==
    /\ batch' = [batch EXCEPT ![b] = "PENDING"]
    /\ item' = [item EXCEPT ![b] =
                   [r \in Rows |-> IF r \in Asked(b) THEN "PENDING" ELSE "NONE"]]
    /\ UNCHANGED slDk

\* Mutant: the WHERE clause on the capacity is missing, or off by one.
AcquireUnguarded(b, r) ==
    /\ slDk' = [slDk EXCEPT ![r] = @ + 1]
    /\ item' = [item EXCEPT ![b][r] = "SUCCESS"]
    /\ UNCHANGED batch

AcquireOneTooMany(b, r) == slDk[r] <= SlMax[r] /\ AcquireUnguarded(b, r)

\* One statement: take a seat if there is one and mark the item with it.
AcquireSlotAndMarkSuccess(b, r) ==
    /\ slDk[r] < SlMax[r]
    /\ slDk' = [slDk EXCEPT ![r] = @ + 1]
    /\ item' = [item EXCEPT ![b][r] = "SUCCESS"]
    /\ UNCHANGED batch

\* Mutant: the source of a cancellation stays SUCCESS.
ReleaseKeepsSource(b, r, src) ==
    /\ slDk' = [slDk EXCEPT ![r] = IF @ > 0 THEN @ - 1 ELSE 0]
    /\ item' = [item EXCEPT ![b][r] = "SUCCESS"]
    /\ UNCHANGED batch

\* One statement: give the seat back, cancel the source, settle the item.
ReleaseSlotAndMarkItems(b, r, src) ==
    /\ slDk' = [slDk EXCEPT ![r] = IF @ > 0 THEN @ - 1 ELSE 0]
    /\ item' = [item EXCEPT ![src][r] = "CANCELLED", ![b][r] = "SUCCESS"]
    /\ UNCHANGED batch

\* Mutant: the update matches no row.
MarkItemFailedNowhere(b, r) == UNCHANGED dbVars

MarkItemFailed(b, r) ==
    /\ item' = [item EXCEPT ![b][r] = "FAILED"]
    /\ UNCHANGED <<slDk, batch>>

\* Mutant: a status the enum does not have.
MarkBatchSuccess(b) ==
    /\ batch' = [batch EXCEPT ![b] = "SUCCESS"]
    /\ UNCHANGED <<slDk, item>>

MarkBatchCompleted(b) ==
    /\ batch' = [batch EXCEPT ![b] = "COMPLETED"]
    /\ UNCHANGED <<slDk, item>>

\* Mutants: a status the enum does not have; the items are left alone.
MarkBatchStatusFailed(b) ==
    /\ batch' = [batch EXCEPT ![b] = "FAILED"]
    /\ item' = [item EXCEPT ![b] =
                   [r \in Rows |-> IF item[b][r] = "PENDING" THEN "FAILED"
                                                             ELSE item[b][r]]]
    /\ UNCHANGED slDk

MarkBatchFailedWithoutItems(b) ==
    /\ batch' = [batch EXCEPT ![b] = "COMPLETED"]
    /\ UNCHANGED <<slDk, item>>

\* The dead-letter consumer's transaction.
MarkBatchFailed(b) ==
    /\ batch' = [batch EXCEPT ![b] = "COMPLETED"]
    /\ item' = [item EXCEPT ![b] =
                   [r \in Rows |-> IF item[b][r] = "PENDING" THEN "FAILED"
                                                             ELSE item[b][r]]]
    /\ UNCHANGED slDk

----------------------------------------------------------------------------
(* RabbitMQ: what happens to one copy of a message.                        *)

Enqueue(b, n) == queue' = [queue EXCEPT ![b][n] = @ + 1]

Dequeue(b, n) ==
    /\ queue[b][n] > 0
    /\ queue' = [queue EXCEPT ![b][n] = @ - 1]

----------------------------------------------------------------------------
(* Redis.                                                                  *)

Cached(r) == slots[r] # Missing

\* A pipeline of DECRBY / INCRBY: a missing key counts from 0, without expiry.
AdjustSlots(R, delta) ==
    /\ slots' = [r \in Rows |->
                    IF r \notin R THEN slots[r]
                    ELSE IF Cached(r) THEN slots[r] + delta ELSE delta]
    /\ UNCHANGED <<slotTtl, lookup>>

\* A pipeline of SET ... EX: the rows whose value is known are overwritten.
SetSlots(value) ==
    LET R == {r \in Rows : value[r] # Missing} IN
    /\ slots' = [r \in Rows |-> IF r \in R THEN value[r] ELSE slots[r]]
    /\ slotTtl' = slotTtl \cup R

FreeOf(R) == [r \in Rows |-> IF r \in R THEN Free(r) ELSE Missing]
NoValue   == FreeOf({})

----------------------------------------------------------------------------
(* The environment: every fault comes out of a budget.                     *)

Fault(k) ==
    /\ faults[k] < MaxFaults[k]
    /\ faults' = [faults EXCEPT ![k] = @ + 1]
=============================================================================
