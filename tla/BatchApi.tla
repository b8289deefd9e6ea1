----------------------------- MODULE BatchApi ------------------------------
(***************************************************************************)
(* RegistrationsService.createBatch and cancelBatch: what the API process  *)
(* does between accepting a request and answering it.  Request b is the    *)
(* call whose randomUUID is b.  Every await that reads or writes a store   *)
(* ends a step, so the requests of one student interleave as they do       *)
(* across the three instances of the API.                                  *)
(*                                                                         *)
(*   CREATE  idle -> resolve (-> fill) -> capacity (-> refill) -> active   *)
(*           -> reserve -> insert (-> rollback) -> publish -> done         *)
(*   CANCEL  idle (-> fill) -> active -> pending                           *)
(*           -> reserve -> insert (-> rollback) -> publish -> done         *)
(***************************************************************************)
EXTENDS RegistrationStore

(***************************************************************************)
(* How much a student sends at once, which is the client's choice:         *)
(*   "free"     requests overlap (two tabs, a double click, a script)      *)
(*   "serial"   the next request waits for the answer to the last          *)
(*   "polling"  ... and for its batch to be COMPLETED, as the frontend     *)
(*              that polls GET /registrations/batches/:batchId does        *)
(***************************************************************************)
CONSTANT Clients

ASSUME ApiAssumption == Clients \in {"free", "serial", "polling"}

VARIABLES
    req,    \* req[b]: where request b is
    seen    \* seen[b][r]: free seats of row r read from the DB, not yet SET

apiVars == <<req, seen>>

Answered == {"done", "rejected", "error"}
ReqPoints == {"idle", "resolve", "fill", "capacity", "refill", "refillFull",
              "active", "pending", "reserve", "insert", "rollback", "publish"}
             \cup Answered

ApiTypeOK ==
    /\ req \in [Batches -> ReqPoints]
    /\ seen \in [Batches -> [Rows -> Nat \cup {Missing}]]

ApiInit ==
    /\ req = [b \in Batches |-> "idle"]
    /\ seen = [b \in Batches |-> NoValue]

Move(b, p)  == req' = [req EXCEPT ![b] = p]
IsCreate(b) == ask[b].type = "CREATE"

MayStart(b) ==
    /\ req[b] = "idle"
    /\ \A c \in Batches : ask[c].user = ask[b].user =>
         /\ Clients # "free"   => req[c] \in Answered \cup {"idle"}
         /\ Clients = "polling" => batch[c] # "PENDING"

PendingBatches(u, types) ==
    {b \in Batches : /\ batch[b] = "PENDING"
                     /\ ask[b].user = u
                     /\ ask[b].type \in types}

\* An error the service does not catch: the answer is a 500.
Throw(b) == Move(b, "error") /\ UNCHANGED seen

----------------------------------------------------------------------------
(* Validation.                                                             *)

\* Mutant: CREATE does not look for a pending batch.
CheckNoPendingOnlyCancel(b) ==
    /\ IF IsCreate(b)
         THEN MayStart(b) /\ Move(b, "resolve")
         ELSE /\ req[b] = "pending"
              /\ Move(b, IF PendingBatches(ask[b].user, {"CANCEL"}) = {}
                           THEN "reserve" ELSE "rejected")
    /\ UNCHANGED <<ask, dbVars, mqVars, redisVars, faults, seen>>

\* assertNoPendingBatch: a plain read, any type for CREATE, CANCEL for CANCEL.
CheckNoPending(b) ==
    /\ IF IsCreate(b)
         THEN /\ MayStart(b)
              /\ Move(b, IF PendingBatches(ask[b].user, BatchTypes) = {}
                           THEN "resolve" ELSE "rejected")
         ELSE /\ req[b] = "pending"
              /\ Move(b, IF PendingBatches(ask[b].user, {"CANCEL"}) = {}
                           THEN "reserve" ELSE "rejected")
    /\ UNCHANGED <<ask, dbVars, mqVars, redisVars, faults, seen>>

AfterResolve(b) == IF IsCreate(b) THEN "capacity" ELSE "active"

\* resolveSectionCodes: the codes without a lookup entry are read from the
\* DB; a GET that fails counts as a miss.
Resolve(b) ==
    /\ IF IsCreate(b) THEN req[b] = "resolve" ELSE MayStart(b)
    /\ \E missed \in SUBSET ask[b].codes :
         /\ \/ missed = ask[b].codes \ lookup /\ UNCHANGED faults
            \/ missed = ask[b].codes /\ Fault("redis")
         /\ Move(b, IF missed = {} THEN AfterResolve(b) ELSE "fill")
         /\ seen' = [seen EXCEPT ![b] = FreeOf(UNION {RowsOf[c] : c \in missed})]
    /\ UNCHANGED <<ask, dbVars, mqVars, redisVars>>

\* writeSectionLookupCaches: also SETs the slot counters of those rows; an
\* error of the pipeline is only logged.
FillLookup(b) ==
    /\ req[b] = "fill"
    /\ Move(b, AfterResolve(b))
    /\ seen' = [seen EXCEPT ![b] = NoValue]
    /\ \/ /\ SetSlots(seen[b])
          /\ lookup' = lookup \cup {c \in ask[b].codes : seen[b][Rep[c]] # Missing}
          /\ UNCHANGED faults
       \/ Fault("redis") /\ UNCHANGED redisVars
    /\ UNCHANGED <<ask, dbVars, mqVars>>

\* assertSectionsHaveCapacityRedisFirst: MGET, then the DB for what it missed.
\* A section that is cancelled or closed is refused before that.
CheckCapacity(b) ==
    LET missed == {r \in Asked(b) : ~Cached(r)}
        full   == {r \in Asked(b) \ missed : slots[r] <= 0}
    IN /\ req[b] = "capacity"
       /\ \/ /\ UNCHANGED faults
             /\ \/ Move(b, "rejected") /\ UNCHANGED seen
                \/ /\ missed # {}
                   /\ Move(b, IF full = {} THEN "refill" ELSE "refillFull")
                   /\ seen' = [seen EXCEPT ![b] = FreeOf(missed)]
                \/ /\ missed = {}
                   /\ Move(b, IF full = {} THEN "active" ELSE "rejected")
                   /\ UNCHANGED seen
          \/ Fault("redis") /\ Throw(b)
       /\ UNCHANGED <<ask, dbVars, mqVars, redisVars>>

RefillSlots(b) ==
    /\ req[b] \in {"refill", "refillFull"}
    /\ Move(b, IF req[b] = "refill" /\ \A r \in Rows : seen[b][r] # 0
                 THEN "active" ELSE "rejected")
    /\ seen' = [seen EXCEPT ![b] = NoValue]
    /\ \/ SetSlots(seen[b]) /\ UNCHANGED faults
       \/ Fault("redis") /\ UNCHANGED <<slots, slotTtl>>
    /\ UNCHANGED <<ask, dbVars, mqVars, lookup>>

\* Mutant: only the representative row of a code counts as a registration.
ActiveCoursesByRep(u) ==
    {CourseOf[c] : c \in {d \in Codes : ActiveItems(u, Rep[d]) # {}}}

\* The courses of the codes student u has an active row of.
ActiveCourses(u) ==
    {CourseOf[c] : c \in {d \in Codes :
                            \E r \in RowsOf[d] : ActiveItems(u, r) # {}}}

\* createBatch, steps 8-12.  The checks on the section's status, the lab
\* pair, the timetable and the credits may reject any request.
ReadActiveForCreate(b) ==
    /\ req[b] = "active"
    /\ IsCreate(b)
    /\ \/ /\ {CourseOf[c] : c \in ask[b].codes} \cap ActiveCourses(ask[b].user)
               = {}
          /\ Move(b, "reserve")
       \/ Move(b, "rejected")
    /\ UNCHANGED <<ask, dbVars, mqVars, redisVars, faults, seen>>

\* cancelBatch: the source of each row is one of its active items (which of
\* them, when a race left two, is the order of their timestamps); only the
\* representative row of a code has to be active.
ReadActiveForCancel(b) ==
    LET active(r) == IF r \in Asked(b) THEN ActiveItems(ask[b].user, r) ELSE {}
    IN /\ req[b] = "active"
       /\ ~IsCreate(b)
       /\ \/ /\ \E c \in ask[b].codes : active(Rep[c]) = {}
             /\ Move(b, "rejected")
             /\ UNCHANGED payload
          \/ /\ \A c \in ask[b].codes : active(Rep[c]) # {}
             /\ Move(b, "pending")
             /\ \E src \in [Rows -> Batches \cup {NoBatch}] :
                  /\ \A r \in Rows : IF active(r) = {} THEN src[r] = NoBatch
                                     ELSE src[r] \in active(r)
                  /\ payload' = [payload EXCEPT ![b] = src]
       /\ UNCHANGED <<ask, dbVars, queue, dlq, redisVars, faults, seen>>

----------------------------------------------------------------------------
(* Reserve, insert, publish.                                               *)

\* Mutant: CANCEL decrements too.
DeltaDecrement(b) == -1

Delta(b) == IF IsCreate(b) THEN -1 ELSE 1

\* The pre-decrement (pre-increment for CANCEL); an error is only logged.
ReserveSlots(b) ==
    /\ req[b] = "reserve"
    /\ Move(b, "insert")
    /\ \/ AdjustSlots(Asked(b), Delta(b)) /\ UNCHANGED faults
       \/ Fault("redis") /\ UNCHANGED redisVars
    /\ UNCHANGED <<ask, dbVars, mqVars, seen>>

\* One nested write.  When it fails, the catch block cannot tell whether the
\* database committed it.
InsertBatchRows(b) ==
    /\ req[b] = "insert"
    /\ \/ InsertBatch(b) /\ Move(b, "publish") /\ UNCHANGED faults
       \/ UNCHANGED dbVars /\ Move(b, "rollback") /\ Fault("db")
       \/ InsertBatch(b) /\ Move(b, "rollback") /\ Fault("ambiguous")
    /\ UNCHANGED <<ask, mqVars, redisVars, seen>>

\* Mutant: the rollback repeats the reservation instead of undoing it.
RollbackSameSign(b) ==
    /\ req[b] = "rollback"
    /\ Throw(b)
    /\ \/ AdjustSlots(Asked(b), Delta(b)) /\ UNCHANGED faults
       \/ Fault("redis") /\ UNCHANGED redisVars
    /\ UNCHANGED <<ask, dbVars, mqVars>>

RollbackSlots(b) ==
    /\ req[b] = "rollback"
    /\ Throw(b)
    /\ \/ AdjustSlots(Asked(b), -Delta(b)) /\ UNCHANGED faults
       \/ Fault("redis") /\ UNCHANGED redisVars
    /\ UNCHANGED <<ask, dbVars, mqVars>>

\* publishToQueue on the confirm channel.  It throws when the confirm does
\* not come in time: the message may or may not have reached the queue.
Publish(b) ==
    /\ req[b] = "publish"
    /\ \/ Enqueue(b, 0) /\ Move(b, "done") /\ UNCHANGED faults
       \/ Enqueue(b, 0) /\ Move(b, "error") /\ Fault("publish")
       \/ UNCHANGED queue /\ Move(b, "error") /\ Fault("publish")
    /\ UNCHANGED <<ask, payload, dlq, dbVars, redisVars, seen>>

\* The API process stops: the client sees the connection close.
ApiCrash(b) ==
    /\ req[b] \notin Answered \cup {"idle"}
    /\ Fault("crash")
    /\ Move(b, "error")
    /\ seen' = [seen EXCEPT ![b] = NoValue]
    /\ UNCHANGED <<ask, dbVars, mqVars, redisVars>>

----------------------------------------------------------------------------

RequestStep(b) ==
    \/ CheckNoPending(b)
    \/ Resolve(b)
    \/ FillLookup(b)
    \/ CheckCapacity(b)
    \/ RefillSlots(b)
    \/ ReadActiveForCreate(b)
    \/ ReadActiveForCancel(b)
    \/ ReserveSlots(b)
    \/ InsertBatchRows(b)
    \/ RollbackSlots(b)
    \/ Publish(b)

ApiNext == \E b \in Batches : RequestStep(b) \/ ApiCrash(b)
=============================================================================
