------------------------- MODULE RegistrationCache -------------------------
(***************************************************************************)
(* The registration pipeline together with the scheduler: the slot         *)
(* counters may now expire, be refilled, healed and reconciled while       *)
(* requests reserve seats from them and workers settle batches.            *)
(***************************************************************************)
EXTENDS Registration, SlotScheduler

cacheVars == <<vars, schedulerVars>>

CacheInit == Init /\ SchedulerInit

CacheNext ==
    \/ Next /\ UNCHANGED schedulerVars
    \/ SchedulerNext /\ UNCHANGED <<apiVars, workerVars>>

CacheSpec == CacheInit /\ [][CacheNext]_cacheVars

(***************************************************************************)
(* The fairness of the pipeline, and a cron that keeps firing: every       *)
(* minute for the heal job, every ten for reconcile.                       *)
(***************************************************************************)
CacheFairness ==
    /\ WF_cacheVars(\E d \in Deliveries :
          (Deliver(d) \/ DeliveryStep(d)) /\ UNCHANGED <<apiVars, schedulerVars>>)
    /\ \A b \in Batches :
          WF_cacheVars(RequestStep(b) /\ UNCHANGED <<workerVars, schedulerVars>>)
    /\ \A j \in Jobs :
          WF_cacheVars(JobStep(j) /\ UNCHANGED <<apiVars, workerVars>>)

FairCacheSpec == CacheSpec /\ CacheFairness

----------------------------------------------------------------------------

\* The variables of the composition hold values of their types.
CacheTypeOK == TypeOK /\ SchedulerTypeOK

\* Redis only fails fast, PostgreSQL decides: whatever expiry, refill, heal
\* and reconcile do to the counters, the seats taken in the DB stay exactly
\* the seats of registered students and within sl_max.
SeatsIndependentOfCache == SeatsMatchHolders /\ HoldersWithinCapacity

\* Reconcile repairs every drift: leaked reservations, lost decrements, keys
\* recreated by a DECRBY and stale refills.  Once the last request is over
\* the counters settle on the free seats of the DB, and stay there.
CountersConverge == <>[](\A r \in Rows : slots[r] = Free(r))

\* Resolving a code does not overwrite a live slot counter (the comment on
\* the write-back of resolveSectionCodes).  The code does not keep this: no
\* run checks it, and README.md, section 3, shows how to see it fail.
LookupKeepsLiveCounter ==
    [][\A b \in Batches, r \in Rows :
         req[b] = "fill" /\ req'[b] # "fill" /\ Cached(r)
           => slots'[r] = slots[r]]_cacheVars
=============================================================================
