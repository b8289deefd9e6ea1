--------------------------- MODULE SlotScheduler ---------------------------
(***************************************************************************)
(* The scheduler process and the life of the Redis keys it looks after.    *)
(*                                                                         *)
(* Each of its two jobs runs at most once at a time (isRunning,            *)
(* isReconciling) and holds what it read from the DB across the awaits     *)
(* until its pipeline overwrites the slot counters.                        *)
(***************************************************************************)
EXTENDS RegistrationStore

CONSTANTS
    Sample,       \* the row healIfNeeded tests: the first by section code
    MaxExpiries   \* how many keys expire in a behaviour

ASSUME SchedulerAssumption == Sample \in Rows /\ MaxExpiries \in Nat

VARIABLES
    job,      \* job[j]: where the run of job j is
    read,     \* read[j][r]: free seats job j read from the DB, to be SET
    expiries  \* keys expired so far

schedulerVars == <<job, read, expiries>>

Jobs == {"heal", "reconcile"}

SchedulerTypeOK ==
    /\ job \in [Jobs -> {"idle", "load", "compare", "write"}]
    /\ read \in [Jobs -> [Rows -> Nat \cup {Missing}]]
    /\ expiries \in Nat

SchedulerInit ==
    /\ job = [j \in Jobs |-> "idle"]
    /\ read = [j \in Jobs |-> NoValue]
    /\ expiries = 0

Step(j, from, to) == job[j] = from /\ job' = [job EXCEPT ![j] = to]

\* healIfNeeded: one EXISTS on the sample key decides for every key.
HealCheck ==
    /\ Step("heal", "idle", "load")
    /\ ~Cached(Sample)
    /\ UNCHANGED <<ask, dbVars, mqVars, redisVars, faults, read, expiries>>

\* cacheSections reads every row, reconcile too ...
LoadSections(j, from, to) ==
    /\ Step(j, from, to)
    /\ read' = [read EXCEPT ![j] = FreeOf(Rows)]
    /\ UNCHANGED <<ask, dbVars, mqVars, redisVars, faults, expiries>>

HealLoad      == LoadSections("heal", "load", "write")
ReconcileLoad == LoadSections("reconcile", "idle", "compare")

\* Mutant: reconcile only lowers counters that are too high.
ReconcileOnlyLowers ==
    LET differing == [r \in Rows |->
                        IF Cached(r) /\ slots[r] > read["reconcile"][r]
                          THEN read["reconcile"][r] ELSE Missing]
    IN /\ Step("reconcile", "compare",
                IF differing = NoValue THEN "idle" ELSE "write")
       /\ read' = [read EXCEPT !["reconcile"] = differing]
       /\ UNCHANGED <<ask, dbVars, mqVars, redisVars, faults, expiries>>

\* ... but reconcile only overwrites the counters MGET shows to differ.
ReconcileCompare ==
    LET differing == [r \in Rows |-> IF slots[r] = read["reconcile"][r]
                                       THEN Missing ELSE read["reconcile"][r]]
    IN /\ Step("reconcile", "compare",
                IF differing = NoValue THEN "idle" ELSE "write")
       /\ read' = [read EXCEPT !["reconcile"] = differing]
       /\ UNCHANGED <<ask, dbVars, mqVars, redisVars, faults, expiries>>

\* The job's pipeline; an error of it ends the run.
WriteSlots(j) ==
    /\ Step(j, "write", "idle")
    /\ read' = [read EXCEPT ![j] = NoValue]
    /\ \/ /\ SetSlots(read[j])
          /\ lookup' = IF j = "heal" THEN Codes ELSE lookup
          /\ UNCHANGED faults
       \/ Fault("redis") /\ UNCHANGED redisVars
    /\ UNCHANGED <<ask, dbVars, mqVars, expiries>>

\* A key with an expiry disappears; the two kinds expire independently.
Expire ==
    /\ expiries < MaxExpiries
    /\ expiries' = expiries + 1
    /\ \/ \E r \in slotTtl :
            /\ slots' = [slots EXCEPT ![r] = Missing]
            /\ slotTtl' = slotTtl \ {r}
            /\ UNCHANGED lookup
       \/ \E c \in lookup :
            /\ lookup' = lookup \ {c}
            /\ UNCHANGED <<slots, slotTtl>>
    /\ UNCHANGED <<ask, dbVars, mqVars, faults, job, read>>

JobStep(j) ==
    \/ j = "heal" /\ (HealCheck \/ HealLoad)
    \/ j = "reconcile" /\ (ReconcileLoad \/ ReconcileCompare)
    \/ WriteSlots(j)

SchedulerNext == (\E j \in Jobs : JobStep(j)) \/ Expire
=============================================================================
