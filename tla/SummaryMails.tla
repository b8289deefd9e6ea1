---------------------------- MODULE SummaryMails ----------------------------
(***************************************************************************)
(* Summary mails: RegistrationNotificationCron and -Service.  Every minute *)
(* the job scans the COMPLETED batches nobody was told about, and mails    *)
(* each student whose slot is over one summary of them, while the workers  *)
(* go on settling batches.                                                 *)
(*                                                                         *)
(* One action per awaited call of the job.  A batch has one item, of one   *)
(* section; the semester is one; the slots do not change.                  *)
(***************************************************************************)
EXTENDS SlotWindows, FiniteSets

CONSTANTS
  Students,
  Batches,        \* the accepted batches
  Owner,          \* Owner[b]: the student of b
  Cancels,        \* the batches that are of type CANCEL
  Section,        \* Section[b]: the section of b's item
  SlotsOfStudent, \* SlotsOfStudent[u]: the slots that cover u's code
  Runs,           \* firings of the cron job, some perhaps at once
  MaxRetries,     \* maxRetries
  ScanLimit,      \* scanLimit
  Times,          \* bound: the instants the clock shows
  MaxFaults       \* bound: failed calls and crashes

ASSUME MailsAssumption ==
  /\ MaxRetries \in Nat \ {0} /\ ScanLimit \in Nat \ {0}
  /\ Times \subseteq Instant
  /\ \A u \in Students : SlotsOfStudent[u] \subseteq Slot

VARIABLES
  item,       \* item[b]: status of b's item
  done,       \* the COMPLETED batches, by processedAt
  notice,     \* notice[b]: notificationStatus
  retries,    \* retries[b]: notificationRetryCount
  isRunning,  \* the flag of the cron class
  run,        \* run[r]: where firing r stands
  mails,      \* the mails delivered, oldest first
  now,
  faults      \* how many calls failed or crashes happened

batchVars == <<item, done, notice, retries>>
vars == <<batchVars, isRunning, run, mails, now, faults>>

Idle == [at |-> "idle"]
At(r, step) == run[r].at = step
Go(r, state) == run' = [run EXCEPT ![r] = state]

----------------------------------------------------------------------------
(* The worker: an item is settled, then its batch is marked COMPLETED.     *)
Sources(b) ==
  {c \in Batches \ Cancels :
     Owner[c] = Owner[b] /\ Section[c] = Section[b] /\ item[c] = "SUCCESS"}

Settle(b) ==
  /\ item[b] = "PENDING"
  /\ \/ item' = [item EXCEPT ![b] = "FAILED"]
     \/ b \notin Cancels /\ item' = [item EXCEPT ![b] = "SUCCESS"]
     \/ /\ b \in Cancels
        /\ \E c \in Sources(b) : item' = [item EXCEPT ![b] = "SUCCESS", ![c] = "CANCELLED"]
  /\ UNCHANGED <<done, notice, retries, isRunning, run, mails, now, faults>>

Completed(b) == \E i \in DOMAIN done : done[i] = b

Complete(b) ==
  /\ item[b] # "PENDING" /\ ~ Completed(b)
  /\ done' = Append(done, b)
  /\ UNCHANGED <<item, notice, retries, isRunning, run, mails, now, faults>>

----------------------------------------------------------------------------
(* The job.                                                                *)

(* The filter of findPendingBatches and of findAllUnsentBatchIds. *)
Unsent(b) == notice[b] \in {"PENDING", "FAILED"} /\ retries[b] < MaxRetries

FirstOf(seq, n) == SubSeq(seq, 1, IF Len(seq) < n THEN Len(seq) ELSE n)

(* groupPendingBatches: the students, in the order of their first batch.   *)
StudentsOf(batches) ==
  LET owners == [i \in DOMAIN batches |-> Owner[batches[i]]]
      first(i) == \A j \in 1 .. i - 1 : owners[j] # owners[i]
      picked == {i \in DOMAIN owners : first(i)}
  IN  [n \in 1 .. Cardinality(picked) |->
         owners[CHOOSE i \in picked : Cardinality({j \in picked : j <= i}) = n]]

\* Mutant: firings may overlap.
FireAlways(r) ==
  /\ At(r, "idle") /\ \A q \in Runs : q < r => ~ At(q, "idle")
  /\ isRunning' = TRUE
  /\ Go(r, [at |-> "scan"])
  /\ UNCHANGED <<batchVars, mails, now, faults>>

(* The cron fires; a firing while another works is skipped.  Firings are   *)
(* numbered so that the first free one starts.                             *)
Fire(r) ==
  /\ At(r, "idle") /\ \A q \in Runs : q < r => ~ At(q, "idle")
  /\ ~ isRunning
  /\ isRunning' = TRUE
  /\ Go(r, [at |-> "scan"])
  /\ UNCHANGED <<batchVars, mails, now, faults>>

\* Mutant: the flag is not reset.
OverFlagged(r) == Go(r, Idle) /\ UNCHANGED isRunning

(* The run ends, by return or by an exception, in `finally'. *)
Over(r) == Go(r, Idle) /\ isRunning' = FALSE
(* The next group, or the end of sendPendingSummaries. *)
Rest(r, groups) ==
  IF groups = << >> THEN Over(r)
  ELSE Go(r, [at |-> "slot", groups |-> groups]) /\ UNCHANGED isRunning

(* findPendingBatches: oldest first, up to the limit. *)
Scan(r) ==
  /\ At(r, "scan")
  /\ Rest(r, StudentsOf(FirstOf(SelectSeq(done, Unsent), ScanLimit)))
  /\ UNCHANGED <<batchVars, mails, now, faults>>

Student(r) == Head(run[r].groups)
Later(r) == Tail(run[r].groups)

(* findClosedSlot *)
FindSlot(r) ==
  /\ At(r, "slot")
  /\ IF \E s \in SlotsOfStudent[Student(r)] : OutsideCurrentWindow(s, now)
     THEN Go(r, [run[r] EXCEPT !.at = "ids"]) /\ UNCHANGED isRunning
     ELSE Rest(r, Later(r))
  /\ UNCHANGED <<batchVars, mails, now, faults>>

(* findAllUnsentBatchIds: also batches completed since the scan, or beyond *)
(* its limit.                                                              *)
FindIds(r) ==
  /\ At(r, "ids")
  /\ LET ids == {b \in Batches : Completed(b) /\ Owner[b] = Student(r) /\ Unsent(b)}
     IN  IF ids = {} THEN Rest(r, Later(r))
         ELSE /\ Go(r, [at |-> "build", groups |-> run[r].groups, ids |-> ids, mail |-> << >>])
              /\ UNCHANGED isRunning
  /\ UNCHANGED <<batchVars, mails, now, faults>>

(* buildSummary: two queries at once, in either order.  The first reads    *)
(* every SUCCESS item of the student, of whatever batch.                   *)
Registered(u) == {Section[b] : b \in {c \in Batches \ Cancels : Owner[c] = u /\ item[c] = "SUCCESS"}}

Read(r, field, value) ==
  /\ At(r, "build") /\ field \notin DOMAIN run[r].mail
  /\ LET mail == [f \in DOMAIN run[r].mail \cup {field} |->
                    IF f = field THEN value ELSE run[r].mail[f]]
         both == DOMAIN mail = {"registered", "failed"}
     IN  Go(r, [at |-> IF both THEN "mail" ELSE "build",
                groups |-> run[r].groups, ids |-> run[r].ids, mail |-> mail])
  /\ UNCHANGED <<batchVars, isRunning, mails, now, faults>>

ReadRegistered(r) == At(r, "build") /\ Read(r, "registered", Registered(Student(r)))
ReadRecent(r) ==
  At(r, "build") /\ Read(r, "failed", {b \in run[r].ids : item[b] = "FAILED"})

Delivered(r) ==
  mails' = Append(mails, [to |-> Student(r), ids |-> run[r].ids,
                          registered |-> run[r].mail.registered,
                          failed |-> run[r].mail.failed])

\* Mutant: only the classes of the batches to report are listed.
SendStale(r) ==
  /\ At(r, "mail")
  /\ mails' = Append(mails, [to |-> Student(r), ids |-> run[r].ids, failed |-> run[r].mail.failed,
                             registered |-> {Section[b] : b \in {c \in run[r].ids \ Cancels :
                                                                   item[c] = "SUCCESS"}}])
  /\ Go(r, [run[r] EXCEPT !.at = "sent"])
  /\ UNCHANGED <<batchVars, isRunning, now, faults>>

Send(r) ==
  /\ At(r, "mail")
  /\ Delivered(r)
  /\ Go(r, [run[r] EXCEPT !.at = "sent"])
  /\ UNCHANGED <<batchVars, isRunning, now, faults>>

\* Mutant: whatever is completed by now gets marked SENT.
MarkAllSent(r) ==
  /\ At(r, "sent")
  /\ notice' = [b \in Batches |-> IF Completed(b) /\ Owner[b] = Student(r) THEN "SENT"
                                  ELSE notice[b]]
  /\ Rest(r, Later(r))
  /\ UNCHANGED <<item, done, retries, mails, now, faults>>

(* updateMany on the ids read before the mail was written *)
MarkSent(r) ==
  /\ At(r, "sent")
  /\ notice' = [b \in Batches |-> IF b \in run[r].ids THEN "SENT" ELSE notice[b]]
  /\ Rest(r, Later(r))
  /\ UNCHANGED <<item, done, retries, mails, now, faults>>

(* catch: FAILED, one retry less *)
MarkFailed(r) ==
  /\ At(r, "failed")
  /\ notice' = [b \in Batches |-> IF b \in run[r].ids THEN "FAILED" ELSE notice[b]]
  /\ retries' = [b \in Batches |-> IF b \in run[r].ids THEN retries[b] + 1 ELSE retries[b]]
  /\ Rest(r, Later(r))
  /\ UNCHANGED <<item, done, mails, now, faults>>

RunStep(r) ==
  \/ Scan(r) \/ FindSlot(r) \/ FindIds(r) \/ ReadRegistered(r) \/ ReadRecent(r)
  \/ Send(r) \/ MarkSent(r) \/ MarkFailed(r)

----------------------------------------------------------------------------
(* Faults.                                                                 *)
Fault ==
  /\ faults < MaxFaults
  /\ faults' = faults + 1

(* sendMail fails, before or after the server took the mail. *)
SendFails(r) ==
  /\ At(r, "mail")
  /\ Fault
  /\ UNCHANGED mails \/ Delivered(r)
  /\ Go(r, [run[r] EXCEPT !.at = "failed"])
  /\ UNCHANGED <<batchVars, isRunning, now>>

(* A database call fails: inside the try it is caught, elsewhere it ends   *)
(* the run and leaves the other students to the next.                      *)
DbFails(r) ==
  /\ At(r, "build") \/ At(r, "sent")
  /\ Fault
  /\ Go(r, [run[r] EXCEPT !.at = "failed"])
  /\ UNCHANGED <<batchVars, isRunning, mails, now>>

DbEndsRun(r) ==
  /\ At(r, "scan") \/ At(r, "slot") \/ At(r, "ids") \/ At(r, "failed")
  /\ Fault
  /\ Over(r)
  /\ UNCHANGED <<batchVars, mails, now>>

(* The scheduler stops and starts again. *)
Crash ==
  /\ Fault
  /\ run' = [r \in Runs |-> Idle]
  /\ isRunning' = FALSE
  /\ UNCHANGED <<batchVars, mails, now>>

Tick ==
  /\ now' \in Times /\ Before(now, now')
  /\ UNCHANGED <<batchVars, isRunning, run, mails, faults>>

----------------------------------------------------------------------------
Init ==
  /\ item = [b \in Batches |-> "PENDING"]
  /\ done = << >>
  /\ notice = [b \in Batches |-> "PENDING"]
  /\ retries = [b \in Batches |-> 0]
  /\ isRunning = FALSE
  /\ run = [r \in Runs |-> Idle]
  /\ mails = << >>
  /\ now \in Times /\ \A t \in Times : NotAfter(now, t)
  /\ faults = 0

Next ==
  \/ \E b \in Batches : Settle(b) \/ Complete(b)
  \/ \E r \in Runs : Fire(r) \/ RunStep(r) \/ SendFails(r) \/ DbFails(r) \/ DbEndsRun(r)
  \/ Crash \/ Tick

(***************************************************************************)
(* The cron keeps firing, calls return, workers complete what they settled *)
(* and time passes.  Nothing forces a fault.                               *)
(***************************************************************************)
Fairness ==
  /\ WF_vars(\E r \in Runs : Fire(r))
  /\ \A r \in Runs : WF_vars(RunStep(r))
  /\ \A b \in Batches : WF_vars(Complete(b))
  /\ WF_vars(Tick)

Spec == Init /\ [][Next]_vars
FairSpec == Spec /\ Fairness

----------------------------------------------------------------------------
(* What a student is not told again was told: a batch marked SENT is in a  *)
(* mail to its owner, with its failure if it failed, although batches      *)
(* complete while the mail is written.                                     *)
SentIsReported ==
  \A b \in Batches : notice[b] = "SENT" =>
    \E i \in DOMAIN mails :
      /\ mails[i].to = Owner[b] /\ b \in mails[i].ids
      /\ item[b] = "FAILED" => b \in mails[i].failed

MailsTo(u) == {i \in DOMAIN mails : mails[i].to = u}

(* The last mail has the last word: when every batch of a student is SENT, *)
(* the classes his latest mail lists are those he is registered in.        *)
LastMailIsCurrent ==
  \A u \in Students :
    (\E b \in Batches : Owner[b] = u)
    /\ (\A b \in Batches : Owner[b] = u => notice[b] = "SENT")
      => \E i \in MailsTo(u) : /\ \A j \in MailsTo(u) : j <= i
                               /\ mails[i].registered = Registered(u)

(* A batch is mailed again only after something failed: runs of the job    *)
(* never overlap within the scheduler, and SENT is final.                  *)
MailedOncePerFault ==
  \A b \in Batches :
    Cardinality({i \in DOMAIN mails : b \in mails[i].ids}) <= 1 + faults

(* Every completed batch of a student whose slot ends is told or its       *)
(* retries are used up.  The scan takes the oldest ScanLimit batches, and  *)
(* those of students without a slot stay in front: it needs fewer of them. *)
Slotless == {b \in Batches : SlotsOfStudent[Owner[b]] = {}}
SummariesSettle ==
  Cardinality(Slotless) < ScanLimit =>
    \A b \in Batches \ Slotless : Completed(b) ~> ~ Unsent(b)
=============================================================================
