------------------------- MODULE SummaryMailsProofs -------------------------
(***************************************************************************)
(* No outcome is marked as told that is not in a delivered mail.           *)
(***************************************************************************)
EXTENDS SummaryMails, FiniteSetTheorems, TLAPS

(* The states c of a run of the job. *)
Writing == {"build", "mail", "sent", "failed"}

Shaped(c) ==
  \/ c.at \in {"idle", "scan"}
  \/ c.at \in {"slot", "ids"} /\ \E g : c = [at |-> c.at, groups |-> g]
  \/ /\ c.at \in Writing
     /\ \E g, ids, m : c = [at |-> c.at, groups |-> g, ids |-> ids, mail |-> m]

(* The failures a mail names are those of its batches, now and for good:   *)
(* its batches are completed, so their items are no longer PENDING.        *)
FailedOf(ids) == {b \in ids : item[b] = "FAILED"}

Reported(to, ids) ==
  \E i \in DOMAIN mails :
    mails[i].to = to /\ mails[i].ids = ids /\ mails[i].failed = FailedOf(ids)

Exact(c) ==
  c.at \in Writing =>
    /\ \A b \in c.ids : b \in Batches /\ item[b] # "PENDING" /\ Owner[b] = Head(c.groups)
    /\ "failed" \in DOMAIN c.mail => c.mail.failed = FailedOf(c.ids)
    /\ c.at = "mail" => "failed" \in DOMAIN c.mail
    /\ c.at = "sent" => Reported(Head(c.groups), c.ids)

RunsExact == DOMAIN run = Runs /\ \A r \in Runs : Shaped(run[r]) /\ Exact(run[r])

OutcomesSettled ==
  /\ DOMAIN item = Batches /\ DOMAIN notice = Batches
  /\ \E m : mails \in Seq(m)
  /\ \E m : done \in Seq(m)
  /\ \A b \in Batches : Completed(b) \/ notice[b] = "SENT" => item[b] # "PENDING"

MailInv == RunsExact /\ OutcomesSettled /\ SentIsReported

LEMMA MailInvInit == ASSUME Init PROVE MailInv
<1>1. RunsExact
  BY DEF Init, RunsExact, Shaped, Exact, Idle, Writing
<1>2. mails \in Seq({}) /\ done \in Seq({})
  BY DEF Init
<1>3. OutcomesSettled
  BY <1>2 DEF Init, OutcomesSettled, Completed
<1>4. SentIsReported
  BY DEF Init, SentIsReported
<1> QED
  BY <1>1, <1>3, <1>4 DEF MailInv

(* A run moves to a state that is exact by itself. *)
LEMMA RunMoves ==
  ASSUME MailInv, NEW r \in Runs, NEW c, run' = [run EXCEPT ![r] = c],
         UNCHANGED <<item, mails>>, Shaped(c), Exact(c),
         OutcomesSettled', SentIsReported'
  PROVE  MailInv'
<1>1. RunsExact'
  <2>1. DOMAIN run' = Runs
    BY DEF MailInv, RunsExact
  <2> SUFFICES ASSUME NEW q \in Runs PROVE (Shaped(run[q]) /\ Exact(run[q]))'
    BY <2>1 DEF RunsExact
  <2>2. PICK d : d = run'[q]
    OBVIOUS
  <2>3. d = IF q = r THEN c ELSE run[q]
    BY <2>2 DEF MailInv, RunsExact
  <2>4. Shaped(d) /\ Exact(d)
    BY <2>3 DEF MailInv, RunsExact
  <2>5. Exact(d)'
    BY <2>4 DEF Exact, Reported, FailedOf
  <2> QED
    BY <2>2, <2>4, <2>5 DEF Exact, Shaped
<1> QED
  BY <1>1 DEF MailInv

LEMMA SameOutcomes ==
  ASSUME MailInv, UNCHANGED <<item, done, notice, mails>>
  PROVE  OutcomesSettled' /\ SentIsReported'
  BY DEF MailInv, OutcomesSettled, SentIsReported, Completed

(* The run goes on to the next student, or ends. *)
LEMMA RestMoves ==
  ASSUME MailInv, NEW r \in Runs, NEW g, Rest(r, g) \/ Over(r),
         UNCHANGED <<item, mails>>, OutcomesSettled', SentIsReported'
  PROVE  MailInv'
<1> DEFINE next == [at |-> "slot", groups |-> g]
<1>1. Shaped(Idle) /\ Exact(Idle)
  BY DEF Shaped, Exact, Idle, Writing
<1>2. Shaped(next) /\ Exact(next)
  BY DEF Shaped, Exact, Writing
<1>3. run' = [run EXCEPT ![r] = Idle] \/ run' = [run EXCEPT ![r] = next]
  BY DEF Rest, Over, Go
<1> HIDE DEF next
<1> QED
  BY <1>1, <1>2, <1>3, RunMoves

(* The worker settles an item: no completed batch is affected but by a     *)
(* cancellation of its seat.                                               *)
LEMMA SettleKeepsMails ==
  ASSUME MailInv, NEW b \in Batches, Settle(b)
  PROVE  MailInv'
<1>1. \A c \in Batches : item[c] # "PENDING" =>
        /\ item'[c] # "PENDING"
        /\ item'[c] = "FAILED" <=> item[c] = "FAILED"
  BY DEF MailInv, OutcomesSettled, Settle, Sources
<1>2. UNCHANGED <<done, notice, mails, run>> /\ DOMAIN item' = Batches
  BY DEF MailInv, OutcomesSettled, Settle
<1>3. OutcomesSettled'
  BY <1>1, <1>2 DEF MailInv, OutcomesSettled, Completed
<1>4. SentIsReported'
  BY <1>1, <1>2 DEF MailInv, OutcomesSettled, SentIsReported
<1>5. RunsExact'
  <2> SUFFICES ASSUME NEW q \in Runs, run[q].at \in Writing PROVE Exact(run[q])'
    BY <1>2 DEF MailInv, RunsExact, Shaped, Exact
  <2>1. \A c \in run[q].ids : c \in Batches /\ item[c] # "PENDING"
    BY DEF MailInv, RunsExact, Exact
  <2>2. FailedOf(run[q].ids)' = FailedOf(run[q].ids)
    BY <1>1, <1>2, <2>1 DEF FailedOf
  <2> QED
    BY <1>1, <1>2, <2>1, <2>2 DEF MailInv, RunsExact, Exact, Reported
<1> QED
  BY <1>3, <1>4, <1>5 DEF MailInv

(* A run in one of these states is the record that its shape says. *)
LEMMA StudentKnown ==
  ASSUME MailInv, NEW r \in Runs, run[r].at \in {"slot", "ids"}
  PROVE  \E g : run[r] = [at |-> run[r].at, groups |-> g]
  BY DEF MailInv, RunsExact, Shaped, Writing

LEMMA MailKnown ==
  ASSUME MailInv, NEW r \in Runs, run[r].at \in Writing
  PROVE  \E g, ids, m : run[r] = [at |-> run[r].at, groups |-> g, ids |-> ids, mail |-> m]
  BY DEF MailInv, RunsExact, Shaped, Writing

(* The worker completes a batch; no run is concerned. *)
LEMMA CompleteKeepsMails ==
  ASSUME MailInv, NEW b \in Batches, Complete(b)
  PROVE  MailInv'
<1>1. PICK m : done \in Seq(m)
  BY DEF MailInv, OutcomesSettled
<1>2. done' = Append(done, b) /\ item[b] # "PENDING" /\ UNCHANGED <<item, notice, mails, run>>
  BY DEF Complete
<1>3. done \in Seq(m \cup {b}) /\ b \in m \cup {b}
  BY <1>1
<1>4. done' \in Seq(m \cup {b})
  BY <1>2, <1>3
<1>5. \A c : Completed(c)' => Completed(c) \/ c = b
  BY <1>2, <1>3 DEF Completed
<1>6. OutcomesSettled'
  BY <1>2, <1>4, <1>5 DEF MailInv, OutcomesSettled
<1> QED
  BY <1>2, <1>6 DEF MailInv, RunsExact, Exact, Reported, FailedOf, Shaped, SentIsReported

(* findAllUnsentBatchIds: the mail will be about completed batches of the  *)
(* student.                                                                *)
LEMMA FindIdsKeepsMails ==
  ASSUME MailInv, NEW r \in Runs, FindIds(r)
  PROVE  MailInv'
<1>1. OutcomesSettled' /\ SentIsReported' /\ UNCHANGED <<item, mails>>
  BY SameOutcomes DEF FindIds, batchVars
<1>2. PICK ids : ids = {b \in Batches : Completed(b) /\ Owner[b] = Student(r) /\ Unsent(b)}
  OBVIOUS
<1> DEFINE c == [at |-> "build", groups |-> run[r].groups, ids |-> ids, mail |-> << >>]
<1>3. Rest(r, Later(r)) \/ Go(r, c)
  BY <1>2 DEF FindIds
<1>4. Shaped(c)
  BY DEF Shaped, Writing
<1>5. Exact(c)
  BY <1>2 DEF Exact, Student, MailInv, OutcomesSettled
<1> HIDE DEF c
<1> QED
  BY <1>1, <1>3, <1>4, <1>5, RestMoves, RunMoves DEF Go

(* The two queries of buildSummary. *)
LEMMA ReadKeepsMails ==
  ASSUME MailInv, NEW r \in Runs, ReadRegistered(r) \/ ReadRecent(r)
  PROVE  MailInv'
<1>1. PICK field, value :
        /\ Read(r, field, value)
        /\ field = "failed" => value = FailedOf(run[r].ids)
        /\ field \in {"failed", "registered"}
  <2>1. CASE ReadRegistered(r)
    BY <2>1 DEF ReadRegistered
  <2>2. CASE ReadRecent(r)
    BY <2>2 DEF ReadRecent, FailedOf
  <2> QED
    BY <2>1, <2>2
<1>2. OutcomesSettled' /\ SentIsReported' /\ UNCHANGED <<item, mails>>
  BY <1>1, SameOutcomes DEF Read, batchVars
<1>3. run[r].at = "build" /\ field \notin DOMAIN run[r].mail
  BY <1>1 DEF Read, At
<1> DEFINE ids == run[r].ids
           m == run[r].mail
           mail == [f \in DOMAIN m \cup {field} |-> IF f = field THEN value ELSE m[f]]
           place == IF DOMAIN mail = {"registered", "failed"} THEN "mail" ELSE "build"
           c == [at |-> place, groups |-> run[r].groups, ids |-> ids, mail |-> mail]
<1>4. /\ "failed" \in DOMAIN mail => mail.failed = FailedOf(ids)
      /\ place = "mail" => "failed" \in DOMAIN mail
      /\ place \in {"build", "mail"}
  BY <1>1, <1>3 DEF MailInv, RunsExact, Exact, Writing
<1>5. Go(r, c)
  BY <1>1 DEF Read
<1> HIDE DEF mail, place
<1>6. Shaped(c)
  BY <1>4 DEF Shaped, Writing
<1>7. Exact(c)
  BY <1>3, <1>4 DEF Exact, Writing, MailInv, RunsExact
<1> HIDE DEF c
<1> QED
  BY <1>2, <1>5, <1>6, <1>7, RunMoves DEF Go

(* The same mail, at another place. *)
LEMMA MailAt ==
  ASSUME MailInv, NEW r \in Runs, run[r].at \in Writing, NEW a
  PROVE  LET c == [run[r] EXCEPT !.at = a]
         IN  /\ c = [at |-> a, groups |-> run[r].groups, ids |-> run[r].ids,
                     mail |-> run[r].mail]
             /\ c.at = a /\ c.groups = run[r].groups /\ c.ids = run[r].ids
             /\ c.mail = run[r].mail
<1>1. PICK g, ids, m, b : run[r] = [at |-> b, groups |-> g, ids |-> ids, mail |-> m]
  BY MailKnown
<1> QED
  BY <1>1

(* Whether the mail or an update fails, nothing is promised any more.      *)
LEMMA MailFails ==
  ASSUME MailInv, NEW r \in Runs, run[r].at \in Writing,
         Go(r, [run[r] EXCEPT !.at = "failed"]),
         UNCHANGED <<item, mails, done, notice>>
  PROVE  MailInv'
<1> DEFINE c == [run[r] EXCEPT !.at = "failed"]
<1>1. /\ c = [at |-> "failed", groups |-> run[r].groups, ids |-> run[r].ids,
              mail |-> run[r].mail]
      /\ c.at = "failed" /\ c.groups = run[r].groups /\ c.ids = run[r].ids
      /\ c.mail = run[r].mail
  BY MailAt
<1>2. run' = [run EXCEPT ![r] = c]
  BY DEF Go
<1> HIDE DEF c
<1>3. Shaped(c)
  BY <1>1 DEF Shaped, Writing
<1>4. Exact(c)
  BY <1>1 DEF Exact, Writing, MailInv, RunsExact
<1> QED
  BY <1>2, <1>3, <1>4, RunMoves, SameOutcomes

(* A delivered mail stays delivered. *)
LEMMA DeliveredIsReported ==
  ASSUME MailInv, NEW r \in Runs, run[r].at = "mail", Delivered(r),
         UNCHANGED <<item, done, notice>>
  PROVE  /\ OutcomesSettled' /\ SentIsReported'
         /\ \A to, ids : Reported(to, ids) \/ (to = Student(r) /\ ids = run[r].ids)
                        => Reported(to, ids)'
<1>1. PICK m : mails \in Seq(m)
  BY DEF MailInv, OutcomesSettled
<1> DEFINE new == [to |-> Student(r), ids |-> run[r].ids,
                   registered |-> run[r].mail.registered, failed |-> run[r].mail.failed]
<1>2. mails' = Append(mails, new)
  BY DEF Delivered
<1>3. new.to = Student(r) /\ new.ids = run[r].ids /\ new.failed = FailedOf(run[r].ids)
  BY DEF MailInv, RunsExact, Exact, Writing
<1> HIDE DEF new
<1>4. mails \in Seq(m \cup {new}) /\ new \in m \cup {new}
  BY <1>1
<1>5. mails' \in Seq(m \cup {new})
  BY <1>2, <1>4
<1>6. /\ \A i \in DOMAIN mails : i \in DOMAIN mails' /\ mails'[i] = mails[i]
      /\ \E i \in DOMAIN mails' : mails'[i] = new
  <2>1. /\ DOMAIN mails = 1 .. Len(mails) /\ Len(mails) \in Nat
        /\ DOMAIN mails' = 1 .. Len(mails) + 1
        /\ mails'[Len(mails) + 1] = new
        /\ \A i \in 1 .. Len(mails) : mails'[i] = mails[i]
    BY <1>2, <1>4
  <2>2. Len(mails) + 1 \in DOMAIN mails'
    BY <2>1
  <2> QED
    BY <2>1, <2>2
<1>7. OutcomesSettled'
  BY <1>5 DEF MailInv, OutcomesSettled, Completed
<1>8. SentIsReported'
  BY <1>6 DEF MailInv, SentIsReported
<1>9. \A to, ids : Reported(to, ids) \/ (to = Student(r) /\ ids = run[r].ids)
                  => Reported(to, ids)'
  BY <1>3, <1>6 DEF Reported, FailedOf
<1> QED
  BY <1>7, <1>8, <1>9

LEMMA SendKeepsMails ==
  ASSUME MailInv, NEW r \in Runs, Send(r) \/ (SendFails(r) /\ Delivered(r))
  PROVE  MailInv'
<1>1. /\ run[r].at = "mail" /\ Delivered(r) /\ UNCHANGED <<item, done, notice>>
      /\ \E a \in {"sent", "failed"} : Go(r, [run[r] EXCEPT !.at = a])
  BY DEF Send, SendFails, At, batchVars
<1>2. PICK a \in {"sent", "failed"} : Go(r, [run[r] EXCEPT !.at = a])
  BY <1>1
<1>3. /\ OutcomesSettled' /\ SentIsReported'
      /\ \A to, ids : Reported(to, ids) \/ (to = Student(r) /\ ids = run[r].ids)
                     => Reported(to, ids)'
  BY <1>1, DeliveredIsReported
<1> DEFINE c == [run[r] EXCEPT !.at = a]
<1>4. /\ c = [at |-> a, groups |-> run[r].groups, ids |-> run[r].ids, mail |-> run[r].mail]
      /\ c.at = a /\ c.groups = run[r].groups /\ c.ids = run[r].ids /\ c.mail = run[r].mail
  BY <1>1, MailAt DEF Writing
<1>5. run' = [run EXCEPT ![r] = c]
  BY <1>2 DEF Go
<1> HIDE DEF c
<1>7. Shaped(c)
  BY <1>4 DEF Shaped, Writing
<1>6. RunsExact'
  <2>1. DOMAIN run' = Runs
    BY <1>5 DEF MailInv, RunsExact
  <2> SUFFICES ASSUME NEW q \in Runs PROVE (Shaped(run[q]) /\ Exact(run[q]))'
    BY <2>1 DEF RunsExact
  <2>2. PICK d : d = run'[q]
    OBVIOUS
  <2>3. d = IF q = r THEN c ELSE run[q]
    BY <1>5, <2>2 DEF MailInv, RunsExact
  <2>4. Shaped(d)
    BY <1>7, <2>3 DEF MailInv, RunsExact
  <2>5. CASE q = r
    <3>1. /\ \A b \in d.ids : b \in Batches /\ item[b] # "PENDING"
                             /\ Owner[b] = Head(d.groups)
          /\ "failed" \in DOMAIN d.mail => d.mail.failed = FailedOf(d.ids)
          /\ d.at # "mail"
      BY <1>1, <1>4, <2>3, <2>5 DEF MailInv, RunsExact, Exact, Writing
    <3>2. Reported(Head(d.groups), d.ids)'
      BY <1>3, <1>4, <2>3, <2>5 DEF Student
    <3> QED
      BY <1>1, <2>2, <2>4, <3>1, <3>2 DEF Exact, FailedOf, Shaped
  <2>6. CASE q # r
    <3>1. d = run[q] /\ Exact(d)
      BY <2>3, <2>6 DEF MailInv, RunsExact
    <3>2. \A ids : FailedOf(ids)' = FailedOf(ids)
      BY <1>1 DEF FailedOf
    <3>4. Reported(Head(d.groups), d.ids) => Reported(Head(d.groups), d.ids)'
      BY <1>3
    <3>5. \A b : item'[b] = item[b]
      BY <1>1
    <3>3. Exact(d)'
      BY <3>1, <3>2, <3>4, <3>5 DEF Exact
    <3> QED
      BY <2>2, <2>4, <3>3 DEF Exact, Shaped
  <2> QED
    BY <2>5, <2>6
<1> QED
  BY <1>3, <1>6 DEF MailInv

(* updateMany: what is marked SENT is in the mail just sent. *)
LEMMA MarkSentKeepsMails ==
  ASSUME MailInv, NEW r \in Runs, MarkSent(r)
  PROVE  MailInv'
<1>1. /\ run[r].at = "sent" /\ UNCHANGED <<item, done, mails>>
      /\ notice' = [b \in Batches |-> IF b \in run[r].ids THEN "SENT" ELSE notice[b]]
      /\ Rest(r, Later(r))
  BY DEF MarkSent, At
<1>2. /\ \A b \in run[r].ids : b \in Batches /\ item[b] # "PENDING" /\ Owner[b] = Student(r)
      /\ Reported(Student(r), run[r].ids)
  BY <1>1 DEF MailInv, RunsExact, Exact, Writing, Student
<1>3. OutcomesSettled'
  BY <1>1, <1>2 DEF MailInv, OutcomesSettled, Completed
<1>4. SentIsReported'
  <2> SUFFICES ASSUME NEW b \in Batches, notice'[b] = "SENT"
               PROVE  \E i \in DOMAIN mails :
                        /\ mails[i].to = Owner[b] /\ b \in mails[i].ids
                        /\ item[b] = "FAILED" => b \in mails[i].failed
    BY <1>1 DEF SentIsReported
  <2>1. CASE b \in run[r].ids
    BY <2>1, <1>2 DEF Reported, FailedOf
  <2>2. CASE b \notin run[r].ids
    BY <2>2, <1>1 DEF MailInv, SentIsReported
  <2> QED
    BY <2>1, <2>2
<1> QED
  BY <1>1, <1>3, <1>4, RestMoves

LEMMA MarkFailedKeepsMails ==
  ASSUME MailInv, NEW r \in Runs, MarkFailed(r)
  PROVE  MailInv'
<1>1. /\ UNCHANGED <<item, done, mails>>
      /\ notice' = [b \in Batches |-> IF b \in run[r].ids THEN "FAILED" ELSE notice[b]]
      /\ Rest(r, Later(r))
  BY DEF MarkFailed
<1>2. OutcomesSettled' /\ SentIsReported'
  BY <1>1 DEF MailInv, OutcomesSettled, SentIsReported, Completed
<1> QED
  BY <1>1, <1>2, RestMoves

(* The steps of a run that has no mail to write yet. *)
LEMMA BeforeMail ==
  ASSUME MailInv, NEW r \in Runs,
         Fire(r) \/ Scan(r) \/ FindSlot(r) \/ DbEndsRun(r)
  PROVE  MailInv'
<1>1. OutcomesSettled' /\ SentIsReported' /\ UNCHANGED <<item, mails>>
  BY SameOutcomes DEF Fire, Scan, FindSlot, DbEndsRun, batchVars
<1>2. CASE Fire(r)
  <2> DEFINE c == [at |-> "scan"]
  <2>1. Shaped(c) /\ Exact(c)
    BY DEF Shaped, Exact, Writing
  <2>2. run' = [run EXCEPT ![r] = c]
    BY <1>2 DEF Fire, Go
  <2> HIDE DEF c
  <2> QED
    BY <1>1, <2>1, <2>2, RunMoves
<1>3. CASE Scan(r)
  BY <1>1, <1>3, RestMoves DEF Scan
<1>4. CASE FindSlot(r)
  <2>1. CASE Rest(r, Later(r))
    BY <1>1, <2>1, RestMoves
  <2>2. CASE Go(r, [run[r] EXCEPT !.at = "ids"])
    <3>1. PICK g, a : run[r] = [at |-> a, groups |-> g]
      BY <1>4, StudentKnown DEF FindSlot, At
    <3> DEFINE c == [at |-> "ids", groups |-> g]
    <3>4. [run[r] EXCEPT !.at = "ids"] = c
      BY <3>1
    <3>2. run' = [run EXCEPT ![r] = c]
      BY <2>2, <3>4 DEF Go
    <3>3. Shaped(c) /\ Exact(c)
      BY DEF Shaped, Exact, Writing
    <3> HIDE DEF c
    <3> QED
      BY <1>1, <3>2, <3>3, RunMoves
  <2> QED
    BY <1>4, <2>1, <2>2 DEF FindSlot
<1>5. CASE DbEndsRun(r)
  BY <1>1, <1>5, RestMoves DEF DbEndsRun
<1> QED
  BY <1>2, <1>3, <1>4, <1>5

LEMMA NextKeepsMails ==
  ASSUME MailInv, [Next]_vars
  PROVE  MailInv'
<1>1. ASSUME NEW b \in Batches, Settle(b) \/ Complete(b)
      PROVE  MailInv'
  BY <1>1, SettleKeepsMails, CompleteKeepsMails
<1>2. ASSUME NEW r \in Runs, Fire(r) \/ RunStep(r) \/ DbEndsRun(r)
      PROVE  MailInv'
  BY <1>2, BeforeMail, FindIdsKeepsMails, ReadKeepsMails, SendKeepsMails,
     MarkSentKeepsMails, MarkFailedKeepsMails DEF RunStep
<1>3. ASSUME NEW r \in Runs, SendFails(r)
      PROVE  MailInv'
  <2>1. CASE Delivered(r)
    BY <1>3, <2>1, SendKeepsMails
  <2>2. CASE UNCHANGED mails
    BY <1>3, <2>2, MailFails DEF SendFails, At, batchVars, Writing
  <2> QED
    BY <1>3, <2>1, <2>2 DEF SendFails
<1>4. ASSUME NEW r \in Runs, DbFails(r)
      PROVE  MailInv'
  BY <1>4, MailFails DEF DbFails, At, batchVars, Writing
<1>5. CASE Crash
  <2>1. OutcomesSettled' /\ SentIsReported'
    BY <1>5, SameOutcomes DEF Crash, batchVars
  <2>2. RunsExact'
    BY <1>5 DEF Crash, RunsExact, Shaped, Exact, Idle, Writing
  <2> QED
    BY <2>1, <2>2 DEF MailInv
<1>6. CASE Tick \/ UNCHANGED vars
  <2>1. UNCHANGED <<item, done, notice, mails, run>>
    BY <1>6 DEF Tick, vars, batchVars
  <2> QED
    BY <2>1, SameOutcomes DEF MailInv, RunsExact, Shaped, Exact, Reported, FailedOf
<1> QED
  BY <1>1, <1>2, <1>3, <1>4, <1>5, <1>6 DEF Next

(* Whatever crashes, fails, completes meanwhile or runs twice: a batch     *)
(* marked SENT is in a mail that its student got, with its failure if it   *)
(* failed.                                                                 *)
THEOREM SentWasReported == Spec => []SentIsReported
<1>1. Init => MailInv
  BY MailInvInit
<1>2. MailInv /\ [Next]_vars => MailInv'
  BY NextKeepsMails
<1>3. MailInv => SentIsReported
  BY DEF MailInv
<1> QED
  BY <1>1, <1>2, <1>3, PTL DEF Spec

----------------------------------------------------------------------------
(* One run at a time.  What a run knows while it writes a mail: nobody     *)
(* else marks its batches, and when no other batch of the student is left, *)
(* nothing can change any more what the student is registered in.          *)
OneRun ==
  \A r \in Runs : run[r].at # "idle" =>
    isRunning /\ \A q \in Runs \ {r} : run[q].at = "idle"

AllTold(u, ids) == \A b \in Batches : Owner[b] = u => b \in ids \/ notice[b] = "SENT"
LastLists(u) ==
  \E i \in MailsTo(u) : /\ \A j \in MailsTo(u) : j <= i
                        /\ mails[i].registered = Registered(u)

Current(c) ==
  c.at \in Writing =>
    /\ c.ids # {} /\ \A b \in c.ids : notice[b] # "SENT"
    /\ c.at = "mail" => "registered" \in DOMAIN c.mail
    /\ AllTold(Head(c.groups), c.ids) =>
         /\ "registered" \in DOMAIN c.mail => c.mail.registered = Registered(Head(c.groups))
         /\ c.at = "sent" => LastLists(Head(c.groups))

(* How often a batch is mailed: once for every fault, and once more when   *)
(* the job knows that it was told.                                         *)
MailsOf(b) == {i \in DOMAIN mails : b \in mails[i].ids}
Told(b) == notice[b] = "SENT" \/ \E r \in Runs : run[r].at = "sent" /\ b \in run[r].ids
Counted(b) ==
  /\ IsFiniteSet(MailsOf(b)) /\ Cardinality(MailsOf(b)) \in Nat
  /\ \/ Cardinality(MailsOf(b)) <= faults
     \/ Told(b) /\ Cardinality(MailsOf(b)) <= 1 + faults

LastKnown ==
  \A u \in Students :
    (\E b \in Batches : Owner[b] = u) /\ AllTold(u, {}) => LastLists(u)

JobInv ==
  /\ OneRun
  /\ \A r \in Runs : Current(run[r])
  /\ LastKnown
  /\ faults \in Nat /\ \A b \in Batches : Counted(b)

LEMMA JobInvInit == ASSUME Init PROVE JobInv
<1>1. OneRun /\ \A r \in Runs : Current(run[r])
  BY DEF Init, OneRun, Current, Idle, Writing
<1>2. LastKnown
  BY DEF Init, LastKnown, AllTold
<1>3. \A b \in Batches : MailsOf(b) = {}
  BY DEF Init, MailsOf
<1>4. IsFiniteSet({}) /\ Cardinality({}) = 0
  BY FS_EmptySet
<1>5. faults = 0
  BY DEF Init
<1> QED
  BY <1>1, <1>2, <1>3, <1>4, <1>5 DEF JobInv, Counted

(* The run that works is alone. *)
LEMMA RunAlone ==
  ASSUME MailInv, JobInv, NEW r \in Runs, run[r].at # "idle", NEW c,
         run' = [run EXCEPT ![r] = c]
  PROVE  /\ run'[r] = c /\ isRunning
         /\ \A q \in Runs \ {r} : run'[q] = run[q] /\ run[q].at = "idle"
  BY DEF MailInv, RunsExact, JobInv, OneRun

(* A step of the job that delivers and marks nothing.                      *)
LEMMA QuietRun ==
  ASSUME MailInv, JobInv, NEW r \in Runs, run[r].at # "idle", NEW c,
         run' = [run EXCEPT ![r] = c], Current(c),
         UNCHANGED <<item, notice, mails>>,
         (isRunning' = isRunning) \/ c.at = "idle",
         (faults' = faults /\ run[r].at # "sent") \/ faults' = faults + 1
  PROVE  JobInv'
<1>1. /\ run'[r] = c /\ isRunning
      /\ \A q \in Runs \ {r} : run'[q] = run[q] /\ run[q].at = "idle"
  BY RunAlone
<1>2. OneRun'
  BY <1>1 DEF OneRun
<1>3. \A u : Registered(u)' = Registered(u)
  BY DEF Registered
<1>4. Current(c)'
  BY <1>3 DEF Current, AllTold, LastLists, MailsTo
<1>5. ASSUME NEW q \in Runs
      PROVE  Current(run[q])'
  BY <1>1, <1>4 DEF Current, Writing, AllTold, LastLists, MailsTo
<1>6. LastKnown'
  BY <1>3 DEF JobInv, LastKnown, AllTold, LastLists, MailsTo
<1>7. ASSUME NEW b \in Batches
      PROVE  Counted(b)'
  <2>1. Counted(b) /\ MailsOf(b)' = MailsOf(b) /\ faults \in Nat
    BY DEF JobInv, MailsOf
  <2>2. CASE faults' = faults + 1
    BY <2>1, <2>2 DEF Counted
  <2>3. CASE faults' = faults /\ run[r].at # "sent"
    <3>1. Told(b) => Told(b)'
      BY <1>1, <2>3 DEF Told
    <3> QED
      BY <2>1, <2>3, <3>1 DEF Counted
  <2> QED
    BY <2>2, <2>3
<1>8. faults' \in Nat
  BY DEF JobInv
<1> QED
  BY <1>2, <1>5, <1>6, <1>7, <1>8 DEF JobInv

LEMMA CurrentRest ==
  ASSUME MailInv, JobInv, NEW r \in Runs, run[r].at \notin {"idle", "sent"}, NEW g,
         Rest(r, g) \/ Over(r), UNCHANGED <<item, notice, mails>>,
         faults' \in {faults, faults + 1}
  PROVE  JobInv'
<1> DEFINE next == [at |-> "slot", groups |-> g]
<1>1. Current(Idle) /\ Current(next) /\ Idle.at = "idle"
  BY DEF Current, Idle, Writing
<1>2. \/ run' = [run EXCEPT ![r] = Idle]
      \/ run' = [run EXCEPT ![r] = next] /\ UNCHANGED isRunning
  BY DEF Rest, Over, Go
<1> HIDE DEF next
<1> QED
  BY <1>1, <1>2, QuietRun

(* A new mail is the last one of its student, and of nobody else.          *)
LEMMA MailAppended ==
  ASSUME MailInv, NEW r \in Runs, Delivered(r)
  PROVE  \E n \in Nat :
           /\ DOMAIN mails = 1 .. n /\ DOMAIN mails' = 1 .. n + 1
           /\ \A i \in 1 .. n : mails'[i] = mails[i]
           /\ mails'[n + 1].to = Student(r) /\ mails'[n + 1].ids = run[r].ids
           /\ mails'[n + 1].registered = run[r].mail.registered
<1>1. PICK m : mails \in Seq(m)
  BY DEF MailInv, OutcomesSettled
<1> DEFINE new == [to |-> Student(r), ids |-> run[r].ids,
                   registered |-> run[r].mail.registered, failed |-> run[r].mail.failed]
<1>2. mails' = Append(mails, new)
  BY DEF Delivered
<1>3. new.to = Student(r) /\ new.ids = run[r].ids /\ new.registered = run[r].mail.registered
  OBVIOUS
<1> HIDE DEF new
<1>4. mails \in Seq(m \cup {new}) /\ new \in m \cup {new}
  BY <1>1
<1>5. /\ DOMAIN mails = 1 .. Len(mails) /\ Len(mails) \in Nat
      /\ DOMAIN mails' = 1 .. Len(mails) + 1
      /\ mails'[Len(mails) + 1] = new
      /\ \A i \in 1 .. Len(mails) : mails'[i] = mails[i]
  BY <1>2, <1>4
<1> QED
  BY <1>3, <1>5

LEMMA FindIdsStaysCurrent ==
  ASSUME MailInv, JobInv, NEW r \in Runs, FindIds(r)
  PROVE  JobInv'
<1>1. run[r].at = "ids" /\ UNCHANGED <<item, notice, mails, faults>>
  BY DEF FindIds, At, batchVars
<1>2. PICK ids : ids = {b \in Batches : Completed(b) /\ Owner[b] = Student(r) /\ Unsent(b)}
  OBVIOUS
<1> DEFINE c == [at |-> "build", groups |-> run[r].groups, ids |-> ids, mail |-> << >>]
<1>3. Rest(r, Later(r)) \/ (Go(r, c) /\ UNCHANGED isRunning /\ ids # {})
  BY <1>2 DEF FindIds
<1>4. c.at = "build" /\ c.ids = ids /\ "registered" \notin DOMAIN c.mail
  OBVIOUS
<1> HIDE DEF c
<1>5. \A b \in ids : notice[b] # "SENT"
  BY <1>2 DEF Unsent
<1>6. CASE Rest(r, Later(r))
  BY <1>1, <1>6, CurrentRest
<1>7. CASE Go(r, c) /\ UNCHANGED isRunning /\ ids # {}
  <2>1. Current(c)
    BY <1>4, <1>5, <1>7 DEF Current
  <2> QED
    BY <1>1, <1>7, <2>1, QuietRun DEF Go
<1> QED
  BY <1>3, <1>6, <1>7

(* buildSummary: the classes it lists are those of this moment. *)
LEMMA ReadStaysCurrent ==
  ASSUME MailInv, JobInv, NEW r \in Runs, ReadRegistered(r) \/ ReadRecent(r)
  PROVE  JobInv'
<1>1. PICK field, value :
        /\ Read(r, field, value)
        /\ field = "registered" => value = Registered(Student(r))
  <2>1. CASE ReadRegistered(r)
    BY <2>1 DEF ReadRegistered
  <2>2. CASE ReadRecent(r)
    BY <2>2 DEF ReadRecent
  <2> QED
    BY <2>1, <2>2
<1>2. /\ run[r].at = "build" /\ field \notin DOMAIN run[r].mail
      /\ UNCHANGED <<item, notice, mails, faults, isRunning>>
  BY <1>1 DEF Read, At, batchVars
<1> DEFINE ids == run[r].ids
           m == run[r].mail
           mail == [f \in DOMAIN m \cup {field} |-> IF f = field THEN value ELSE m[f]]
           place == IF DOMAIN mail = {"registered", "failed"} THEN "mail" ELSE "build"
           c == [at |-> place, groups |-> run[r].groups, ids |-> ids, mail |-> mail]
<1>3. Current(run[r])
  BY DEF JobInv
<1>4. /\ AllTold(Student(r), ids) =>
           ("registered" \in DOMAIN mail => mail.registered = Registered(Student(r)))
      /\ place = "mail" => "registered" \in DOMAIN mail
      /\ place \in {"build", "mail"}
  BY <1>1, <1>2, <1>3 DEF Current, Writing, Student
<1>5. Go(r, c)
  BY <1>1 DEF Read
<1>6. ids # {} /\ \A b \in ids : notice[b] # "SENT"
  BY <1>2, <1>3 DEF Current, Writing
<1> HIDE DEF mail, place
<1>7. Current(c)
  BY <1>4, <1>6 DEF Current, Writing, Student
<1> HIDE DEF c
<1> QED
  BY <1>2, <1>5, <1>7, QuietRun DEF Go

(* What fails leaves less to know. *)
LEMMA FailureStaysCurrent ==
  ASSUME MailInv, JobInv, NEW r \in Runs, run[r].at \in Writing,
         Go(r, [run[r] EXCEPT !.at = "failed"]),
         UNCHANGED <<item, notice, mails, isRunning>>, faults' = faults + 1
  PROVE  JobInv'
<1> DEFINE c == [run[r] EXCEPT !.at = "failed"]
<1>1. /\ c.at = "failed" /\ c.groups = run[r].groups /\ c.ids = run[r].ids
      /\ c.mail = run[r].mail
  BY MailAt
<1>2. run' = [run EXCEPT ![r] = c]
  BY DEF Go
<1> HIDE DEF c
<1>3. Current(c)
  BY <1>1 DEF JobInv, Current
<1> QED
  BY <1>2, <1>3, QuietRun DEF Writing

LEMMA StartStaysCurrent ==
  ASSUME MailInv, JobInv, NEW r \in Runs,
         Fire(r) \/ Scan(r) \/ FindSlot(r) \/ DbEndsRun(r)
  PROVE  JobInv'
<1>1. CASE Fire(r)
  <2> DEFINE c == [at |-> "scan"]
  <2>1. c.at = "scan"
    OBVIOUS
  <2>2. /\ run' = [run EXCEPT ![r] = c] /\ isRunning' = TRUE /\ ~ isRunning
        /\ UNCHANGED <<item, notice, mails, faults>>
    BY <1>1 DEF Fire, Go, batchVars
  <2> HIDE DEF c
  <2>3. /\ \A q \in Runs : run[q].at = "idle"
        /\ run'[r] = c /\ \A q \in Runs \ {r} : run'[q] = run[q]
    BY <2>2 DEF JobInv, OneRun, MailInv, RunsExact
  <2>4. OneRun'
    BY <2>1, <2>2, <2>3 DEF OneRun
  <2>5. \A q \in Runs : Current(run[q])'
    BY <2>1, <2>3 DEF Current, Writing
  <2>6. LastKnown'
    BY <2>2 DEF JobInv, LastKnown, AllTold, LastLists, MailsTo, Registered
  <2>7. ASSUME NEW b \in Batches
        PROVE  Counted(b)'
    <3>1. MailsOf(b)' = MailsOf(b) /\ (Told(b) => Told(b)')
      BY <2>2, <2>3 DEF MailsOf, Told
    <3> QED
      BY <2>2, <3>1 DEF JobInv, Counted
  <2> QED
    BY <2>2, <2>4, <2>5, <2>6, <2>7 DEF JobInv
<1>2. CASE Scan(r)
  BY <1>2, CurrentRest DEF Scan, At, batchVars
<1>3. CASE FindSlot(r)
  <2>1. CASE Rest(r, Later(r))
    BY <1>3, <2>1, CurrentRest DEF FindSlot, At, batchVars
  <2>2. CASE Go(r, [run[r] EXCEPT !.at = "ids"]) /\ UNCHANGED isRunning
    <3> DEFINE c == [run[r] EXCEPT !.at = "ids"]
    <3>1. c.at = "ids"
      BY <1>3, StudentKnown DEF FindSlot, At
    <3>2. run' = [run EXCEPT ![r] = c]
      BY <2>2 DEF Go
    <3> HIDE DEF c
    <3>3. Current(c)
      BY <3>1 DEF Current, Writing
    <3> QED
      BY <1>3, <2>2, <3>2, <3>3, QuietRun DEF FindSlot, At, batchVars
  <2> QED
    BY <1>3, <2>1, <2>2 DEF FindSlot
<1>4. CASE DbEndsRun(r)
  BY <1>4, CurrentRest DEF DbEndsRun, At, batchVars, Fault
<1> QED
  BY <1>1, <1>2, <1>3, <1>4

(* The worker settles and completes: never an item of a student all of     *)
(* whose batches are told or in the mail.                                  *)
LEMMA WorkerStaysCurrent ==
  ASSUME MailInv, JobInv, NEW b \in Batches, Settle(b) \/ Complete(b)
  PROVE  JobInv'
<1>1. UNCHANGED <<notice, isRunning, run, mails, faults>>
  BY DEF Settle, Complete
<1>2. ASSUME NEW u, \A c \in Batches : Owner[c] = u => item[c] # "PENDING"
      PROVE  Registered(u)' = Registered(u)
  <2>1. \A c \in Batches : Owner[c] = u => item'[c] = item[c]
    BY <1>2 DEF Settle, Complete, Sources, MailInv, OutcomesSettled
  <2> QED
    BY <2>1 DEF Registered
<1>3. ASSUME NEW u, NEW ids, AllTold(u, ids), \A c \in ids : item[c] # "PENDING"
      PROVE  Registered(u)' = Registered(u)
  BY <1>2, <1>3 DEF AllTold, MailInv, OutcomesSettled
<1>4. ASSUME NEW q \in Runs
      PROVE  Current(run[q])'
  <2> SUFFICES ASSUME run[q].at \in Writing PROVE Current(run[q])'
    BY <1>1 DEF Current
  <2>1. Current(run[q]) /\ \A c \in run[q].ids : item[c] # "PENDING"
    BY DEF JobInv, MailInv, RunsExact, Exact
  <2>2. PICK c : c = run[q]
    OBVIOUS
  <2>3. Current(c) /\ c = run'[q]
    BY <1>1, <2>1, <2>2
  <2>4. AllTold(Head(c.groups), c.ids) =>
          /\ Registered(Head(c.groups))' = Registered(Head(c.groups))
          /\ LastLists(Head(c.groups)) => LastLists(Head(c.groups))'
    BY <1>1, <1>3, <2>1, <2>2 DEF LastLists, MailsTo
  <2>5. AllTold(Head(c.groups), c.ids)' => AllTold(Head(c.groups), c.ids)
    BY <1>1 DEF AllTold
  <2>6. Current(c)'
    BY <1>1, <2>3, <2>4, <2>5 DEF Current
  <2> QED
    BY <2>3, <2>6 DEF Current, AllTold, LastLists
<1>5. LastKnown'
  <2> SUFFICES ASSUME NEW u \in Students, \E c \in Batches : Owner[c] = u, AllTold(u, {})'
               PROVE  LastLists(u)'
    BY DEF LastKnown
  <2>1. AllTold(u, {}) /\ LastLists(u)
    BY <1>1 DEF JobInv, LastKnown, AllTold
  <2>2. Registered(u)' = Registered(u)
    BY <1>3, <2>1
  <2> QED
    BY <1>1, <2>1, <2>2 DEF LastLists, MailsTo
<1>6. (\A c \in Batches : Counted(c)') /\ OneRun' /\ faults' \in Nat
  BY <1>1 DEF JobInv, OneRun, Counted, Told, MailsOf
<1> QED
  BY <1>4, <1>5, <1>6 DEF JobInv

(* The mail is delivered, whether the job learns of it or not: the student *)
(* had an outcome left to be told, and is registered in what it lists.     *)
LEMMA DeliveryStaysCurrent ==
  ASSUME MailInv, JobInv, NEW r \in Runs, Send(r) \/ (SendFails(r) /\ Delivered(r))
  PROVE  JobInv'
<1>1. /\ run[r].at = "mail" /\ Delivered(r) /\ UNCHANGED <<item, notice, isRunning>>
      /\ \/ Go(r, [run[r] EXCEPT !.at = "sent"]) /\ faults' = faults
         \/ Go(r, [run[r] EXCEPT !.at = "failed"]) /\ faults' = faults + 1
  BY DEF Send, SendFails, At, batchVars, Fault
<1>2. PICK a \in {"sent", "failed"} :
        /\ Go(r, [run[r] EXCEPT !.at = a])
        /\ faults' = IF a = "sent" THEN faults ELSE faults + 1
  BY <1>1
<1>3. PICK c : c = [run[r] EXCEPT !.at = a]
  OBVIOUS
<1>4. /\ c.at = a /\ c.groups = run[r].groups /\ c.ids = run[r].ids /\ c.mail = run[r].mail
      /\ run' = [run EXCEPT ![r] = c]
  BY <1>1, <1>2, <1>3, MailAt DEF Writing, Go
<1>5. /\ run'[r] = c /\ isRunning
      /\ \A q \in Runs \ {r} : run'[q] = run[q] /\ run[q].at = "idle"
  BY <1>1, <1>4, RunAlone
<1>6. PICK n \in Nat :
        /\ DOMAIN mails = 1 .. n /\ DOMAIN mails' = 1 .. n + 1
        /\ \A i \in 1 .. n : mails'[i] = mails[i]
        /\ mails'[n + 1].to = Student(r) /\ mails'[n + 1].ids = run[r].ids
        /\ mails'[n + 1].registered = run[r].mail.registered
  BY <1>1, MailAppended
<1>7. /\ run[r].ids # {} /\ \A b \in run[r].ids : notice[b] # "SENT"
      /\ \A b \in run[r].ids : b \in Batches /\ Owner[b] = Student(r)
      /\ "registered" \in DOMAIN run[r].mail
      /\ AllTold(Student(r), run[r].ids) => run[r].mail.registered = Registered(Student(r))
  BY <1>1 DEF JobInv, Current, MailInv, RunsExact, Exact, Writing, Student
<1>8. \A u : Registered(u)' = Registered(u)
  BY <1>1 DEF Registered
<1>9. OneRun'
  BY <1>1, <1>5 DEF OneRun
<1>10. ASSUME AllTold(Student(r), run[r].ids)
       PROVE  LastLists(Student(r))'
  <2>1. PICK u : u = Student(r)
    OBVIOUS
  <2>2. mails'[n + 1].to = u /\ mails'[n + 1].registered = Registered(u)'
    BY <1>6, <1>7, <1>8, <1>10, <2>1
  <2>3. LastLists(u)'
    BY <1>6, <2>2 DEF LastLists, MailsTo
  <2>4. Student(r)' = u
    BY <1>4, <1>5, <2>1 DEF Student
  <2> QED
    BY <2>3, <2>4 DEF LastLists, MailsTo, Registered
<1>11. \A q \in Runs : Current(run[q])'
  <2>1. Current(run[r])'
    <3>1. PICK u, ids : u = Student(r) /\ ids = run[r].ids
      OBVIOUS
    <3>2. c.ids = ids /\ Head(c.groups) = u /\ c.mail = run[r].mail
      BY <1>4, <3>1 DEF Student
    <3>3. AllTold(u, ids)' => AllTold(u, ids)
      BY <1>1 DEF AllTold
    <3>4. AllTold(u, ids) => LastLists(u)'
      <4>1. Student(r)' = u
        BY <1>4, <1>5, <3>1 DEF Student
      <4> QED
        BY <1>10, <3>1, <4>1 DEF LastLists, MailsTo, Registered
    <3>5. Current(c)'
      BY <1>1, <1>4, <1>7, <1>8, <3>1, <3>2, <3>3, <3>4 DEF Current
    <3> QED
      BY <1>5, <3>5 DEF Current, AllTold, LastLists
  <2>2. ASSUME NEW q \in Runs \ {r}
        PROVE  Current(run[q])'
    BY <1>5 DEF Current, Writing
  <2> QED
    BY <2>1, <2>2
<1>12. LastKnown'
  <2> SUFFICES ASSUME NEW u \in Students, \E b \in Batches : Owner[b] = u, AllTold(u, {})'
               PROVE  LastLists(u)'
    BY DEF LastKnown
  <2>1. AllTold(u, {}) /\ LastLists(u)
    BY <1>1 DEF JobInv, LastKnown, AllTold
  <2>2. u # Student(r)
    BY <1>7, <2>1 DEF AllTold
  <2>3. MailsTo(u)' = MailsTo(u) /\ MailsTo(u) \subseteq 1 .. n
    <3>1. n + 1 \notin MailsTo(u)'
      BY <1>6, <2>2 DEF MailsTo
    <3> QED
      BY <1>6, <3>1 DEF MailsTo
  <2> QED
    BY <1>6, <1>8, <2>1, <2>3 DEF LastLists
<1>13. ASSUME NEW b \in Batches
       PROVE  Counted(b)'
  <2>1. Counted(b) /\ faults \in Nat
    BY DEF JobInv
  <2>2. CASE b \in run[r].ids
    <3>1. ~ Told(b)
      BY <1>1, <1>5, <1>7, <2>2 DEF Told
    <3>2. MailsOf(b)' = MailsOf(b) \cup {n + 1} /\ n + 1 \notin MailsOf(b)
      BY <1>6, <2>2 DEF MailsOf
    <3>3. PICK S : S = MailsOf(b)
      OBVIOUS
    <3>4. IsFiniteSet(S \cup {n + 1}) /\ Cardinality(S \cup {n + 1}) = Cardinality(S) + 1
      BY <2>1, <3>2, <3>3, FS_AddElement DEF Counted
    <3>5. Cardinality(S) \in Nat /\ Cardinality(S) <= faults
      BY <2>1, <3>1, <3>3 DEF Counted
    <3>6. a = "sent" => Told(b)'
      BY <1>4, <1>5, <2>2 DEF Told
    <3> QED
      BY <1>2, <2>1, <3>2, <3>3, <3>4, <3>5, <3>6 DEF Counted
  <2>3. CASE b \notin run[r].ids
    <3>1. MailsOf(b)' = MailsOf(b)
      BY <1>6, <2>3 DEF MailsOf
    <3>2. Told(b) => Told(b)'
      BY <1>1, <1>5, <2>3 DEF Told
    <3> QED
      BY <1>2, <2>1, <3>1, <3>2 DEF Counted
  <2> QED
    BY <2>2, <2>3
<1>14. faults' \in Nat
  BY <1>2 DEF JobInv
<1> QED
  BY <1>9, <1>11, <1>12, <1>13, <1>14 DEF JobInv

(* updateMany.  The batches are marked, the run goes on to another student *)
(* or ends.                                                                *)
LEMMA MarkStaysCurrent ==
  ASSUME MailInv, JobInv, NEW r \in Runs, MarkSent(r) \/ MarkFailed(r)
  PROVE  JobInv'
<1> DEFINE next == [at |-> "slot", groups |-> Later(r)]
<1>1. /\ run[r].at \in {"sent", "failed"} /\ UNCHANGED <<item, done, mails, faults>>
      /\ \/ /\ run[r].at = "sent"
            /\ notice' = [b \in Batches |-> IF b \in run[r].ids THEN "SENT" ELSE notice[b]]
         \/ /\ run[r].at = "failed"
            /\ notice' = [b \in Batches |-> IF b \in run[r].ids THEN "FAILED" ELSE notice[b]]
      /\ Rest(r, Later(r))
  BY DEF MarkSent, MarkFailed, At
<1>2. \/ run' = [run EXCEPT ![r] = Idle]
      \/ run' = [run EXCEPT ![r] = next] /\ UNCHANGED isRunning
  BY <1>1 DEF Rest, Over, Go
<1>3. PICK c : /\ c.at \in {"idle", "slot"} /\ run' = [run EXCEPT ![r] = c]
               /\ c.at = "slot" => UNCHANGED isRunning
  <2>1. Idle.at = "idle" /\ next.at = "slot"
    BY DEF Idle
  <2> HIDE DEF next
  <2> QED
    BY <1>2, <2>1
<1>4. /\ run'[r] = c /\ isRunning
      /\ \A q \in Runs \ {r} : run'[q] = run[q] /\ run[q].at = "idle"
  BY <1>1, <1>3, RunAlone
<1>5. OneRun'
  BY <1>3, <1>4 DEF OneRun
<1>6. \A q \in Runs : Current(run[q])'
  BY <1>3, <1>4 DEF Current, Writing
<1>7. /\ \A b \in run[r].ids : b \in Batches /\ notice[b] # "SENT" /\ Owner[b] = Student(r)
      /\ AllTold(Student(r), run[r].ids) /\ run[r].at = "sent" => LastLists(Student(r))
  BY <1>1 DEF JobInv, Current, MailInv, RunsExact, Exact, Writing, Student
<1>8. ASSUME NEW b \in Batches
      PROVE  /\ notice'[b] = "SENT" <=>
                  notice[b] = "SENT" \/ (run[r].at = "sent" /\ b \in run[r].ids)
             /\ Told(b)' <=> Told(b)
  <2>1. notice'[b] = "SENT" <=>
          notice[b] = "SENT" \/ (run[r].at = "sent" /\ b \in run[r].ids)
    BY <1>1, <1>7
  <2>2. Told(b) <=> notice'[b] = "SENT"
    BY <1>1, <1>4, <2>1 DEF Told
  <2>3. \A q \in Runs : run'[q].at # "sent"
    BY <1>3, <1>4
  <2> QED
    BY <2>1, <2>2, <2>3 DEF Told
<1>9. LastKnown'
  <2> SUFFICES ASSUME NEW u \in Students, \E b \in Batches : Owner[b] = u, AllTold(u, {})'
               PROVE  LastLists(u)'
    BY DEF LastKnown
  <2>1. LastLists(u)
    <3>1. CASE AllTold(u, {})
      BY <3>1 DEF JobInv, LastKnown
    <3>2. CASE ~ AllTold(u, {})
      <4>1. PICK b \in Batches : Owner[b] = u /\ notice[b] # "SENT"
        BY <3>2 DEF AllTold
      <4>2. run[r].at = "sent" /\ b \in run[r].ids /\ u = Student(r)
        BY <1>7, <1>8, <4>1 DEF AllTold
      <4>3. AllTold(u, run[r].ids)
        BY <1>8 DEF AllTold
      <4> QED
        BY <1>7, <4>2, <4>3
    <3> QED
      BY <3>1, <3>2
  <2> QED
    BY <1>1, <2>1 DEF LastLists, MailsTo, Registered
<1>10. ASSUME NEW b \in Batches
       PROVE  Counted(b)'
  <2>1. MailsOf(b)' = MailsOf(b) /\ UNCHANGED faults /\ (Told(b)' <=> Told(b))
    BY <1>1, <1>8 DEF MailsOf
  <2> QED
    BY <2>1 DEF JobInv, Counted
<1>11. faults' \in Nat
  BY <1>1 DEF JobInv
<1> QED
  BY <1>5, <1>6, <1>9, <1>10, <1>11 DEF JobInv

LEMMA CrashStaysCurrent ==
  ASSUME MailInv, JobInv, Crash
  PROVE  JobInv'
<1>1. /\ UNCHANGED <<item, notice, mails>> /\ faults' = faults + 1
      /\ \A r \in Runs : run'[r].at = "idle"
  BY DEF Crash, Fault, batchVars, Idle
<1>2. OneRun' /\ \A r \in Runs : Current(run[r])'
  BY <1>1 DEF OneRun, Current, Writing
<1>3. LastKnown'
  BY <1>1 DEF JobInv, LastKnown, AllTold, LastLists, MailsTo, Registered
<1>4. ASSUME NEW b \in Batches
      PROVE  Counted(b)'
  BY <1>1 DEF JobInv, Counted, MailsOf
<1> QED
  BY <1>1, <1>2, <1>3, <1>4 DEF JobInv

LEMMA NextStaysCurrent ==
  ASSUME MailInv, JobInv, [Next]_vars
  PROVE  JobInv'
<1>1. ASSUME NEW r \in Runs, RunStep(r)
      PROVE  JobInv'
  BY <1>1, StartStaysCurrent, FindIdsStaysCurrent, ReadStaysCurrent,
     DeliveryStaysCurrent, MarkStaysCurrent DEF RunStep
<1>2. ASSUME NEW r \in Runs, Fire(r) \/ DbEndsRun(r)
      PROVE  JobInv'
  BY <1>2, StartStaysCurrent
<1>3. ASSUME NEW r \in Runs, SendFails(r)
      PROVE  JobInv'
  <2>1. CASE Delivered(r)
    BY <1>3, <2>1, DeliveryStaysCurrent
  <2>2. CASE UNCHANGED mails
    BY <1>3, <2>2, FailureStaysCurrent DEF SendFails, At, batchVars, Writing, Fault
  <2> QED
    BY <1>3, <2>1, <2>2 DEF SendFails
<1>4. ASSUME NEW r \in Runs, DbFails(r)
      PROVE  JobInv'
  BY <1>4, FailureStaysCurrent DEF DbFails, At, batchVars, Writing, Fault
<1>5. CASE Tick \/ UNCHANGED vars
  <2>1. UNCHANGED <<item, done, notice, mails, run, isRunning, faults>>
    BY <1>5 DEF Tick, vars, batchVars
  <2>2. OneRun' /\ faults' \in Nat
    BY <2>1 DEF JobInv, OneRun
  <2>3. \A r \in Runs : Current(run[r])'
    BY <2>1 DEF JobInv, Current, AllTold, LastLists, MailsTo, Registered
  <2>4. LastKnown'
    BY <2>1 DEF JobInv, LastKnown, AllTold, LastLists, MailsTo, Registered
  <2>5. \A b \in Batches : Counted(b)'
    BY <2>1 DEF JobInv, Counted, Told, MailsOf
  <2> QED
    BY <2>2, <2>3, <2>4, <2>5 DEF JobInv
<1> QED
  BY <1>1, <1>2, <1>3, <1>4, <1>5, WorkerStaysCurrent, CrashStaysCurrent DEF Next

(* The last mail has the last word, for any number of students and batches *)
(* and however often the job crashes and its calls fail: when every batch  *)
(* of a student is SENT, his latest mail lists what he is registered in.   *)
THEOREM LastMailHasLastWord == Spec => []LastMailIsCurrent
<1> DEFINE Inv == MailInv /\ JobInv
<1>1. Init => Inv
  BY MailInvInit, JobInvInit
<1>2. Inv /\ [Next]_vars => Inv'
  BY NextKeepsMails, NextStaysCurrent
<1>3. Inv => LastMailIsCurrent
  BY DEF JobInv, LastKnown, AllTold, LastLists, LastMailIsCurrent
<1> QED
  BY <1>1, <1>2, <1>3, PTL DEF Spec

(* A batch is in one mail, and in one more at most for every fault.        *)
THEOREM MailsAreCounted == Spec => []MailedOncePerFault
<1> DEFINE Inv == MailInv /\ JobInv
<1>1. Init => Inv
  BY MailInvInit, JobInvInit
<1>2. Inv /\ [Next]_vars => Inv'
  BY NextKeepsMails, NextStaysCurrent
<1>3. Inv => MailedOncePerFault
  <2> SUFFICES ASSUME Inv, NEW b \in Batches
               PROVE  Cardinality(MailsOf(b)) <= 1 + faults
    BY DEF MailedOncePerFault, MailsOf
  <2> QED
    BY DEF JobInv, Counted
<1> QED
  BY <1>1, <1>2, <1>3, PTL DEF Spec
=============================================================================
