--------------------------- MODULE AccountsProofs ---------------------------
(***************************************************************************)
(* No session outlives its password, no OTP sets two, and every start of   *)
(* an instance leaves a default administrator, but for the exceptions that *)
(* Accounts names.                                                         *)
(***************************************************************************)
EXTENDS Accounts, FiniteSetTheorems, FunctionTheorems, TLAPS

(* The keys that were ever used: a deleted row is not inserted again. *)
Known == {i \in Ids : users[i] # NoRow}

(* The requests that the argument follows, by the tokens and keys there are. *)
Shaped(t, issued, known) ==
  /\ "step" \in DOMAIN t
  /\ t.step \in {"reset", "reset_write", "reset_del"} =>
       \E n \in issued : t = [step |-> t.step, token |-> n]
  /\ t.step \in {"update_find", "update"} =>
       \E code, patch : patch \in UserPatches /\ t = [step |-> t.step, code |-> code, patch |-> patch]
  /\ t.step = "create" => t.row \in NewUsers
  /\ t.step = "import_find" => t.file \in Files
  /\ t.step = "import_insert" => t.rows \subseteq CsvRow
  /\ t.step = "session" => t.id \in known

(* t is about to end the session of i. *)
Closes(t, issued, i) ==
  \/ t.step = "drop" /\ t.id = i
  \/ t.step = "reset_del" /\ issued[t.token].user = i

Typed ==
  /\ users \in [Ids -> UserRow \cup {NoRow, Gone}]
  /\ passwords \in Nat
  /\ adminGone \in BOOLEAN
  /\ DOMAIN session = Ids /\ DOMAIN task = Procs /\ DOMAIN instance = Instances
  /\ \E issues : tokens \in Seq(issues)

TasksShaped == \A p \in Procs : Shaped(task[p], DOMAIN tokens, Known)

(* A key that was never used has no session to outlive anything. *)
SessionsAreKnown == \A i \in Ids \ Known : session[i] = Missing

(* An instance is past its look for the administrator only if there is one. *)
AdminKept ==
  \A n \in Instances :
    /\ instance[n] = "failed" => adminGone
    /\ instance[n] \in {"up", "email"} /\ ~ adminGone => ByCode(AdminCode) # {}

AccountsInv ==
  Typed /\ TasksShaped /\ SessionsAreKnown /\ SessionsFollowPasswords /\ AdminKept

LEMMA AccountsInvInit == ASSUME Init PROVE AccountsInv
<1>1. tokens \in Seq({}) /\ passwords \in Nat
  BY DEF Init
<1>2. adminGone \in BOOLEAN
  BY Zenon DEF Init
<1>3. users \in [Ids -> UserRow \cup {NoRow, Gone}]
  BY AccountsAssumption DEF Init
<1>4. DOMAIN session = Ids /\ DOMAIN task = Procs /\ DOMAIN instance = Instances
  BY DEF Init
<1>5. Typed
  BY <1>1, <1>2, <1>3, <1>4 DEF Typed
<1>6. TasksShaped
  BY DEF Init, TasksShaped, Shaped, Idle
<1>7. SessionsAreKnown /\ SessionsFollowPasswords
  BY DEF Init, SessionsAreKnown, SessionsFollowPasswords, Rows
<1>8. AdminKept
  BY DEF Init, AdminKept
<1> QED
  BY <1>5, <1>6, <1>7, <1>8 DEF AccountsInv

----------------------------------------------------------------------------
(* Requests.                                                               *)

LEMMA ClosingIs == ASSUME NEW i PROVE Closing(i) <=> \E p \in Procs : Closes(task[p], tokens, i)
BY DEF Closing, Closes, At

(* Tokens are only issued, never taken back. *)
Issuing == \A n \in DOMAIN tokens : n \in DOMAIN tokens' /\ tokens'[n] = tokens[n]

LEMMA NothingIssued == tokens' = tokens => Issuing
BY DEF Issuing

LEMMA ShapedStays ==
  ASSUME NEW t, NEW issued, NEW known, NEW later, NEW after,
         issued \subseteq later, known \subseteq after, Shaped(t, issued, known)
  PROVE  Shaped(t, later, after)
BY DEF Shaped

LEMMA TasksStay ==
  ASSUME TasksShaped, Typed, Issuing, Known \subseteq Known',
         NEW p \in Procs, NEW t, Goes(p, t), Shaped(t, DOMAIN tokens', Known')
  PROVE  TasksShaped'
<1> SUFFICES ASSUME NEW q \in Procs PROVE Shaped(task'[q], DOMAIN tokens', Known')
  BY DEF TasksShaped
<1>1. task'[q] = IF q = p THEN t ELSE task[q]
  BY DEF Goes, Typed
<1>2. DOMAIN tokens \subseteq DOMAIN tokens'
  BY DEF Issuing
<1>3. Shaped(task[q], DOMAIN tokens', Known')
  BY <1>2, ShapedStays DEF TasksShaped
<1> QED
  BY <1>1, <1>3

(* What was to be closed is to be closed still, unless p was to close it. *)
LEMMA ClosingStays ==
  ASSUME TasksShaped, Typed, Issuing, NEW p \in Procs, NEW t, Goes(p, t), NEW i, Closing(i),
         Closes(task[p], tokens, i) => Closes(t, tokens', i)
  PROVE  Closing(i)'
<1>1. PICK q \in Procs : Closes(task[q], tokens, i)
  BY ClosingIs
<1>2. Closes(task[q], tokens', i)
  <2>1. Shaped(task[q], DOMAIN tokens, Known)
    BY DEF TasksShaped
  <2>2. CASE task[q].step = "reset_del"
    <3>1. PICK n \in DOMAIN tokens : task[q] = [step |-> task[q].step, token |-> n]
      BY <2>1, <2>2 DEF Shaped
    <3>2. task[q].token \in DOMAIN tokens
      BY <3>1
    <3> QED
      BY <1>1, <3>2, <2>2 DEF Closes, Issuing
  <2>3. CASE task[q].step # "reset_del"
    BY <1>1, <2>3 DEF Closes
  <2> QED
    BY <2>2, <2>3
<1>3. task'[q] = IF q = p THEN t ELSE task[q]
  BY DEF Goes, Typed
<1>4. Closes(task'[q], tokens', i)
  BY <1>1, <1>2, <1>3
<1> QED
  BY <1>4 DEF Closing, Closes, At

----------------------------------------------------------------------------
(* Rows and sessions.                                                      *)

(* What a step may do to the row of i without a word to its session: insert *)
(* it, delete it, or keep its password.                                    *)
QuietRow(i) ==
  /\ i \in Known => i \in Known'
  /\ i \in Rows' => i \notin Known \/ (i \in Rows /\ users'[i].pw = users[i].pw)

LEMMA RowIsUser == ASSUME Typed, NEW i \in Rows PROVE users[i] \in UserRow /\ i \in Ids /\ i \in Known
BY AccountsAssumption DEF Typed, Rows, Known

LEMMA SameRows ==
  ASSUME UNCHANGED users
  PROVE  /\ Known' = Known /\ Rows' = Rows
         /\ \A i : QuietRow(i)
         /\ \A code : ByCode(code)' = ByCode(code)
BY DEF Known, Rows, QuietRow, ByCode

(* Sessions are as before, and rows change quietly or are being closed. *)
LEMMA SessionsStay ==
  ASSUME AccountsInv, Typed', UNCHANGED session, unclosed \subseteq unclosed',
         \A i \in Ids : Closing(i) => Closing(i)' \/ i \in unclosed',
         \A i \in Ids : QuietRow(i) \/ (i \in Known /\ i \in Known' /\ (Closing(i)' \/ i \in unclosed'))
  PROVE  SessionsAreKnown' /\ SessionsFollowPasswords'
<1>1. SessionsAreKnown'
  BY DEF AccountsInv, SessionsAreKnown, QuietRow, Known
<1>2. ASSUME NEW i \in Rows', i \notin unclosed', session'[i] # Missing, ~ Closing(i)'
      PROVE  session'[i] = users'[i].pw
  <2>1. i \in Ids /\ i \in Known'
    BY DEF Rows, Known, Typed
  <2>2. i \in Known
    BY <1>2, <2>1 DEF AccountsInv, SessionsAreKnown
  <2>3. i \in Rows /\ users'[i].pw = users[i].pw
    BY <1>2, <2>1, <2>2 DEF QuietRow
  <2>4. i \notin unclosed /\ ~ Closing(i)
    BY <1>2, <2>1
  <2> QED
    BY <1>2, <2>3, <2>4 DEF AccountsInv, SessionsFollowPasswords
<1>3. SessionsFollowPasswords'
  BY <1>2 DEF SessionsFollowPasswords
<1> QED
  BY <1>1, <1>3

LEMMA KnownStays ==
  ASSUME \A i \in Ids : QuietRow(i) \/ (i \in Known /\ i \in Known')
  PROVE  Known \subseteq Known'
BY DEF QuietRow, Known

LEMMA AdminStays ==
  ASSUME AdminKept, UNCHANGED instance, adminGone => adminGone',
         adminGone' \/ (ByCode(AdminCode) # {} => ByCode(AdminCode)' # {})
  PROVE  AdminKept'
BY DEF AdminKept

(* A request that moves on and touches neither rows nor sessions. *)
LEMMA RequestMoves ==
  ASSUME AccountsInv, NEW p \in Procs, NEW t, Goes(p, t), Issuing, Typed',
         UNCHANGED <<users, session, instance, adminGone>>, unclosed \subseteq unclosed',
         Shaped(t, DOMAIN tokens', Known),
         \A i \in Ids : Closes(task[p], tokens, i) => Closes(t, tokens', i) \/ i \in unclosed'
  PROVE  AccountsInv'
<1>1. Known' = Known /\ (\A i : QuietRow(i)) /\ ByCode(AdminCode)' = ByCode(AdminCode)
  BY SameRows
<1>2. TasksShaped'
  BY <1>1, TasksStay DEF AccountsInv
<1>3. \A i \in Ids : Closing(i) => Closing(i)' \/ i \in unclosed'
  BY ClosingStays DEF AccountsInv
<1>4. SessionsAreKnown' /\ SessionsFollowPasswords'
  BY <1>1, <1>3, SessionsStay
<1>5. AdminKept'
  BY <1>1, AdminStays DEF AccountsInv
<1> QED
  BY <1>2, <1>4, <1>5 DEF AccountsInv

LEMMA TypedMoves ==
  ASSUME Typed, NEW p \in Procs, NEW t, Goes(p, t),
         UNCHANGED <<users, session, tokens, instance, passwords, adminGone>>
  PROVE  Typed'
BY DEF Typed, Goes

(* ... and tells nobody else. *)
LEMMA RequestGoes ==
  ASSUME AccountsInv, NEW p \in Procs, NEW t, Goes(p, t),
         UNCHANGED <<users, session, tokens, instance, passwords, adminGone, unclosed>>,
         Shaped(t, DOMAIN tokens, Known),
         \A i \in Ids : Closes(task[p], tokens, i) => Closes(t, tokens, i)
  PROVE  AccountsInv'
<1>1. Typed'
  BY TypedMoves DEF AccountsInv
<1>2. Issuing
  BY NothingIssued
<1> QED
  BY <1>1, <1>2, RequestMoves

LEMMA IdleIsShaped == Shaped(Idle, DOMAIN tokens, Known) /\ \A i : ~ Closes(Idle, tokens, i)
BY DEF Shaped, Closes, Idle

(* Steps that no part of the invariant looks at. *)
Followed == {"reset", "reset_write", "reset_del", "update_find", "update", "create", "import_find",
             "import_insert", "session", "drop"}

LEMMA PlainIsShaped ==
  ASSUME NEW t, "step" \in DOMAIN t, t.step \notin Followed \/ t.step = "drop",
         NEW issued, NEW known
  PROVE  Shaped(t, issued, known)
BY DEF Shaped, Followed

LEMMA StepIsPlain ==
  ASSUME AccountsInv, NEW p \in Procs, NEW step, step \notin Followed
  PROVE  /\ [task[p] EXCEPT !.step = step].step = step
         /\ Shaped([task[p] EXCEPT !.step = step], DOMAIN tokens, Known)
<1>1. "step" \in DOMAIN task[p]
  BY DEF AccountsInv, TasksShaped, Shaped
<1>2. "step" \in DOMAIN [task[p] EXCEPT !.step = step]
  BY <1>1
<1>3. [task[p] EXCEPT !.step = step].step = step
  BY <1>1
<1> QED
  BY <1>2, <1>3, PlainIsShaped

LEMMA AskKeeps ==
  ASSUME AccountsInv, NEW p \in Procs, NEW t, Ask(p, t), Shaped(t, DOMAIN tokens, Known)
  PROVE  AccountsInv'
<1>1. \A i : ~ Closes(task[p], tokens, i)
  BY DEF Ask, At, Closes
<1>2. Goes(p, t) /\ UNCHANGED <<users, session, tokens, instance, passwords, adminGone, unclosed>>
  BY DEF Ask, redisVars, noted
<1> QED
  BY <1>1, <1>2, RequestGoes

LEMMA AsksKeep == ASSUME AccountsInv, NEW p \in Procs, Asks(p) PROVE AccountsInv'
<1>1. CASE AskLogin(p)
  <2>1. PICK i \in Rows : Ask(p, [step |-> "login", code |-> users[i].code, typed |-> users[i].pw])
    BY <1>1 DEF AskLogin
  <2> QED
    BY <2>1, AskKeeps, PlainIsShaped DEF Followed
<1>2. CASE AskLogout(p)
  BY <1>2, AskKeeps, PlainIsShaped DEF AskLogout
<1>3. CASE AskChange(p)
  <2>1. PICK i \in Rows : Ask(p, [step |-> "change", id |-> i, typed |-> users[i].pw])
    BY <1>3 DEF AskChange
  <2> QED
    BY <2>1, AskKeeps, PlainIsShaped DEF Followed
<1>4. CASE AskOtp(p)
  <2>1. PICK email : Ask(p, [step |-> "otp", email |-> email])
    BY <1>4 DEF AskOtp
  <2> QED
    BY <2>1, AskKeeps, PlainIsShaped DEF Followed
<1>5. CASE AskVerify(p)
  <2>1. PICK m \in mailed :
          Ask(p, [step |-> "verify", email |-> users[m.user].email, otp |-> m.otp])
    BY <1>5 DEF AskVerify
  <2> QED
    BY <2>1, AskKeeps, PlainIsShaped DEF Followed
<1>6. CASE AskReset(p)
  <2>1. PICK n \in DOMAIN tokens : Ask(p, [step |-> "reset", token |-> n])
    BY <1>6 DEF AskReset
  <2>2. Shaped([step |-> "reset", token |-> n], DOMAIN tokens, Known)
    BY DEF Shaped
  <2> QED
    BY <2>1, <2>2, AskKeeps
<1>7. CASE AskCreate(p)
  <2>1. PICK row \in NewUsers : Ask(p, [step |-> "create", row |-> row])
    BY <1>7 DEF AskCreate
  <2>2. Shaped([step |-> "create", row |-> row], DOMAIN tokens, Known)
    BY DEF Shaped
  <2> QED
    BY <2>1, <2>2, AskKeeps
<1>8. CASE AskUpdate(p)
  <2>1. PICK code, patch :
          /\ patch \in UserPatches
          /\ Ask(p, [step |-> "update_find", code |-> code, patch |-> patch])
    BY <1>8 DEF AskUpdate
  <2>2. Shaped([step |-> "update_find", code |-> code, patch |-> patch], DOMAIN tokens, Known)
    BY <2>1 DEF Shaped
  <2> QED
    BY <2>1, <2>2, AskKeeps
<1>9. CASE AskRemove(p)
  <2>1. PICK code : Ask(p, [step |-> "remove_find", code |-> code])
    BY <1>9 DEF AskRemove
  <2> QED
    BY <2>1, AskKeeps, PlainIsShaped DEF Followed
<1>10. CASE AskImport(p)
  <2>1. PICK file \in Files :
          \/ Ask(p, Idle)
          \/ Ask(p, [step |-> "import_find", file |-> file])
    BY <1>10 DEF AskImport
  <2>2. Shaped([step |-> "import_find", file |-> file], DOMAIN tokens, Known)
    BY DEF Shaped
  <2> QED
    BY <2>1, <2>2, IdleIsShaped, AskKeeps
<1> QED
  BY <1>1, <1>2, <1>3, <1>4, <1>5, <1>6, <1>7, <1>8, <1>9, <1>10 DEF Asks

----------------------------------------------------------------------------
(* Sessions and passwords.                                                 *)

(* The session of i begins, or ends: no other session is concerned.        *)
LEMMA SessionMoves ==
  ASSUME AccountsInv, NEW p \in Procs, NEW i, NEW value, Goes(p, Idle),
         session' = [session EXCEPT ![i] = value],
         unclosed \ {i} \subseteq unclosed',
         UNCHANGED <<users, tokens, instance, passwords, adminGone>>,
         \A j \in Ids : Closes(task[p], tokens, j) => j = i,
         value = Missing \/ (i \in Known /\ (i \in Rows => value = users[i].pw \/ i \in unclosed'))
  PROVE  AccountsInv'
<1>1. Known' = Known /\ Rows' = Rows /\ ByCode(AdminCode)' = ByCode(AdminCode)
  BY SameRows
<1>2. Typed'
  BY DEF Typed, Goes, AccountsInv
<1>3. Issuing
  BY NothingIssued
<1>4. TasksShaped'
  BY <1>1, <1>3, IdleIsShaped, TasksStay DEF AccountsInv
<1>5. \A j \in Ids : session'[j] = IF j = i THEN value ELSE session[j]
  BY DEF AccountsInv, Typed
<1>6. SessionsAreKnown'
  BY <1>1, <1>5 DEF AccountsInv, SessionsAreKnown
<1>7. ASSUME NEW j \in Rows', j \notin unclosed', session'[j] # Missing, ~ Closing(j)'
      PROVE  session'[j] = users'[j].pw
  <2>1. j \in Ids
    BY DEF Rows
  <2>2. CASE j = i
    BY <1>1, <1>5, <1>7, <2>1, <2>2
  <2>3. CASE j # i
    <3>1. ~ Closing(j)
      BY <1>3, <1>7, <2>1, <2>3, ClosingStays DEF AccountsInv
    <3> QED
      BY <1>1, <1>5, <1>7, <2>1, <2>3, <3>1 DEF AccountsInv, SessionsFollowPasswords
  <2> QED
    BY <2>2, <2>3
<1>8. SessionsFollowPasswords'
  BY <1>7 DEF SessionsFollowPasswords
<1>9. AdminKept'
  BY <1>1, AdminStays DEF AccountsInv
<1> QED
  BY <1>2, <1>4, <1>6, <1>8, <1>9 DEF AccountsInv

(* A row is given a new password, and its session is closed or noted.      *)
LEMMA PasswordMoves ==
  ASSUME AccountsInv, NEW p \in Procs, NEW i \in Rows, NEW t, Goes(p, t), SetPassword(i),
         Closes(t, tokens, i), Shaped(t, DOMAIN tokens, Known),
         \A j \in Ids : Closes(task[p], tokens, j) => Closes(t, tokens, j),
         UNCHANGED <<session, tokens, instance, adminGone, unclosed>>
  PROVE  AccountsInv'
<1>1. users[i] \in UserRow /\ i \in Ids /\ i \in Known
  BY RowIsUser DEF AccountsInv
<1>2. users' = [users EXCEPT ![i].pw = passwords + 1] /\ passwords' \in Nat
  BY DEF SetPassword, AccountsInv, Typed
<1>3. users'[i] \in UserRow /\ users'[i].code = users[i].code
  BY <1>1, <1>2 DEF AccountsInv, Typed, UserRow
<1>4. \A j \in Ids : j # i => users'[j] = users[j]
  BY <1>2 DEF AccountsInv, Typed
<1>5. users' \in [Ids -> UserRow \cup {NoRow, Gone}]
  BY <1>1, <1>2, <1>3, <1>4 DEF AccountsInv, Typed
<1>6. Typed'
  BY <1>2, <1>5 DEF AccountsInv, Typed, Goes
<1>7. i \in Known'
  BY <1>1, <1>3, AccountsAssumption DEF Known
<1>8. \A j \in Ids : QuietRow(j) \/ (j = i /\ j \in Known /\ j \in Known')
  BY <1>1, <1>4, <1>7 DEF QuietRow, Known, Rows
<1>9. Known \subseteq Known'
  BY <1>8, KnownStays
<1>10. Issuing
  BY NothingIssued
<1>11. Shaped(t, DOMAIN tokens', Known')
  BY <1>9, ShapedStays
<1>12. TasksShaped'
  BY <1>9, <1>10, <1>11, TasksStay DEF AccountsInv
<1>13. Closing(i)'
  <2>1. Closes(task'[p], tokens', i)
    BY DEF Goes, AccountsInv, Typed
  <2> QED
    BY <2>1 DEF Closes, Closing, At
<1>14. \A j \in Ids : Closing(j) => Closing(j)'
  BY <1>10, ClosingStays DEF AccountsInv
<1>15. SessionsAreKnown' /\ SessionsFollowPasswords'
  BY <1>6, <1>8, <1>13, <1>14, SessionsStay
<1>16. ByCode(AdminCode) \subseteq ByCode(AdminCode)'
  BY <1>3, <1>4, AccountsAssumption DEF ByCode, Rows
<1>17. AdminKept'
  BY <1>16, AdminStays DEF AccountsInv
<1> QED
  BY <1>6, <1>12, <1>15, <1>17 DEF AccountsInv

LEMMA SessionStepKeeps == ASSUME AccountsInv, NEW p \in Procs, SessionStep(p) PROVE AccountsInv'
<1>0. Shaped(task[p], DOMAIN tokens, Known)
  BY DEF AccountsInv, TasksShaped
<1>1. CASE LoginFind(p)
  <2>1. UNCHANGED <<users, session, tokens, instance, passwords, adminGone, unclosed>>
    BY <1>1 DEF LoginFind, redisVars, noted
  <2>2. \A i \in Ids : ~ Closes(task[p], tokens, i)
    BY <1>1 DEF LoginFind, At, Closes
  <2>3. CASE Goes(p, Idle)
    BY <2>1, <2>2, <2>3, IdleIsShaped, RequestGoes
  <2>4. ASSUME NEW i \in ByCode(task[p].code), Goes(p, [step |-> "session", id |-> i, pw |-> users[i].pw])
        PROVE  AccountsInv'
    <3>1. i \in Known
      BY RowIsUser DEF ByCode, AccountsInv
    <3>2. Shaped([step |-> "session", id |-> i, pw |-> users[i].pw], DOMAIN tokens, Known)
      BY <3>1 DEF Shaped
    <3> QED
      BY <2>1, <2>2, <2>4, <3>2, RequestGoes
  <2> QED
    BY <1>1, <2>3, <2>4 DEF LoginFind
<1>2. CASE SetSession(p)
  <2> DEFINE i == task[p].id
  <2>1. i \in Known
    BY <1>0, <1>2 DEF SetSession, At, Shaped
  <2>2. /\ Goes(p, Idle)
        /\ session' = [session EXCEPT ![i] = task[p].pw]
        /\ UNCHANGED <<users, tokens, instance, passwords, adminGone>>
        /\ unclosed' = IF i \in Rows /\ users[i].pw # task[p].pw
                       THEN unclosed \cup {i} ELSE unclosed \ {i}
    BY <1>2 DEF SetSession
  <2>3. \A j \in Ids : ~ Closes(task[p], tokens, j)
    BY <1>2 DEF SetSession, At, Closes
  <2>4. i \in Rows => task[p].pw = users[i].pw \/ i \in unclosed'
    BY <2>2
  <2>5. unclosed \ {i} \subseteq unclosed'
    BY <2>2
  <2> QED
    BY <2>1, <2>2, <2>3, <2>4, <2>5, SessionMoves
<1>3. CASE DropSession(p)
  <2>1. \A j \in Ids : Closes(task[p], tokens, j) => j = task[p].id
    BY <1>3 DEF DropSession, At, Closes
  <2> QED
    BY <1>3, <2>1, SessionMoves DEF DropSession
<1>4. CASE ChangeFind(p)
  <2>1. UNCHANGED <<users, session, tokens, instance, passwords, adminGone, unclosed>>
    BY <1>4 DEF ChangeFind, redisVars, noted
  <2>2. \A i \in Ids : ~ Closes(task[p], tokens, i)
    BY <1>4 DEF ChangeFind, At, Closes
  <2>3. Goes(p, Idle) \/ Goes(p, [task[p] EXCEPT !.step = "change_write"])
    BY <1>4 DEF ChangeFind, Step
  <2>4. Shaped([task[p] EXCEPT !.step = "change_write"], DOMAIN tokens, Known)
    BY StepIsPlain DEF Followed
  <2> QED
    BY <2>1, <2>2, <2>3, <2>4, IdleIsShaped, RequestGoes
<1>5. CASE ChangeWrite(p)
  <2>1. \A i \in Ids : ~ Closes(task[p], tokens, i)
    BY <1>5 DEF ChangeWrite, At, Closes
  <2>2. UNCHANGED <<session, tokens, instance, adminGone, unclosed>>
    BY <1>5 DEF ChangeWrite, redisVars, noted
  <2>3. CASE task[p].id \in Rows
    <3> DEFINE t == [step |-> "drop", id |-> task[p].id]
    <3>1. SetPassword(task[p].id) /\ Goes(p, t)
      BY <1>5, <2>3 DEF ChangeWrite
    <3>2. Closes(t, tokens, task[p].id) /\ Shaped(t, DOMAIN tokens, Known)
      BY PlainIsShaped DEF Closes
    <3> HIDE DEF t
    <3> QED
      BY <2>1, <2>2, <2>3, <3>1, <3>2, PasswordMoves
  <2>4. CASE task[p].id \notin Rows
    BY <1>5, <2>1, <2>2, <2>4, IdleIsShaped, RequestGoes DEF ChangeWrite
  <2> QED
    BY <2>3, <2>4
<1> QED
  BY <1>1, <1>2, <1>3, <1>4, <1>5 DEF SessionStep

----------------------------------------------------------------------------
(* Forgotten passwords.                                                    *)

LEMMA TokenIssued ==
  ASSUME Typed, NEW issue, tokens' = Append(tokens, issue)
  PROVE  Issuing /\ \E issues : tokens' \in Seq(issues)
<1>1. PICK issues : tokens \in Seq(issues)
  BY DEF Typed
<1>2. tokens \in Seq(issues \cup {issue})
  BY <1>1
<1>3. tokens' \in Seq(issues \cup {issue})
  BY <1>2
<1>4. Issuing
  BY <1>1 DEF Issuing
<1> QED
  BY <1>3, <1>4

(* A request that goes to a step nobody follows, or ends. *)
LEMMA StepGoes ==
  ASSUME AccountsInv, NEW p \in Procs, NEW step, step \notin Followed,
         Goes(p, Idle) \/ Step(p, step),
         UNCHANGED <<users, session, tokens, instance, passwords, adminGone, unclosed>>,
         \A i : ~ Closes(task[p], tokens, i)
  PROVE  AccountsInv'
<1>1. Shaped([task[p] EXCEPT !.step = step], DOMAIN tokens, Known)
  BY StepIsPlain
<1> QED
  BY <1>1, IdleIsShaped, RequestGoes DEF Step

LEMMA OtpStepKeeps == ASSUME AccountsInv, NEW p \in Procs, OtpStep(p) PROVE AccountsInv'
<1>0. Shaped(task[p], DOMAIN tokens, Known)
  BY DEF AccountsInv, TasksShaped
<1>1. CASE OtpFind(p)
  <2>1. UNCHANGED <<users, session, tokens, instance, passwords, adminGone, unclosed>>
    BY <1>1 DEF OtpFind, redisVars, noted
  <2>2. \A i : ~ Closes(task[p], tokens, i)
    BY <1>1 DEF OtpFind, At, Closes
  <2>3. \/ Goes(p, Idle)
        \/ \E i : Goes(p, [step |-> "otp_rate", id |-> i])
    BY <1>1 DEF OtpFind
  <2>4. \A i : Shaped([step |-> "otp_rate", id |-> i], DOMAIN tokens, Known)
    BY DEF Shaped
  <2> QED
    BY <2>1, <2>2, <2>3, <2>4, IdleIsShaped, RequestGoes
<1>2. CASE OtpRate(p)
  <2>1. \A i : ~ Closes(task[p], tokens, i)
    BY <1>2 DEF OtpRate, At, Closes
  <2>2. Goes(p, Idle) \/ Step(p, "otp_set")
    BY <1>2 DEF OtpRate
  <2> QED
    BY <1>2, <2>1, <2>2, StepGoes DEF OtpRate, redisVars, noted, Followed
<1>3. CASE OtpSet(p)
  <2>1. \A i : ~ Closes(task[p], tokens, i)
    BY <1>3 DEF OtpSet, At, Closes
  <2>2. Goes(p, [step |-> "otp_limit", id |-> task[p].id, otp |-> otps + 1])
    BY <1>3 DEF OtpSet
  <2>3. Shaped([step |-> "otp_limit", id |-> task[p].id, otp |-> otps + 1], DOMAIN tokens, Known)
    BY DEF Shaped
  <2> QED
    BY <1>3, <2>1, <2>2, <2>3, RequestGoes DEF OtpSet, noted
<1>4. CASE OtpLimit(p)
  <2>1. \A i : ~ Closes(task[p], tokens, i)
    BY <1>4 DEF OtpLimit, At, Closes
  <2> QED
    BY <1>4, <2>1, StepGoes DEF OtpLimit, noted, Followed
<1>5. CASE OtpMail(p)
  <2>1. \A i : ~ Closes(task[p], tokens, i)
    BY <1>5 DEF OtpMail, At, Closes
  <2> QED
    BY <1>5, <2>1, IdleIsShaped, RequestGoes DEF OtpMail, noted
<1>6. CASE VerifyFind(p)
  <2>1. UNCHANGED <<users, session, tokens, instance, passwords, adminGone, unclosed>>
    BY <1>6 DEF VerifyFind, redisVars, noted
  <2>2. \A i : ~ Closes(task[p], tokens, i)
    BY <1>6 DEF VerifyFind, At, Closes
  <2>3. \/ Goes(p, Idle)
        \/ \E i : Goes(p, [step |-> "verify_get", id |-> i, otp |-> task[p].otp])
    BY <1>6 DEF VerifyFind
  <2>4. \A i : Shaped([step |-> "verify_get", id |-> i, otp |-> task[p].otp], DOMAIN tokens, Known)
    BY DEF Shaped
  <2> QED
    BY <2>1, <2>2, <2>3, <2>4, IdleIsShaped, RequestGoes
<1>7. CASE VerifyGet(p)
  <2>1. \A i : ~ Closes(task[p], tokens, i)
    BY <1>7 DEF VerifyGet, At, Closes
  <2>2. Goes(p, Idle) \/ Step(p, "verify_del")
    BY <1>7 DEF VerifyGet
  <2> QED
    BY <1>7, <2>1, <2>2, StepGoes DEF VerifyGet, redisVars, Followed
<1>8. CASE VerifyDel(p)
  <2>1. \A i : ~ Closes(task[p], tokens, i)
    BY <1>8 DEF VerifyDel, At, Closes
  <2> QED
    BY <1>8, <2>1, StepGoes DEF VerifyDel, noted, Followed
<1>9. CASE VerifyToken(p)
  <2>1. \A i : ~ Closes(task[p], tokens, i)
    BY <1>9 DEF VerifyToken, At, Closes
  <2>2. Issuing /\ \E issues : tokens' \in Seq(issues)
    BY <1>9, TokenIssued DEF VerifyToken, AccountsInv
  <2>3. Goes(p, Idle) /\ UNCHANGED <<users, session, instance, passwords, adminGone, unclosed>>
    BY <1>9 DEF VerifyToken, noted
  <2>4. Typed'
    BY <2>2, <2>3 DEF AccountsInv, Typed, Goes
  <2>5. Shaped(Idle, DOMAIN tokens', Known)
    BY DEF Shaped, Idle
  <2> QED
    BY <2>1, <2>2, <2>3, <2>4, <2>5, RequestMoves
<1>10. CASE ResetGet(p)
  <2>1. UNCHANGED <<users, session, tokens, instance, passwords, adminGone, unclosed>>
    BY <1>10 DEF ResetGet, redisVars
  <2>2. \A i : ~ Closes(task[p], tokens, i)
    BY <1>10 DEF ResetGet, At, Closes
  <2>3. PICK n \in DOMAIN tokens : task[p] = [step |-> "reset", token |-> n]
    BY <1>0, <1>10 DEF ResetGet, At, Shaped
  <2>4. Goes(p, Idle) \/ Goes(p, [step |-> "reset_write", token |-> n])
    BY <1>10, <2>3 DEF ResetGet, Step
  <2>5. Shaped([step |-> "reset_write", token |-> n], DOMAIN tokens, Known)
    BY DEF Shaped
  <2> QED
    BY <2>1, <2>2, <2>4, <2>5, IdleIsShaped, RequestGoes
<1>11. CASE ResetWrite(p)
  <2>1. UNCHANGED <<session, tokens, instance, adminGone, unclosed>>
    BY <1>11 DEF ResetWrite, redisVars
  <2>2. \A i : ~ Closes(task[p], tokens, i)
    BY <1>11 DEF ResetWrite, At, Closes
  <2>3. PICK n \in DOMAIN tokens : task[p] = [step |-> "reset_write", token |-> n]
    BY <1>0, <1>11 DEF ResetWrite, At, Shaped
  <2> DEFINE i == tokens[n].user
             t == [step |-> "reset_del", token |-> n]
  <2>4. CASE i \in Rows
    <3>1. SetPassword(i) /\ Goes(p, t)
      BY <1>11, <2>3, <2>4 DEF ResetWrite, Step
    <3>2. Closes(t, tokens, i) /\ Shaped(t, DOMAIN tokens, Known)
      BY DEF Closes, Shaped
    <3> HIDE DEF t
    <3> QED
      BY <2>1, <2>2, <2>4, <3>1, <3>2, PasswordMoves
  <2>5. CASE i \notin Rows
    <3>1. Goes(p, Idle) /\ UNCHANGED <<users, passwords>>
      BY <1>11, <2>3, <2>5 DEF ResetWrite
    <3> QED
      BY <2>1, <2>2, <3>1, IdleIsShaped, RequestGoes
  <2> QED
    BY <2>4, <2>5
<1>12. CASE ResetDel(p)
  <2> DEFINE t == [step |-> "drop", id |-> tokens[task[p].token].user]
  <2>1. UNCHANGED <<users, session, tokens, instance, passwords, adminGone, unclosed>> /\ Goes(p, t)
    BY <1>12 DEF ResetDel, noted
  <2>2. \A i : Closes(task[p], tokens, i) => Closes(t, tokens, i)
    BY <1>12 DEF ResetDel, At, Closes
  <2>3. Shaped(t, DOMAIN tokens, Known)
    BY PlainIsShaped
  <2> HIDE DEF t
  <2> QED
    BY <2>1, <2>2, <2>3, RequestGoes
<1> QED
  BY <1>1, <1>2, <1>3, <1>4, <1>5, <1>6, <1>7, <1>8, <1>9, <1>10, <1>11, <1>12 DEF OtpStep

(* A request that fails before it ended a session is noted. *)
LEMMA FailsKeeps == ASSUME AccountsInv, NEW p \in Procs, Fails(p) PROVE AccountsInv'
<1>1. Goes(p, Idle) /\ UNCHANGED <<users, session, tokens, instance, passwords, adminGone>>
  BY DEF Fails, redisVars
<1>2. unclosed' = IF task[p].step = "drop" THEN unclosed \cup {task[p].id}
                  ELSE IF task[p].step = "reset_del"
                       THEN unclosed \cup {tokens[task[p].token].user} ELSE unclosed
  BY DEF Fails, At
<1>3. unclosed \subseteq unclosed' /\ \A i : Closes(task[p], tokens, i) => i \in unclosed'
  BY <1>2 DEF Closes
<1>4. Typed'
  BY <1>1, TypedMoves DEF AccountsInv
<1>5. Issuing
  BY <1>1, NothingIssued
<1> QED
  BY <1>1, <1>3, <1>4, <1>5, IdleIsShaped, RequestMoves

----------------------------------------------------------------------------
(* Users.                                                                  *)

(* A request writes rows, quietly or with a note, and ends or moves on.    *)
LEMMA RequestWrites ==
  ASSUME AccountsInv, NEW p \in Procs, NEW t, Goes(p, t), Shaped(t, DOMAIN tokens, Known),
         \A i : ~ Closes(task[p], tokens, i),
         users' \in [Ids -> UserRow \cup {NoRow, Gone}], passwords' \in Nat, adminGone' \in BOOLEAN,
         UNCHANGED <<session, tokens, instance>>, unclosed \subseteq unclosed',
         \A i \in Ids : QuietRow(i) \/ (i \in Known /\ i \in Known' /\ i \in unclosed'),
         adminGone => adminGone',
         adminGone' \/ (ByCode(AdminCode) # {} => ByCode(AdminCode)' # {})
  PROVE  AccountsInv'
<1>1. Typed'
  BY DEF AccountsInv, Typed, Goes
<1>2. Issuing
  BY NothingIssued
<1>3. Known \subseteq Known'
  BY KnownStays
<1>4. Shaped(t, DOMAIN tokens', Known')
  BY <1>3, ShapedStays
<1>5. TasksShaped'
  BY <1>2, <1>3, <1>4, TasksStay DEF AccountsInv
<1>6. \A i : Closing(i) => Closing(i)'
  BY <1>2, ClosingStays DEF AccountsInv
<1>7. SessionsAreKnown' /\ SessionsFollowPasswords'
  BY <1>1, <1>6, SessionsStay
<1>8. AdminKept'
  BY AdminStays DEF AccountsInv
<1> QED
  BY <1>1, <1>5, <1>7, <1>8 DEF AccountsInv

LEMMA NewRowIsUser ==
  ASSUME NEW row, row \in Person \/ row \in CsvRow, NEW pw \in Nat
  PROVE  NewRow(row, pw) \in UserRow /\ NewRow(row, pw).code = row.code
BY DEF NewRow, Person, CsvRow, UserRow

(* A row under a key that was never used. *)
LEMMA RowInserted ==
  ASSUME Typed, NEW i \in Ids, users[i] = NoRow, NEW row \in UserRow,
         users' = [users EXCEPT ![i] = row]
  PROVE  /\ users' \in [Ids -> UserRow \cup {NoRow, Gone}]
         /\ \A j \in Ids : QuietRow(j)
         /\ \A code : ByCode(code) \subseteq ByCode(code)'
         /\ i \in ByCode(row.code)'
<1>1. users' \in [Ids -> UserRow \cup {NoRow, Gone}]
  BY DEF Typed
<1>2. \A j \in Ids : users'[j] = IF j = i THEN row ELSE users[j]
  BY DEF Typed
<1>3. row \notin {NoRow, Gone}
  BY AccountsAssumption
<1>4. \A j \in Ids : QuietRow(j)
  BY <1>2, <1>3 DEF QuietRow, Known, Rows
<1>5. i \in ByCode(row.code)'
  BY <1>2, <1>3 DEF ByCode, Rows
<1>6. \A code : ByCode(code) \subseteq ByCode(code)'
  BY <1>2, <1>3 DEF ByCode, Rows
<1> QED
  BY <1>1, <1>4, <1>5, <1>6

LEMMA CreateKeeps == ASSUME AccountsInv, NEW p \in Procs, CreateUser(p) PROVE AccountsInv'
<1>1. Goes(p, Idle) /\ UNCHANGED <<session, tokens, instance, unclosed, adminGone>>
  BY DEF CreateUser, redisVars
<1>2. \A i : ~ Closes(task[p], tokens, i)
  BY DEF CreateUser, At, Closes
<1>3. CASE UNCHANGED <<users, passwords>>
  BY <1>1, <1>2, <1>3, IdleIsShaped, RequestGoes
<1>4. ASSUME NEW i \in Ids, users[i] = NoRow,
             users' = [users EXCEPT ![i] = NewRow(task[p].row, passwords + 1)],
             passwords' = passwords + 1
      PROVE  AccountsInv'
  <2>1. task[p].row \in Person
    <3>1. Shaped(task[p], DOMAIN tokens, Known)
      BY DEF AccountsInv, TasksShaped
    <3> QED
      BY <3>1, AccountsAssumption DEF Shaped, CreateUser, At
  <2>2. passwords' \in Nat
    BY <1>4 DEF AccountsInv, Typed
  <2>3. NewRow(task[p].row, passwords + 1) \in UserRow
    BY <1>4, <2>1, <2>2, NewRowIsUser
  <2>4. /\ users' \in [Ids -> UserRow \cup {NoRow, Gone}]
        /\ \A j \in Ids : QuietRow(j)
        /\ ByCode(AdminCode) \subseteq ByCode(AdminCode)'
    BY <1>4, <2>3, RowInserted DEF AccountsInv
  <2>5. adminGone' \in BOOLEAN /\ (adminGone => adminGone')
    BY <1>1, Zenon DEF AccountsInv, Typed
  <2> QED
    BY <1>1, <1>2, <2>2, <2>4, <2>5, IdleIsShaped, RequestWrites
<1> QED
  BY <1>3, <1>4 DEF CreateUser

LEMMA FindKeeps == ASSUME AccountsInv, NEW p \in Procs, FindUser(p) PROVE AccountsInv'
<1>1. UNCHANGED <<users, session, tokens, instance, passwords, adminGone, unclosed>>
  BY DEF FindUser, redisVars, noted
<1>2. \A i : ~ Closes(task[p], tokens, i)
  BY DEF FindUser, At, Closes
<1>3. CASE Goes(p, Idle) \/ Step(p, "remove")
  BY <1>1, <1>2, <1>3, StepGoes DEF Followed
<1>4. CASE task[p].step = "update_find" /\ Step(p, "update")
  <2>1. Shaped(task[p], DOMAIN tokens, Known)
    BY DEF AccountsInv, TasksShaped
  <2>2. PICK code, patch : /\ patch \in UserPatches
                           /\ task[p] = [step |-> "update_find", code |-> code, patch |-> patch]
    BY <1>4, <2>1 DEF Shaped
  <2> DEFINE t == [step |-> "update", code |-> code, patch |-> patch]
  <2>3. Goes(p, t)
    BY <1>4, <2>2 DEF Step
  <2>4. Shaped(t, DOMAIN tokens, Known)
    BY <2>2 DEF Shaped
  <2> HIDE DEF t
  <2> QED
    BY <1>1, <1>2, <2>3, <2>4, RequestGoes
<1> QED
  BY <1>3, <1>4 DEF FindUser, At

LEMMA PatchedRow ==
  ASSUME NEW row \in UserRow, NEW patch \in UserPatches
  PROVE  /\ Patched(row, patch) \in UserRow
         /\ "pw" \notin DOMAIN patch => Patched(row, patch).pw = row.pw
<1>1. DOMAIN row = {"code", "email", "pw", "active"}
  BY DEF UserRow
<1> DEFINE new == Patched(row, patch)
<1>2. new = [code |-> new.code, email |-> new.email, pw |-> new.pw, active |-> new.active]
  BY <1>1 DEF Patched
<1>3. /\ new.code = IF "code" \in DOMAIN patch THEN patch.code ELSE row.code
      /\ new.email = IF "email" \in DOMAIN patch THEN patch.email ELSE row.email
      /\ new.pw = IF "pw" \in DOMAIN patch THEN patch.pw ELSE row.pw
      /\ new.active = IF "active" \in DOMAIN patch THEN patch.active ELSE row.active
  BY <1>1 DEF Patched
<1>4. new.code \in Codes /\ new.email \in Emails /\ new.pw \in Nat /\ new.active \in BOOLEAN
  BY <1>3, AccountsAssumption DEF UserRow
<1> QED
  BY <1>2, <1>3, <1>4 DEF UserRow

(* Another row under a key in use. *)
LEMMA RowReplaced ==
  ASSUME Typed, NEW i \in Rows, NEW row \in UserRow, users' = [users EXCEPT ![i] = row]
  PROVE  /\ users' \in [Ids -> UserRow \cup {NoRow, Gone}]
         /\ \A j \in Ids \ {i} : QuietRow(j)
         /\ i \in Known /\ i \in Known'
         /\ row.pw = users[i].pw => QuietRow(i)
         /\ \A code : row.code = code \/ users[i].code # code =>
              (ByCode(code) # {} => ByCode(code)' # {})
<1>1. users[i] \in UserRow /\ i \in Ids /\ i \in Known
  BY RowIsUser
<1>2. users' \in [Ids -> UserRow \cup {NoRow, Gone}]
  BY <1>1 DEF Typed
<1>3. \A j \in Ids : users'[j] = IF j = i THEN row ELSE users[j]
  BY DEF Typed
<1>4. row \notin {NoRow, Gone}
  BY AccountsAssumption
<1>5. i \in Known'
  BY <1>1, <1>3, <1>4 DEF Known
<1>6. \A j \in Ids \ {i} : QuietRow(j)
  BY <1>3 DEF QuietRow, Known, Rows
<1>7. row.pw = users[i].pw => QuietRow(i)
  BY <1>1, <1>3, <1>5 DEF QuietRow
<1>8. ASSUME NEW code, row.code = code \/ users[i].code # code, NEW j \in ByCode(code)
      PROVE  ByCode(code)' # {}
  <2>1. CASE row.code = code
    <3>1. i \in ByCode(code)'
      BY <1>1, <1>3, <1>4, <2>1 DEF ByCode, Rows
    <3> QED
      BY <3>1
  <2>2. CASE users[i].code # code
    <3>1. j \in ByCode(code)'
      BY <1>3, <1>8, <2>2 DEF ByCode, Rows
    <3> QED
      BY <3>1
  <2> QED
    BY <1>8, <2>1, <2>2
<1> QED
  BY <1>1, <1>2, <1>5, <1>6, <1>7, <1>8

LEMMA UpdateKeeps == ASSUME AccountsInv, NEW p \in Procs, UpdateUser(p) PROVE AccountsInv'
<1> DEFINE patch == task[p].patch
           sets  == "pw" \in DOMAIN patch
<1>1. Goes(p, Idle) /\ UNCHANGED <<session, tokens, instance>>
  BY DEF UpdateUser, redisVars
<1>2. \A i : ~ Closes(task[p], tokens, i)
  BY DEF UpdateUser, At, Closes
<1>3. patch \in UserPatches
  <2>1. Shaped(task[p], DOMAIN tokens, Known)
    BY DEF AccountsInv, TasksShaped
  <2>2. \E code, sent : /\ sent \in UserPatches
                        /\ task[p] = [step |-> "update", code |-> code, patch |-> sent]
    BY <2>1 DEF Shaped, UpdateUser, At
  <2> QED
    BY <2>2
<1>4. CASE UNCHANGED <<users, passwords, unclosed, adminGone>>
  BY <1>1, <1>2, <1>4, IdleIsShaped, RequestGoes
<1>5. ASSUME NEW i \in ByCode(task[p].code), NEW new, new = Patched(users[i], patch),
             users' = [users EXCEPT ![i] = IF sets THEN [new EXCEPT !.pw = passwords + 1] ELSE new],
             passwords' = IF sets THEN passwords + 1 ELSE passwords,
             unclosed' = IF sets THEN unclosed \cup {i} ELSE unclosed,
             adminGone' = (adminGone \/ (task[p].code = AdminCode /\ new.code # AdminCode))
      PROVE  AccountsInv'
  <2> DEFINE row == IF sets THEN [new EXCEPT !.pw = passwords + 1] ELSE new
  <2>1. i \in Rows /\ users[i].code = task[p].code
    BY DEF ByCode
  <2>2. users[i] \in UserRow
    BY <2>1, RowIsUser DEF AccountsInv
  <2>3. new \in UserRow /\ (~ sets => new.pw = users[i].pw)
    BY <1>3, <1>5, <2>2, PatchedRow
  <2>4. passwords \in Nat /\ passwords + 1 \in Nat
    BY DEF AccountsInv, Typed
  <2>5. row \in UserRow /\ row.code = new.code /\ (~ sets => row.pw = users[i].pw)
    BY <2>3, <2>4 DEF UserRow
  <2>6. users' = [users EXCEPT ![i] = row]
    BY <1>5
  <2> HIDE DEF row
  <2>7. /\ users' \in [Ids -> UserRow \cup {NoRow, Gone}]
        /\ \A j \in Ids \ {i} : QuietRow(j)
        /\ i \in Known /\ i \in Known'
        /\ row.pw = users[i].pw => QuietRow(i)
        /\ \A code : row.code = code \/ users[i].code # code =>
             (ByCode(code) # {} => ByCode(code)' # {})
    BY <2>1, <2>5, <2>6, RowReplaced DEF AccountsInv
  <2>8. \A j \in Ids : QuietRow(j) \/ (j \in Known /\ j \in Known' /\ j \in unclosed')
    <3>1. sets => i \in unclosed'
      BY <1>5
    <3>2. ~ sets => QuietRow(i)
      BY <2>5, <2>7
    <3> QED
      BY <2>7, <3>1, <3>2
  <2>9. adminGone' \in BOOLEAN /\ (adminGone => adminGone')
    BY <1>5, Zenon
  <2>10. adminGone' \/ row.code = AdminCode \/ users[i].code # AdminCode
    <3>1. CASE new.code = AdminCode
      BY <2>5, <3>1
    <3>2. CASE new.code # AdminCode
      <4>1. task[p].code = AdminCode => adminGone'
        BY <1>5, <3>2, Zenon
      <4> QED
        BY <2>1, <4>1, Zenon
    <3> QED
      BY <3>1, <3>2
  <2>11. adminGone' \/ (ByCode(AdminCode) # {} => ByCode(AdminCode)' # {})
    BY <2>7, <2>10
  <2>12. passwords' \in Nat /\ unclosed \subseteq unclosed'
    BY <1>5, <2>4
  <2> QED
    BY <1>1, <1>2, <2>7, <2>8, <2>9, <2>11, <2>12, IdleIsShaped, RequestWrites
<1> QED
  <2>1. CASE \E i \in ByCode(task[p].code) :
               LET new == Patched(users[i], patch)
               IN  /\ users' = [users EXCEPT ![i] =
                                  IF sets THEN [new EXCEPT !.pw = passwords + 1] ELSE new]
                   /\ passwords' = IF sets THEN passwords + 1 ELSE passwords
                   /\ unclosed' = IF sets THEN unclosed \cup {i} ELSE unclosed
                   /\ adminGone' = (adminGone \/ (task[p].code = AdminCode /\ new.code # AdminCode))
    BY <1>5, <2>1
  <2> QED
    BY <1>4, <2>1 DEF UpdateUser

LEMMA RemoveKeeps == ASSUME AccountsInv, NEW p \in Procs, RemoveUser(p) PROVE AccountsInv'
<1>1. Goes(p, Idle) /\ UNCHANGED <<session, tokens, instance, passwords, unclosed>>
  BY DEF RemoveUser, redisVars
<1>2. \A i : ~ Closes(task[p], tokens, i)
  BY DEF RemoveUser, At, Closes
<1>3. CASE UNCHANGED <<users, adminGone>>
  BY <1>1, <1>2, <1>3, IdleIsShaped, RequestGoes
<1>4. ASSUME NEW i \in ByCode(task[p].code), users' = [users EXCEPT ![i] = Gone],
             adminGone' = (adminGone \/ task[p].code = AdminCode)
      PROVE  AccountsInv'
  <2>1. i \in Rows /\ i \in Ids /\ i \in Known /\ users[i].code = task[p].code
    BY DEF ByCode, Rows, Known
  <2>2. \A j \in Ids : users'[j] = IF j = i THEN Gone ELSE users[j]
    BY <1>4 DEF AccountsInv, Typed
  <2>3. users' \in [Ids -> UserRow \cup {NoRow, Gone}]
    BY <1>4 DEF AccountsInv, Typed
  <2>4. \A j \in Ids : QuietRow(j)
    BY <2>1, <2>2, AccountsAssumption DEF QuietRow, Known, Rows
  <2>5. users[i].code # AdminCode => ByCode(AdminCode) \subseteq ByCode(AdminCode)'
    BY <2>2 DEF ByCode, Rows
  <2>6. adminGone' \in BOOLEAN /\ (adminGone => adminGone')
    BY <1>4, Zenon
  <2>7. adminGone' \/ users[i].code # AdminCode
    BY <1>4, <2>1, Zenon
  <2>8. adminGone' \/ (ByCode(AdminCode) # {} => ByCode(AdminCode)' # {})
    BY <2>5, <2>7
  <2>9. passwords' \in Nat /\ unclosed \subseteq unclosed'
    BY <1>1 DEF AccountsInv, Typed
  <2> QED
    BY <1>1, <1>2, <2>3, <2>4, <2>6, <2>8, <2>9, IdleIsShaped, RequestWrites
<1> QED
  BY <1>3, <1>4 DEF RemoveUser

LEMMA ImportFindKeeps == ASSUME AccountsInv, NEW p \in Procs, ImportFind(p) PROVE AccountsInv'
<1> DEFINE kept == Kept(task[p].file)
           new  == {row \in kept : ByCode(row.code) \cup ByEmail(row.email) = {}}
           t    == [step |-> "import_insert", file |-> task[p].file, rows |-> new,
                    duplicates |-> Len(task[p].file) - Cardinality(kept),
                    existing |-> Cardinality(kept \ new)]
<1>1. Goes(p, t) /\ UNCHANGED <<users, session, tokens, instance, passwords, unclosed, adminGone>>
  BY DEF ImportFind, redisVars
<1>2. \A i : ~ Closes(task[p], tokens, i)
  BY DEF ImportFind, At, Closes
<1>3. task[p].file \in Seq(CsvRow)
  <2>1. Shaped(task[p], DOMAIN tokens, Known)
    BY DEF AccountsInv, TasksShaped
  <2> QED
    BY <2>1, AccountsAssumption DEF Shaped, ImportFind, At
<1>4. Range(task[p].file) \subseteq CsvRow
  BY <1>3 DEF Range
<1>5. kept \subseteq Range(task[p].file)
  BY DEF Kept
<1>6. t.rows \subseteq CsvRow
  BY <1>4, <1>5
<1>7. Shaped(t, DOMAIN tokens, Known)
  BY <1>6 DEF Shaped
<1> HIDE DEF t
<1> QED
  BY <1>1, <1>2, <1>7, RequestGoes

(* The rows of a file are inserted under keys that were never used. *)
LEMMA ImportInsertKeeps == ASSUME AccountsInv, NEW p \in Procs, ImportInsert(p) PROVE AccountsInv'
<1> DEFINE rows == {row \in task[p].rows : ~ Collides(NoRow, row)}
<1>1. UNCHANGED <<session, tokens, instance, unclosed, adminGone>> /\ passwords' = passwords + 1
  BY DEF ImportInsert, redisVars
<1>2. \A i : ~ Closes(task[p], tokens, i)
  BY DEF ImportInsert, At, Closes
<1>3. PICK t : Goes(p, t) /\ t.step = "imported" /\ "step" \in DOMAIN t
  BY DEF ImportInsert
<1>4. rows \subseteq CsvRow
  <2>1. Shaped(task[p], DOMAIN tokens, Known)
    BY DEF AccountsInv, TasksShaped
  <2> QED
    BY <2>1 DEF Shaped, ImportInsert, At
<1>5. PICK place \in [rows -> {i \in Ids : users[i] = NoRow}] :
        users' = [i \in Ids |->
                    IF \E r \in rows : place[r] = i
                    THEN NewRow(CHOOSE r \in rows : place[r] = i, passwords + 1) ELSE users[i]]
  BY DEF ImportInsert
<1> HIDE DEF rows
<1>6. passwords + 1 \in Nat
  BY DEF AccountsInv, Typed
<1>7. ASSUME NEW i \in Ids
      PROVE  users'[i] = users[i] \/ (users[i] = NoRow /\ users'[i] \in UserRow)
  <2>1. CASE \E r \in rows : place[r] = i
    <3> DEFINE r == CHOOSE r \in rows : place[r] = i
    <3>1. r \in rows /\ place[r] = i
      BY <2>1
    <3>2. users[i] = NoRow
      BY <3>1
    <3>3. users'[i] = NewRow(r, passwords + 1)
      BY <1>5, <2>1
    <3>4. NewRow(r, passwords + 1) \in UserRow
      BY <1>4, <1>6, <3>1, NewRowIsUser
    <3> QED
      BY <3>2, <3>3, <3>4
  <2>2. CASE ~ \E r \in rows : place[r] = i
    BY <1>5, <2>2
  <2> QED
    BY <2>1, <2>2
<1>8. users' \in [Ids -> UserRow \cup {NoRow, Gone}]
  <2>1. DOMAIN users' = Ids /\ users' = [i \in Ids |-> users'[i]]
    BY <1>5
  <2>2. \A i \in Ids : users'[i] \in UserRow \cup {NoRow, Gone}
    BY <1>7 DEF AccountsInv, Typed
  <2> QED
    BY <2>1, <2>2
<1>9. \A i \in Ids : QuietRow(i)
  BY <1>7, AccountsAssumption DEF QuietRow, Known, Rows
<1>10. ByCode(AdminCode) \subseteq ByCode(AdminCode)'
  BY <1>7 DEF ByCode, Rows
<1>11. adminGone' \in BOOLEAN /\ (adminGone => adminGone')
  BY <1>1, Zenon DEF AccountsInv, Typed
<1>12. Shaped(t, DOMAIN tokens, Known)
  BY <1>3, PlainIsShaped DEF Followed
<1> QED
  BY <1>1, <1>2, <1>3, <1>6, <1>8, <1>9, <1>10, <1>11, <1>12, RequestWrites

LEMMA UsersStepKeeps == ASSUME AccountsInv, NEW p \in Procs, UsersStep(p) PROVE AccountsInv'
<1>1. CASE ImportAnswered(p)
  <2>1. \A i : ~ Closes(task[p], tokens, i)
    BY <1>1 DEF ImportAnswered, At, Closes
  <2>2. UNCHANGED <<users, session, tokens, instance, passwords, adminGone, unclosed>> /\ Goes(p, Idle)
    BY <1>1 DEF ImportAnswered, redisVars, noted
  <2> QED
    BY <2>1, <2>2, IdleIsShaped, RequestGoes
<1> QED
  BY <1>1, CreateKeeps, FindKeeps, UpdateKeeps, RemoveKeeps, ImportFindKeeps, ImportInsertKeeps
  DEF UsersStep

----------------------------------------------------------------------------
(* Starts, and the TTLs.                                                   *)

(* An instance starts: requests stand still and rows change quietly.       *)
LEMMA StartMoves ==
  ASSUME AccountsInv, UNCHANGED <<task, session, tokens, unclosed>>,
         users' \in [Ids -> UserRow \cup {NoRow, Gone}], passwords' \in Nat, adminGone' \in BOOLEAN,
         DOMAIN instance' = Instances, \A i \in Ids : QuietRow(i), AdminKept'
  PROVE  AccountsInv'
<1>1. Typed'
  BY DEF AccountsInv, Typed
<1>2. Known \subseteq Known'
  BY KnownStays
<1>3. TasksShaped'
  BY <1>2, ShapedStays DEF AccountsInv, TasksShaped
<1>4. \A i : Closing(i) => Closing(i)'
  BY DEF Closing, At
<1>5. SessionsAreKnown' /\ SessionsFollowPasswords'
  BY <1>1, <1>4, SessionsStay
<1> QED
  BY <1>1, <1>3, <1>5 DEF AccountsInv

LEMMA StartFindKeeps == ASSUME AccountsInv, NEW n \in Instances, StartFind(n) PROVE AccountsInv'
<1>1. UNCHANGED <<users, task, session, tokens, unclosed, passwords, adminGone>>
  BY DEF StartFind, redisVars, noted
<1>2. DOMAIN instance' = Instances
  BY DEF StartFind, AccountsInv, Typed
<1>3. instance'[n] \in {"create", "email", "up"}
      /\ (ByCode(AdminCode) = {} => instance'[n] = "create")
  BY DEF StartFind, AccountsInv, Typed
<1>4. \A m \in Instances \ {n} : instance'[m] = instance[m]
  BY DEF StartFind, AccountsInv, Typed
<1>5. ByCode(AdminCode)' = ByCode(AdminCode) /\ \A i : QuietRow(i)
  BY <1>1, SameRows
<1>6. AdminKept'
  BY <1>1, <1>3, <1>4, <1>5 DEF AccountsInv, AdminKept
<1>7. adminGone' \in BOOLEAN
  BY <1>1, Zenon DEF AccountsInv, Typed
<1>8. users' \in [Ids -> UserRow \cup {NoRow, Gone}] /\ passwords' \in Nat
  BY <1>1 DEF AccountsInv, Typed
<1> QED
  BY <1>1, <1>2, <1>5, <1>6, <1>7, <1>8, StartMoves

(* The start of n is over, and the default administrator is where it was,  *)
(* or there, or known to be impossible.                                    *)
LEMMA StartEnds ==
  ASSUME AccountsInv, NEW n \in Instances, Up(n), adminGone => adminGone',
         adminGone' \/ ByCode(AdminCode)' # {}
  PROVE  DOMAIN instance' = Instances /\ AdminKept'
<1>1. DOMAIN instance' = Instances
  BY DEF Up, AccountsInv, Typed
<1>2. \A m \in Instances : instance'[m] = IF m = n THEN "up" ELSE instance[m]
  BY DEF Up, AccountsInv, Typed
<1>3. AdminKept'
  BY <1>2 DEF AdminKept, AccountsInv
<1> QED
  BY <1>1, <1>3

LEMMA StartEmailKeeps == ASSUME AccountsInv, NEW n \in Instances, StartEmail(n) PROVE AccountsInv'
<1>1. UNCHANGED <<task, session, tokens, unclosed, passwords, adminGone>> /\ instance[n] = "email"
  BY DEF StartEmail, redisVars
<1>2. adminGone' \in BOOLEAN /\ (adminGone => adminGone')
  BY <1>1, Zenon DEF AccountsInv, Typed
<1>3. passwords' \in Nat
  BY <1>1 DEF AccountsInv, Typed
<1>4. ByCode(AdminCode) # {} \/ adminGone
  BY <1>1 DEF AccountsInv, AdminKept
<1>5. ASSUME NEW i \in ByCode(AdminCode), users' = [users EXCEPT ![i].email = AdminEmail], Up(n)
      PROVE  AccountsInv'
  <2> DEFINE row == [users[i] EXCEPT !.email = AdminEmail]
  <2>1. i \in Rows /\ users[i].code = AdminCode
    BY DEF ByCode
  <2>2. users[i] \in UserRow
    BY <2>1, RowIsUser DEF AccountsInv
  <2>3. row \in UserRow /\ row.pw = users[i].pw /\ row.code = AdminCode
    BY <2>1, <2>2, AccountsAssumption DEF UserRow
  <2>4. users' = [users EXCEPT ![i] = row]
    BY <1>5
  <2> HIDE DEF row
  <2>5. /\ users' \in [Ids -> UserRow \cup {NoRow, Gone}]
        /\ \A j \in Ids : QuietRow(j)
        /\ ByCode(AdminCode) # {} => ByCode(AdminCode)' # {}
    BY <2>1, <2>3, <2>4, RowReplaced DEF AccountsInv
  <2>6. ByCode(AdminCode)' # {}
    BY <2>5
  <2>7. DOMAIN instance' = Instances /\ AdminKept'
    BY <1>2, <1>5, <2>6, StartEnds
  <2> QED
    BY <1>1, <1>2, <1>3, <2>5, <2>7, StartMoves
<1>6. ASSUME UNCHANGED users, IF ByCode(AdminCode) = {} THEN Failed(n) ELSE Up(n)
      PROVE  AccountsInv'
  <2>1. ByCode(AdminCode)' = ByCode(AdminCode) /\ \A i : QuietRow(i)
    BY <1>6, SameRows
  <2>2. users' \in [Ids -> UserRow \cup {NoRow, Gone}]
    BY <1>6 DEF AccountsInv, Typed
  <2>3. DOMAIN instance' = Instances /\ AdminKept'
    <3>1. CASE ByCode(AdminCode) = {}
      <4>1. adminGone'
        BY <1>1, <1>4, <3>1
      <4>2. DOMAIN instance' = Instances
        BY <1>6, <3>1 DEF Failed, AccountsInv, Typed
      <4> QED
        BY <4>1, <4>2 DEF AdminKept
    <3>2. CASE ByCode(AdminCode) # {}
      BY <1>2, <1>6, <2>1, <3>2, StartEnds
    <3> QED
      BY <3>1, <3>2
  <2> QED
    BY <1>1, <1>2, <1>3, <2>1, <2>2, <2>3, StartMoves
<1> QED
  BY <1>5, <1>6 DEF StartEmail

LEMMA StartCreateKeeps == ASSUME AccountsInv, NEW n \in Instances, StartCreate(n) PROVE AccountsInv'
<1> DEFINE row == [code |-> AdminCode, email |-> AdminEmail]
<1>1. UNCHANGED <<task, session, tokens, unclosed>> /\ Up(n)
  BY DEF StartCreate, redisVars
<1>2. row \in Person
  BY AccountsAssumption DEF Person
<1>3. passwords \in Nat /\ passwords + 1 \in Nat
  BY DEF AccountsInv, Typed
<1>4. ASSUME UNCHANGED <<users, passwords>>, adminGone' = (adminGone \/ ByCode(AdminCode) = {})
      PROVE  AccountsInv'
  <2>1. ByCode(AdminCode)' = ByCode(AdminCode) /\ \A i : QuietRow(i)
    BY <1>4, SameRows
  <2>2. adminGone' \in BOOLEAN /\ (adminGone => adminGone') /\ (adminGone' \/ ByCode(AdminCode) # {})
    BY <1>4, Zenon
  <2>3. users' \in [Ids -> UserRow \cup {NoRow, Gone}] /\ passwords' \in Nat
    BY <1>4 DEF AccountsInv, Typed
  <2>4. DOMAIN instance' = Instances /\ AdminKept'
    BY <1>1, <2>1, <2>2, StartEnds
  <2> QED
    BY <1>1, <2>1, <2>2, <2>3, <2>4, StartMoves
<1>5. ASSUME NEW i \in Ids, users[i] = NoRow, UNCHANGED adminGone,
             users' = [users EXCEPT ![i] = NewRow(row, passwords + 1)], passwords' = passwords + 1
      PROVE  AccountsInv'
  <2>1. NewRow(row, passwords + 1) \in UserRow /\ NewRow(row, passwords + 1).code = AdminCode
    BY <1>2, <1>3, NewRowIsUser
  <2>2. /\ users' \in [Ids -> UserRow \cup {NoRow, Gone}]
        /\ \A j \in Ids : QuietRow(j)
        /\ i \in ByCode(AdminCode)'
    BY <1>5, <2>1, RowInserted DEF AccountsInv
  <2>3. adminGone' \in BOOLEAN /\ (adminGone => adminGone')
    BY <1>5, Zenon DEF AccountsInv, Typed
  <2>4. DOMAIN instance' = Instances /\ AdminKept'
    BY <1>1, <2>2, <2>3, StartEnds
  <2> QED
    BY <1>1, <1>3, <1>5, <2>2, <2>3, <2>4, StartMoves
<1> QED
  BY <1>4, <1>5 DEF StartCreate

LEMMA ExpireKeeps == ASSUME AccountsInv, NEW i \in Ids, Expire(i) PROVE AccountsInv'
<1>1. UNCHANGED <<users, tokens, task, instance, passwords, unclosed, adminGone>>
  BY DEF Expire, noted
<1>2. session' = session \/ session' = [session EXCEPT ![i] = Missing]
  BY DEF Expire
<1>3. \A j \in Ids : session'[j] \in {session[j], Missing}
  BY <1>2 DEF AccountsInv, Typed
<1>4. DOMAIN session' = Ids
  BY <1>2 DEF AccountsInv, Typed
<1>5. Known' = Known /\ Rows' = Rows /\ ByCode(AdminCode)' = ByCode(AdminCode)
  BY <1>1, SameRows
<1>6. Typed'
  BY <1>1, <1>4 DEF AccountsInv, Typed
<1>7. TasksShaped'
  BY <1>1, <1>5 DEF AccountsInv, TasksShaped
<1>8. SessionsAreKnown'
  BY <1>3, <1>5 DEF AccountsInv, SessionsAreKnown
<1>9. \A j : Closing(j)' = Closing(j)
  BY <1>1 DEF Closing, At
<1>10. SessionsFollowPasswords'
  BY <1>1, <1>3, <1>5, <1>9 DEF AccountsInv, SessionsFollowPasswords, Rows
<1>11. AdminKept'
  BY <1>1, <1>5, AdminStays DEF AccountsInv
<1> QED
  BY <1>6, <1>7, <1>8, <1>10, <1>11 DEF AccountsInv

LEMMA AccountsInvStuttering == ASSUME AccountsInv, UNCHANGED vars PROVE AccountsInv'
<1>1. UNCHANGED <<users, session, tokens, task, instance, passwords, unclosed, adminGone>>
  BY DEF vars, redisVars, noted
<1>2. Known' = Known /\ Rows' = Rows /\ ByCode(AdminCode)' = ByCode(AdminCode)
  BY <1>1, SameRows
<1>3. Typed' /\ TasksShaped' /\ SessionsAreKnown'
  BY <1>1, <1>2 DEF AccountsInv, Typed, TasksShaped, SessionsAreKnown
<1>4. \A j : Closing(j)' = Closing(j)
  BY <1>1 DEF Closing, At
<1>5. SessionsFollowPasswords'
  BY <1>1, <1>2, <1>4 DEF AccountsInv, SessionsFollowPasswords
<1>6. AdminKept'
  BY <1>1, <1>2, AdminStays DEF AccountsInv
<1> QED
  BY <1>3, <1>5, <1>6 DEF AccountsInv

LEMMA AccountsInvariant == Spec => []AccountsInv
<1>1. ASSUME AccountsInv, Next PROVE AccountsInv'
  <2>1. ASSUME NEW p \in Procs,
               Asks(p) \/ SessionStep(p) \/ OtpStep(p) \/ UsersStep(p) \/ Fails(p)
        PROVE  AccountsInv'
    BY <1>1, <2>1, AsksKeep, SessionStepKeeps, OtpStepKeeps, UsersStepKeeps, FailsKeeps
  <2>2. ASSUME NEW n \in Instances, StartFind(n) \/ StartEmail(n) \/ StartCreate(n)
        PROVE  AccountsInv'
    BY <1>1, <2>2, StartFindKeeps, StartEmailKeeps, StartCreateKeeps
  <2>3. ASSUME NEW i \in Ids, Expire(i) PROVE AccountsInv'
    BY <1>1, <2>3, ExpireKeeps
  <2> QED
    BY <1>1, <2>1, <2>2, <2>3 DEF Next
<1> QED
  BY <1>1, AccountsInvInit, AccountsInvStuttering, PTL DEF Spec

(* In every reachable state, with any number of users, requests, instances *)
(* and failures: a session was opened with the password the account has    *)
(* now, is about to be ended, or outlived a password for one of the three  *)
(* reasons that Accounts notes (login's SET after a change, an             *)
(* administrator's update, a DEL that Redis refused).                      *)
THEOREM SessionsEndWithPasswords == Spec => []SessionsFollowPasswords
<1>1. AccountsInv => SessionsFollowPasswords
  BY DEF AccountsInv
<1> QED
  BY <1>1, AccountsInvariant, PTL

(* ensureDefaultAdmin, started by any number of instances at once: none    *)
(* fails, and each that is up left a default administrator, unless one was *)
(* renamed or removed or its email belongs to another account.             *)
THEOREM StartsLeaveAdmin == Spec => []InstancesStart
<1>1. AccountsInv => InstancesStart
  BY DEF AccountsInv, AdminKept, InstancesStart
<1> QED
  BY <1>1, AccountsInvariant, PTL

----------------------------------------------------------------------------
(* One-time passwords.                                                     *)

OtpShaped(t, chosen) ==
  /\ t.step \in {"otp_rate", "otp_set"} => \E i \in Ids : t = [step |-> t.step, id |-> i]
  /\ t.step \in {"otp_limit", "otp_mail", "verify_get", "verify_del", "verify_token"} =>
       \E i \in Ids, o \in 1 .. chosen : t = [step |-> t.step, id |-> i, otp |-> o]
  /\ t.step = "verify" => t.otp \in 1 .. chosen

(* t holds OTP o, or a reset token issued for it. *)
Verifies(t, o) == t.step \in {"verify_del", "verify_token"} /\ t.otp = o
Resets(t, o, issued) == t.step \in {"reset_write", "reset_del"} /\ issued[t.token].otp = o
Spends(t, o, issued) == Verifies(t, o) \/ Resets(t, o, issued)

Issued(o) == {n \in DOMAIN tokens : tokens[n].otp = o}

OtpTyped ==
  /\ otps \in Nat
  /\ otp \in [Ids -> (1 .. otps) \cup {Missing}]
  /\ \A m \in mailed : m.otp \in 1 .. otps
  /\ \A n \in DOMAIN tokens : tokens[n].otp \in 1 .. otps
  /\ \A p \in Procs : OtpShaped(task[p], otps)
  /\ \A o \in DOMAIN resets : o \in Nat /\ resets[o] \in Nat

StoredOnce == \A i, j \in Ids : otp[i] = otp[j] /\ otp[i] # Missing => i = j

(* The life of an OTP: it is stored; one request verifies it, and may      *)
(* still find it stored; it has one token; one request resets with it.     *)
Unspent(o) ==
  /\ \A p, q \in Procs : Spends(task[p], o, tokens) /\ Spends(task[q], o, tokens) => p = q
  /\ \A i \in Ids : otp[i] = o =>
       /\ Issued(o) = {}
       /\ \A p \in Procs : Verifies(task[p], o) => At(p, "verify_del") /\ task[p].id = i
  /\ \A p \in Procs : Verifies(task[p], o) => Issued(o) = {}
  /\ \A n, m \in Issued(o) : n = m
  /\ o \in DOMAIN resets =>
       /\ resets[o] <= 1
       /\ Issued(o) = {} => resets[o] = 0
       /\ resets[o] # 0 =>
            /\ \A p \in Procs : Resets(task[p], o, tokens) => ~ At(p, "reset_write")
            /\ Issued(o) \cap resetKey # {} =>
                 \E q \in Procs : At(q, "reset_del") /\ Resets(task[q], o, tokens)

SpentInv == OtpTyped /\ StoredOnce /\ \A o \in Nat \ overlapped : Unspent(o)

LEMMA SpentInvInit == ASSUME Init PROVE SpentInv
<1>1. OtpTyped
  BY DEF Init, OtpTyped, OtpShaped, Idle
<1>2. StoredOnce
  BY DEF Init, StoredOnce
<1>3. ASSUME NEW o \in Nat PROVE Unspent(o)
  <2>1. Issued(o) = {}
    BY DEF Init, Issued
  <2>2. \A p \in Procs : ~ Spends(task[p], o, tokens) /\ ~ Verifies(task[p], o)
    BY DEF Init, Spends, Verifies, Resets, Idle
  <2>3. o \in DOMAIN resets => resets[o] = 0
    BY DEF Init
  <2> QED
    BY <2>1, <2>2, <2>3 DEF Unspent
<1> QED
  BY <1>1, <1>2, <1>3 DEF SpentInv

(* What a token of a request is for does not change. *)
LEMMA SpendsStays ==
  ASSUME TasksShaped, Issuing, NEW q \in Procs, NEW o
  PROVE  /\ Resets(task[q], o, tokens') <=> Resets(task[q], o, tokens)
         /\ Spends(task[q], o, tokens') <=> Spends(task[q], o, tokens)
<1>1. Shaped(task[q], DOMAIN tokens, Known)
  BY DEF TasksShaped
<1>2. CASE task[q].step \in {"reset_write", "reset_del"}
  <2>1. PICK n \in DOMAIN tokens : task[q] = [step |-> task[q].step, token |-> n]
    BY <1>1, <1>2 DEF Shaped
  <2>2. tokens'[task[q].token] = tokens[task[q].token]
    BY <2>1 DEF Issuing
  <2> QED
    BY <2>2 DEF Spends, Resets
<1>3. CASE task[q].step \notin {"reset_write", "reset_del"}
  BY <1>3 DEF Spends, Resets
<1> QED
  BY <1>2, <1>3

(* Steps that have nothing to do with OTP o, or give it up. *)
LEMMA UnspentStays ==
  ASSUME TasksShaped, NEW o, Unspent(o), Issuing, Issued(o)' = Issued(o),
         \A q \in Procs : task'[q] = task[q] \/ ~ Spends(task'[q], o, tokens'),
         \A q \in Procs : task[q].step = "reset_del" /\ Resets(task[q], o, tokens) =>
           task'[q] = task[q] \/ Issued(o) \cap resetKey' = {},
         \A i \in Ids : otp'[i] = o => otp[i] = o,
         Issued(o) \cap resetKey' \subseteq resetKey,
         DOMAIN resets' = DOMAIN resets, o \in DOMAIN resets => resets'[o] = resets[o]
  PROVE  Unspent(o)'
<1>1. \A q \in Procs : Spends(task'[q], o, tokens') => task'[q] = task[q] /\ Spends(task[q], o, tokens)
  BY SpendsStays
<1>2. \A q \in Procs : Verifies(task'[q], o) => task'[q] = task[q]
  BY <1>1 DEF Spends
<1>3. \A q \in Procs : Resets(task'[q], o, tokens') => task'[q] = task[q] /\ Resets(task[q], o, tokens)
  <2>1. \A q \in Procs : Resets(task'[q], o, tokens') => Spends(task'[q], o, tokens')
    BY DEF Spends
  <2> QED
    BY <1>1, <2>1, SpendsStays
<1>4. \A p, q \in Procs : Spends(task'[p], o, tokens') /\ Spends(task'[q], o, tokens') => p = q
  BY <1>1 DEF Unspent
<1>5. ASSUME NEW i \in Ids, otp'[i] = o
      PROVE  /\ Issued(o)' = {}
             /\ \A p \in Procs : Verifies(task'[p], o) => task'[p].step = "verify_del" /\ task'[p].id = i
  BY <1>2, <1>5 DEF Unspent, At
<1>6. \A p \in Procs : Verifies(task'[p], o) => Issued(o)' = {}
  BY <1>2 DEF Unspent
<1>7. \A n, m \in Issued(o)' : n = m
  BY DEF Unspent
<1>8. ASSUME o \in DOMAIN resets'
      PROVE  /\ resets'[o] <= 1
             /\ Issued(o)' = {} => resets'[o] = 0
             /\ resets'[o] # 0 =>
                  /\ \A p \in Procs : Resets(task'[p], o, tokens') => task'[p].step # "reset_write"
                  /\ Issued(o)' \cap resetKey' # {} =>
                       \E q \in Procs : task'[q].step = "reset_del" /\ Resets(task'[q], o, tokens')
  <2>1. resets'[o] <= 1 /\ (Issued(o)' = {} => resets'[o] = 0)
    BY <1>8 DEF Unspent
  <2>2. ASSUME resets'[o] # 0, NEW p \in Procs, Resets(task'[p], o, tokens')
        PROVE  task'[p].step # "reset_write"
    BY <1>3, <1>8, <2>2 DEF Unspent, At
  <2>3. ASSUME resets'[o] # 0, Issued(o)' \cap resetKey' # {}
        PROVE  \E q \in Procs : task'[q].step = "reset_del" /\ Resets(task'[q], o, tokens')
    <3>1. Issued(o) \cap resetKey # {}
      BY <2>3
    <3>2. PICK q \in Procs : task[q].step = "reset_del" /\ Resets(task[q], o, tokens)
      BY <1>8, <2>3, <3>1 DEF Unspent, At
    <3>3. task'[q] = task[q] /\ Resets(task[q], o, tokens')
      BY <2>3, <3>2, SpendsStays
    <3> QED
      BY <3>2, <3>3
  <2> QED
    BY <2>1, <2>2, <2>3
<1> QED
  BY <1>4, <1>5, <1>6, <1>7, <1>8 DEF Unspent, At

(* Steps at which a request holds an OTP or a reset token. *)
Spending == {"verify_del", "verify_token", "reset_write", "reset_del"}
(* Steps that OtpShaped speaks of. *)
Otping == {"otp_rate", "otp_set", "otp_limit", "otp_mail", "verify", "verify_get", "verify_del",
           "verify_token"}

LEMMA OtherShaped ==
  ASSUME NEW t, t.step \notin Otping, NEW chosen PROVE OtpShaped(t, chosen)
BY DEF OtpShaped, Otping

LEMMA OtpTypedMoves ==
  ASSUME AccountsInv, OtpTyped, NEW p \in Procs, NEW t, Goes(p, t), OtpShaped(t, otps),
         UNCHANGED <<tokens, mailed, otps>>,
         \A o \in DOMAIN resets' : o \in Nat /\ resets'[o] \in Nat,
         otp' \in [Ids -> (1 .. otps) \cup {Missing}]
  PROVE  OtpTyped'
<1>1. \A q \in Procs : task'[q] = IF q = p THEN t ELSE task[q]
  BY DEF Goes, AccountsInv, Typed
<1>2. \A q \in Procs : OtpShaped(task'[q], otps')
  BY <1>1 DEF OtpTyped
<1> QED
  BY <1>2 DEF OtpTyped

(* A request that moves on and holds nothing. *)
LEMMA UnspentRests ==
  ASSUME AccountsInv, SpentInv, NEW p \in Procs, NEW t, Goes(p, t), OtpShaped(t, otps),
         t.step \notin Spending, UNCHANGED <<otp, tokens, mailed, otps, resets>>,
         resetKey' \subseteq resetKey, overlapped \subseteq overlapped',
         \A o \in Nat \ overlapped' :
           task[p].step = "reset_del" /\ Resets(task[p], o, tokens) => Issued(o) \cap resetKey' = {}
  PROVE  SpentInv'
<1>1. OtpTyped'
  BY OtpTypedMoves DEF SpentInv, OtpTyped
<1>2. StoredOnce'
  BY DEF SpentInv, StoredOnce
<1>3. ASSUME NEW o \in Nat \ overlapped' PROVE Unspent(o)'
  <2>1. \A q \in Procs : task'[q] = IF q = p THEN t ELSE task[q]
    BY DEF Goes, AccountsInv, Typed
  <2>2. ~ Spends(t, o, tokens')
    BY DEF Spending, Spends, Verifies, Resets
  <2>3. Issued(o)' = Issued(o) /\ Issuing
    BY NothingIssued DEF Issued
  <2>4. TasksShaped /\ Unspent(o)
    BY DEF AccountsInv, SpentInv
  <2>5. \A q \in Procs : task'[q] = task[q] \/ ~ Spends(task'[q], o, tokens')
    BY <2>1, <2>2
  <2>6. \A q \in Procs : task[q].step = "reset_del" /\ Resets(task[q], o, tokens) =>
          task'[q] = task[q] \/ Issued(o) \cap resetKey' = {}
    BY <2>1
  <2> QED
    BY <2>3, <2>4, <2>5, <2>6, UnspentStays
<1> QED
  BY <1>1, <1>2, <1>3 DEF SpentInv

(* ... in the steps that have no part in resets. *)
LEMMA UnspentAside ==
  ASSUME AccountsInv, SpentInv, NEW p \in Procs, NEW t, Goes(p, t), t.step \notin Otping \cup Spending,
         task[p].step # "reset_del",
         UNCHANGED <<otp, tokens, mailed, otps, resets, resetKey, overlapped>>
  PROVE  SpentInv'
BY OtherShaped, UnspentRests

LEMMA AsksUnspent == ASSUME AccountsInv, SpentInv, NEW p \in Procs, Asks(p) PROVE SpentInv'
<1>1. ASSUME NEW t, Ask(p, t), OtpShaped(t, otps), t.step \notin Spending
      PROVE  SpentInv'
  BY <1>1, UnspentRests DEF Ask, At, redisVars, noted
<1>2. ASSUME NEW t, Ask(p, t), t.step \notin Otping \cup Spending PROVE SpentInv'
  BY <1>1, <1>2, OtherShaped
<1>3. CASE AskVerify(p)
  <2>1. PICK m \in mailed :
          Ask(p, [step |-> "verify", email |-> users[m.user].email, otp |-> m.otp])
    BY <1>3 DEF AskVerify
  <2> DEFINE t == [step |-> "verify", email |-> users[m.user].email, otp |-> m.otp]
  <2>2. m.otp \in 1 .. otps
    BY DEF SpentInv, OtpTyped
  <2>3. OtpShaped(t, otps) /\ t.step \notin Spending
    BY <2>2 DEF OtpShaped, Spending
  <2> HIDE DEF t
  <2> QED
    BY <1>1, <2>1, <2>3 DEF t
<1>4. CASE AskLogin(p)
  <2>1. PICK i : Ask(p, [step |-> "login", code |-> users[i].code, typed |-> users[i].pw])
    BY <1>4 DEF AskLogin
  <2> QED
    BY <1>2, <2>1 DEF Otping, Spending
<1>5. CASE AskLogout(p)
  <2>1. PICK i : Ask(p, [step |-> "drop", id |-> i])
    BY <1>5 DEF AskLogout
  <2> QED
    BY <1>2, <2>1 DEF Otping, Spending
<1>6. CASE AskChange(p)
  <2>1. PICK i : Ask(p, [step |-> "change", id |-> i, typed |-> users[i].pw])
    BY <1>6 DEF AskChange
  <2> QED
    BY <1>2, <2>1 DEF Otping, Spending
<1>7. CASE AskOtp(p)
  <2>1. PICK email : Ask(p, [step |-> "otp", email |-> email])
    BY <1>7 DEF AskOtp
  <2> QED
    BY <1>2, <2>1 DEF Otping, Spending
<1>8. CASE AskReset(p)
  <2>1. PICK n : Ask(p, [step |-> "reset", token |-> n])
    BY <1>8 DEF AskReset
  <2> QED
    BY <1>2, <2>1 DEF Otping, Spending
<1>9. CASE AskCreate(p)
  <2>1. PICK row : Ask(p, [step |-> "create", row |-> row])
    BY <1>9 DEF AskCreate
  <2> QED
    BY <1>2, <2>1 DEF Otping, Spending
<1>10. CASE AskUpdate(p)
  <2>1. PICK code, patch : Ask(p, [step |-> "update_find", code |-> code, patch |-> patch])
    BY <1>10 DEF AskUpdate
  <2> QED
    BY <1>2, <2>1 DEF Otping, Spending
<1>11. CASE AskRemove(p)
  <2>1. PICK code : Ask(p, [step |-> "remove_find", code |-> code])
    BY <1>11 DEF AskRemove
  <2> QED
    BY <1>2, <2>1 DEF Otping, Spending
<1>12. CASE AskImport(p)
  <2>1. PICK file : Ask(p, Idle) \/ Ask(p, [step |-> "import_find", file |-> file])
    BY <1>12 DEF AskImport
  <2> QED
    BY <1>2, <2>1 DEF Otping, Spending, Idle
<1> QED
  BY <1>3, <1>4, <1>5, <1>6, <1>7, <1>8, <1>9, <1>10, <1>11, <1>12 DEF Asks

(* A request that goes to a step of no interest here, or ends. *)
LEMMA StepUnspent ==
  ASSUME AccountsInv, SpentInv, NEW p \in Procs, NEW step, step \notin Otping \cup Spending,
         Goes(p, Idle) \/ Step(p, step), task[p].step # "reset_del",
         UNCHANGED <<otp, tokens, mailed, otps, resets, resetKey, overlapped>>
  PROVE  SpentInv'
<1>1. "step" \in DOMAIN task[p]
  BY DEF AccountsInv, TasksShaped, Shaped
<1>2. [task[p] EXCEPT !.step = step].step = step
  BY <1>1
<1> QED
  BY <1>2, UnspentAside DEF Step, Idle, Otping, Spending

LEMMA SessionStepUnspent ==
  ASSUME AccountsInv, SpentInv, NEW p \in Procs, SessionStep(p) PROVE SpentInv'
<1>1. CASE LoginFind(p)
  <2>1. task[p].step # "reset_del" /\
        UNCHANGED <<otp, tokens, mailed, otps, resets, resetKey, overlapped>>
    BY <1>1 DEF LoginFind, At, redisVars, noted
  <2>2. CASE Goes(p, Idle)
    BY <2>1, <2>2, UnspentAside DEF Idle, Otping, Spending
  <2>3. ASSUME NEW i, Goes(p, [step |-> "session", id |-> i, pw |-> users[i].pw])
        PROVE  SpentInv'
    BY <2>1, <2>3, UnspentAside DEF Otping, Spending
  <2> QED
    BY <1>1, <2>2, <2>3 DEF LoginFind
<1>2. CASE SetSession(p) \/ DropSession(p)
  BY <1>2, UnspentAside DEF SetSession, DropSession, At, Idle, Otping, Spending
<1>3. CASE ChangeFind(p)
  BY <1>3, StepUnspent DEF ChangeFind, At, redisVars, noted, Otping, Spending
<1>4. CASE ChangeWrite(p)
  <2>1. PICK t : Goes(p, t) /\ t.step \in {"idle", "drop"}
    BY <1>4 DEF ChangeWrite, Idle
  <2> QED
    BY <1>4, <2>1, UnspentAside DEF ChangeWrite, At, redisVars, noted, Otping, Spending
<1> QED
  BY <1>1, <1>2, <1>3, <1>4 DEF SessionStep

LEMMA UsersStepUnspent ==
  ASSUME AccountsInv, SpentInv, NEW p \in Procs, UsersStep(p) PROVE SpentInv'
<1>1. CASE CreateUser(p) \/ UpdateUser(p) \/ RemoveUser(p) \/ ImportAnswered(p)
  BY <1>1, UnspentAside
  DEF CreateUser, UpdateUser, RemoveUser, ImportAnswered, At, redisVars, noted, Idle, Otping, Spending
<1>2. CASE FindUser(p)
  <2>1. \E step \in {"update", "remove"} : Goes(p, Idle) \/ Step(p, step)
    BY <1>2 DEF FindUser
  <2> QED
    BY <1>2, <2>1, StepUnspent DEF FindUser, redisVars, noted, Otping, Spending
<1>3. CASE ImportFind(p) \/ ImportInsert(p)
  <2>1. PICK t : Goes(p, t) /\ t.step \in {"import_insert", "imported"}
    BY <1>3 DEF ImportFind, ImportInsert
  <2> QED
    BY <1>3, <2>1, UnspentAside DEF ImportFind, ImportInsert, At, redisVars, Otping, Spending
<1> QED
  BY <1>1, <1>2, <1>3 DEF UsersStep

(* A request that fails with an OTP or a token in hand is noted. *)
LEMMA FailsUnspent == ASSUME AccountsInv, SpentInv, NEW p \in Procs, Fails(p) PROVE SpentInv'
<1>1. OtpShaped(Idle, otps) /\ Idle.step \notin Spending
  BY DEF OtpShaped, Idle, Spending
<1>2. Goes(p, Idle) /\ UNCHANGED <<otp, tokens, mailed, otps, resets, resetKey>>
  BY DEF Fails, redisVars
<1>3. overlapped \subseteq overlapped'
  BY DEF Fails
<1>4. task[p].step = "reset_del" => tokens[task[p].token].otp \in overlapped'
  BY DEF Fails, At
<1> QED
  BY <1>1, <1>2, <1>3, <1>4, UnspentRests DEF Resets

(* The start of an instance concerns no OTP. *)
LEMMA StartUnspent ==
  ASSUME SpentInv, UNCHANGED <<task, otp, tokens, mailed, otps, resets, resetKey, overlapped>>
  PROVE  SpentInv'
<1>1. OtpTyped' /\ StoredOnce'
  BY DEF SpentInv, OtpTyped, StoredOnce
<1>2. \A o : Unspent(o)' = Unspent(o)
  BY DEF Unspent, Issued, At
<1> QED
  BY <1>1, <1>2 DEF SpentInv

LEMMA ExpireUnspent == ASSUME AccountsInv, SpentInv, NEW i \in Ids, Expire(i) PROVE SpentInv'
<1>1. UNCHANGED <<task, tokens, mailed, otps, resets, overlapped>> /\ resetKey' \subseteq resetKey
  BY DEF Expire, noted
<1>2. otp' = otp \/ otp' = [otp EXCEPT ![i] = Missing]
  BY DEF Expire
<1>3. otp' \in [Ids -> (1 .. otps) \cup {Missing}] /\ \A j \in Ids : otp'[j] \in {otp[j], Missing}
  BY <1>2 DEF SpentInv, OtpTyped
<1>4. OtpTyped'
  BY <1>1, <1>3 DEF SpentInv, OtpTyped
<1>5. StoredOnce'
  BY <1>3 DEF SpentInv, StoredOnce
<1>6. ASSUME NEW o \in Nat \ overlapped' PROVE Unspent(o)'
  <2>1. \A j \in Ids : otp'[j] = o => otp[j] = o
    BY <1>3, AccountsAssumption
  <2>2. Issued(o)' = Issued(o) /\ Issuing /\ TasksShaped /\ Unspent(o)
    BY <1>1, NothingIssued DEF Issued, AccountsInv, SpentInv
  <2> QED
    BY <1>1, <2>1, <2>2, UnspentStays
<1> QED
  BY <1>4, <1>5, <1>6 DEF SpentInv

----------------------------------------------------------------------------
(* The life of an OTP, step by step.                                       *)

LEMMA OtpChosen == ASSUME AccountsInv, SpentInv, NEW p \in Procs, OtpSet(p) PROVE SpentInv'
<1>1. PICK i \in Ids : task[p] = [step |-> "otp_set", id |-> i]
  BY DEF SpentInv, OtpTyped, OtpShaped, OtpSet, At
<1> DEFINE new == otps + 1
           t   == [step |-> "otp_limit", id |-> i, otp |-> new]
<1>2. /\ otps' = new /\ otp' = [otp EXCEPT ![i] = new] /\ Goes(p, t)
      /\ UNCHANGED <<resetKey, mailed, tokens, resets, overlapped>>
  BY <1>1 DEF OtpSet, noted
<1>3. otps \in Nat /\ new \in Nat /\ new \notin 1 .. otps /\ 1 .. otps \subseteq 1 .. new /\ new \in 1 .. new
  BY DEF SpentInv, OtpTyped
<1>4. \A j \in Ids : otp'[j] = IF j = i THEN new ELSE otp[j]
  BY <1>2 DEF SpentInv, OtpTyped
<1>5. \A q \in Procs : task'[q] = IF q = p THEN t ELSE task[q]
  BY <1>2 DEF Goes, AccountsInv, Typed
<1>6. \A j \in Ids : otp[j] # new
  BY <1>3, AccountsAssumption DEF SpentInv, OtpTyped
<1> HIDE DEF new
<1>7. \A q \in Procs : OtpShaped(task'[q], new)
  <2>1. OtpShaped(t, new)
    BY <1>3 DEF OtpShaped
  <2>2. \A q \in Procs : OtpShaped(task[q], new)
    BY <1>3 DEF SpentInv, OtpTyped, OtpShaped
  <2> HIDE DEF t
  <2> QED
    BY <1>5, <2>1, <2>2
<1>8. OtpTyped'
  BY <1>2, <1>3, <1>7 DEF SpentInv, OtpTyped
<1>9. StoredOnce'
  BY <1>4, <1>6 DEF SpentInv, StoredOnce
<1>10. \A q \in Procs : ~ Verifies(task[q], new)
  <2> SUFFICES ASSUME NEW q \in Procs, task[q].step \in {"verify_del", "verify_token"}
               PROVE  task[q].otp # new
    BY DEF Verifies
  <2>1. OtpShaped(task[q], otps)
    BY DEF SpentInv, OtpTyped
  <2>2. PICK j \in Ids, o \in 1 .. otps : task[q] = [step |-> task[q].step, id |-> j, otp |-> o]
    BY <2>1 DEF OtpShaped
  <2>3. task[q].otp = o
    BY <2>2
  <2> QED
    BY <1>3, <2>3
<1>11. Issued(new) = {}
  BY <1>3 DEF Issued, SpentInv, OtpTyped
<1>12. ASSUME NEW o \in Nat \ overlapped' PROVE Unspent(o)'
  <2>1. Issued(o)' = Issued(o) /\ Issuing /\ TasksShaped /\ Unspent(o)
    BY <1>2, NothingIssued DEF Issued, AccountsInv, SpentInv
  <2>2. \A q \in Procs : task'[q] = task[q] \/ ~ Spends(task'[q], o, tokens')
    BY <1>5 DEF Spends, Verifies, Resets
  <2>3. \A q \in Procs : task[q].step = "reset_del" => task'[q] = task[q]
    BY <1>1, <1>5
  <2>4. CASE o # new
    BY <1>2, <1>4, <2>1, <2>2, <2>3, <2>4, UnspentStays
  <2>5. CASE o = new
    <3>1. \A q \in Procs : ~ Verifies(task'[q], o)
      BY <1>5, <1>10, <2>5 DEF Verifies
    <3>2. \A q \in Procs : ~ Resets(task'[q], o, tokens')
      <4>1. \A q \in Procs : ~ Resets(task[q], o, tokens)
        <5> SUFFICES ASSUME NEW q \in Procs, task[q].step \in {"reset_write", "reset_del"}
                     PROVE  tokens[task[q].token].otp # o
          BY DEF Resets
        <5>1. Shaped(task[q], DOMAIN tokens, Known)
          BY DEF AccountsInv, TasksShaped
        <5>2. PICK n \in DOMAIN tokens : task[q] = [step |-> task[q].step, token |-> n]
          BY <5>1 DEF Shaped
        <5>3. task[q].token = n
          BY <5>2
        <5> QED
          BY <1>11, <2>5, <5>3 DEF Issued
      <4> QED
        BY <1>2, <1>5, <4>1 DEF Resets
    <3>3. Issued(o)' = {}
      BY <1>11, <2>1, <2>5
    <3> QED
      BY <1>2, <2>1, <3>1, <3>2, <3>3 DEF Unspent, Spends
  <2> QED
    BY <2>4, <2>5
<1> QED
  BY <1>8, <1>9, <1>12 DEF SpentInv

(* An OTP is found stored: by one request at a time, or it is noted.       *)
LEMMA OtpFound == ASSUME AccountsInv, SpentInv, NEW p \in Procs, VerifyGet(p) PROVE SpentInv'
<1>1. PICK i \in Ids, mine \in 1 .. otps : task[p] = [step |-> "verify_get", id |-> i, otp |-> mine]
  <2>1. OtpShaped(task[p], otps) /\ task[p].step = "verify_get"
    BY DEF SpentInv, OtpTyped, VerifyGet, At
  <2> QED
    BY <2>1 DEF OtpShaped
<1>2. UNCHANGED <<otp, tokens, mailed, otps, resets, resetKey>> /\ task[p].step # "reset_del"
  BY <1>1 DEF VerifyGet, redisVars
<1>3. CASE otp[i] # mine
  BY <1>1, <1>2, <1>3, UnspentAside DEF VerifyGet, Idle, Otping, Spending
<1>4. CASE otp[i] = mine
  <2> DEFINE t == [step |-> "verify_del", id |-> i, otp |-> mine]
  <2>1. Goes(p, t) /\ NoteUse(p, mine)
    BY <1>1, <1>4 DEF VerifyGet, Step
  <2>2. overlapped \subseteq overlapped' /\
        (mine \notin overlapped' => \A q \in Procs \ {p} : ~ Uses(q, mine))
    BY <2>1 DEF NoteUse
  <2>3. OtpShaped(t, otps)
    BY DEF OtpShaped
  <2> HIDE DEF t
  <2>4. OtpTyped' /\ StoredOnce'
    BY <1>2, <2>1, <2>3, OtpTypedMoves DEF SpentInv, OtpTyped, StoredOnce
  <2>5. \A q \in Procs : task'[q] = IF q = p THEN t ELSE task[q]
    BY <2>1 DEF Goes, AccountsInv, Typed
  <2>6. ASSUME NEW o \in Nat \ overlapped' PROVE Unspent(o)'
    <3>1. Issued(o)' = Issued(o) /\ Issuing /\ TasksShaped /\ Unspent(o)
      BY <1>2, <2>2, NothingIssued DEF Issued, AccountsInv, SpentInv
    <3>2. CASE o # mine
      <4>1. \A q \in Procs : task'[q] = task[q] \/ ~ Spends(task'[q], o, tokens')
        BY <2>5, <3>2 DEF Spends, Verifies, Resets, t
      <4>2. \A q \in Procs : task[q].step = "reset_del" => task'[q] = task[q]
        BY <1>2, <2>5
      <4> QED
        BY <1>2, <3>1, <4>1, <4>2, UnspentStays
    <3>3. CASE o = mine
      <4>1. \A q \in Procs \ {p} : ~ Uses(q, o)
        BY <2>2, <3>3
      <4>2. Issued(o) = {} /\ \A q \in Procs : Verifies(task[q], o) => At(q, "verify_del")
        BY <1>4, <3>1, <3>3 DEF Unspent
      <4>3. \A q \in Procs \ {p} : ~ Verifies(task[q], o) /\ ~ Resets(task[q], o, tokens)
        BY <4>1, <4>2 DEF Uses, Verifies, Resets, At
      <4>4. \A q \in Procs : Spends(task'[q], o, tokens') => q = p
        BY <1>2, <2>5, <4>3 DEF Spends
      <4>5. ~ Resets(t, o, tokens') /\ t.step = "verify_del" /\ t.id = i
        BY DEF Resets, t
      <4>6. \A j \in Ids : otp'[j] = o => j = i
        BY <1>2, <1>4, <3>3, AccountsAssumption DEF SpentInv, StoredOnce
      <4>7. \A q \in Procs : ~ Resets(task'[q], o, tokens')
        BY <1>2, <2>5, <4>3, <4>5
      <4>8. \A q \in Procs : Verifies(task'[q], o) => task'[q].step = "verify_del" /\ task'[q].id = i
        BY <2>5, <4>3, <4>5
      <4>9. o \in DOMAIN resets' => resets'[o] = 0
        BY <1>2, <3>1, <4>2 DEF Unspent
      <4> QED
        BY <3>1, <4>2, <4>4, <4>6, <4>7, <4>8, <4>9 DEF Unspent, At
    <3> QED
      BY <3>2, <3>3
  <2> QED
    BY <2>4, <2>6 DEF SpentInv
<1> QED
  BY <1>3, <1>4

(* The OTP in hand, by now perhaps a newer one, is no longer stored.       *)
LEMMA OtpTaken == ASSUME AccountsInv, SpentInv, NEW p \in Procs, VerifyDel(p) PROVE SpentInv'
<1>1. PICK i \in Ids, mine \in 1 .. otps : task[p] = [step |-> "verify_del", id |-> i, otp |-> mine]
  <2>1. OtpShaped(task[p], otps) /\ task[p].step = "verify_del"
    BY DEF SpentInv, OtpTyped, VerifyDel, At
  <2> QED
    BY <2>1 DEF OtpShaped
<1> DEFINE t == [step |-> "verify_token", id |-> i, otp |-> mine]
<1>2. /\ Goes(p, t) /\ otp' = [otp EXCEPT ![i] = Missing]
      /\ UNCHANGED <<tokens, mailed, otps, resets, resetKey, overlapped>>
  BY <1>1 DEF VerifyDel, Step, noted
<1>3. otp' \in [Ids -> (1 .. otps) \cup {Missing}] /\
      \A j \in Ids : otp'[j] = IF j = i THEN Missing ELSE otp[j]
  BY <1>2 DEF SpentInv, OtpTyped
<1>4. OtpShaped(t, otps)
  BY DEF OtpShaped
<1> HIDE DEF t
<1>5. OtpTyped'
  BY <1>2, <1>3, <1>4, OtpTypedMoves DEF SpentInv, OtpTyped
<1>6. StoredOnce'
  BY <1>3 DEF SpentInv, StoredOnce
<1>7. \A q \in Procs : task'[q] = IF q = p THEN t ELSE task[q]
  BY <1>2 DEF Goes, AccountsInv, Typed
<1>8. ASSUME NEW o \in Nat \ overlapped' PROVE Unspent(o)'
  <2>1. Issued(o)' = Issued(o) /\ Issuing /\ TasksShaped /\ Unspent(o)
    BY <1>2, NothingIssued DEF Issued, AccountsInv, SpentInv
  <2>2. \A j \in Ids : otp'[j] = o => j # i /\ otp[j] = o
    BY <1>3, AccountsAssumption
  <2>3. CASE o # mine
    <3>1. \A q \in Procs : task'[q] = task[q] \/ ~ Spends(task'[q], o, tokens')
      BY <1>7, <2>3 DEF Spends, Verifies, Resets, t
    <3>2. \A q \in Procs : task[q].step = "reset_del" => task'[q] = task[q]
      BY <1>1, <1>7
    <3> QED
      BY <1>2, <2>1, <2>2, <3>1, <3>2, UnspentStays
  <2>4. CASE o = mine
    <3>1. Verifies(task[p], o) /\ task[p].id = i
      BY <1>1, <2>4 DEF Verifies
    <3>2. Issued(o) = {} /\ \A q \in Procs \ {p} : ~ Spends(task[q], o, tokens)
      BY <2>1, <3>1 DEF Unspent, Spends
    <3>3. \A j \in Ids : otp'[j] # o
      BY <2>1, <2>2, <3>1 DEF Unspent
    <3>4. \A q \in Procs \ {p} : ~ Spends(task'[q], o, tokens') /\ ~ Resets(task'[q], o, tokens')
      BY <1>2, <1>7, <3>2 DEF Spends
    <3>5. ~ Resets(t, o, tokens')
      BY DEF Resets, t
    <3>6. \A q \in Procs : ~ Resets(task'[q], o, tokens')
      BY <1>7, <3>4, <3>5
    <3>7. o \in DOMAIN resets' => resets'[o] = 0
      BY <1>2, <2>1, <3>2 DEF Unspent
    <3> QED
      BY <2>1, <3>2, <3>3, <3>4, <3>6, <3>7 DEF Unspent
  <2> QED
    BY <2>3, <2>4
<1> QED
  BY <1>5, <1>6, <1>8 DEF SpentInv

(* The one request with the OTP turns it into the one token.               *)
LEMMA OtpExchanged == ASSUME AccountsInv, SpentInv, NEW p \in Procs, VerifyToken(p) PROVE SpentInv'
<1>1. PICK i \in Ids, mine \in 1 .. otps : task[p] = [step |-> "verify_token", id |-> i, otp |-> mine]
  <2>1. OtpShaped(task[p], otps) /\ task[p].step = "verify_token"
    BY DEF SpentInv, OtpTyped, VerifyToken, At
  <2> QED
    BY <2>1 DEF OtpShaped
<1> DEFINE new == Len(tokens) + 1
<1>2. /\ Goes(p, Idle) /\ tokens' = Append(tokens, [user |-> i, otp |-> mine])
      /\ resetKey' = resetKey \cup {new}
      /\ UNCHANGED <<otp, mailed, otps, resets, overlapped>>
  BY <1>1 DEF VerifyToken, noted
<1>3. Issuing /\ new \notin DOMAIN tokens
      /\ DOMAIN tokens' = DOMAIN tokens \cup {new} /\ tokens'[new].otp = mine
  <2>1. PICK issues : tokens \in Seq(issues)
    BY DEF AccountsInv, Typed
  <2> QED
    BY <1>2, <2>1, TokenIssued DEF AccountsInv
<1> HIDE DEF new
<1>4. \A q \in Procs : task'[q] = IF q = p THEN Idle ELSE task[q]
  BY <1>2 DEF Goes, AccountsInv, Typed
<1>5. OtpTyped'
  <2>1. \A n \in DOMAIN tokens' : tokens'[n].otp \in 1 .. otps'
    BY <1>2, <1>3 DEF SpentInv, OtpTyped, Issuing
  <2>2. OtpShaped(Idle, otps) /\ \A q \in Procs : OtpShaped(task[q], otps)
    BY OtherShaped DEF SpentInv, OtpTyped, Idle, Otping
  <2>3. \A q \in Procs : OtpShaped(task'[q], otps')
    BY <1>2, <1>4, <2>2
  <2> QED
    BY <1>2, <2>1, <2>3 DEF SpentInv, OtpTyped
<1>6. StoredOnce'
  BY <1>2 DEF SpentInv, StoredOnce
<1>7. ASSUME NEW o \in Nat \ overlapped' PROVE Unspent(o)'
  <2>1. TasksShaped /\ Unspent(o)
    BY <1>2 DEF AccountsInv, SpentInv
  <2>2. CASE o # mine
    <3>1. Issued(o)' = Issued(o) /\ new \notin Issued(o)
      BY <1>3, <2>2 DEF Issued, Issuing
    <3>2. \A q \in Procs : task'[q] = task[q] \/ ~ Spends(task'[q], o, tokens')
      BY <1>4 DEF Spends, Verifies, Resets, Idle
    <3>3. \A q \in Procs : task[q].step = "reset_del" => task'[q] = task[q]
      BY <1>1, <1>4
    <3> QED
      BY <1>2, <1>3, <2>1, <3>1, <3>2, <3>3, UnspentStays
  <2>3. CASE o = mine
    <3>1. Verifies(task[p], o) /\ Spends(task[p], o, tokens)
      BY <1>1, <2>3 DEF Verifies, Spends
    <3>2. Issued(o) = {} /\ \A q \in Procs \ {p} : ~ Spends(task[q], o, tokens)
      BY <2>1, <3>1 DEF Unspent
    <3>3. Issued(o)' = {new}
      BY <1>3, <2>3, <3>2 DEF Issued, Issuing
    <3>4. \A q \in Procs \ {p} : ~ Spends(task'[q], o, tokens')
      BY <1>3, <1>4, <2>1, <3>2, SpendsStays
    <3>5. ~ Spends(Idle, o, tokens')
      BY DEF Spends, Verifies, Resets, Idle
    <3>6. \A q \in Procs : ~ Verifies(task'[q], o) /\ ~ Resets(task'[q], o, tokens')
      BY <1>4, <3>4, <3>5 DEF Spends
    <3>7. \A j \in Ids : otp'[j] # o
      BY <1>1, <1>2, <2>1, <3>1 DEF Unspent, At
    <3>8. o \in DOMAIN resets' => resets'[o] = 0
      BY <1>2, <2>1, <3>2 DEF Unspent
    <3> QED
      BY <3>3, <3>6, <3>7, <3>8 DEF Unspent, Spends
  <2> QED
    BY <2>2, <2>3
<1> QED
  BY <1>5, <1>6, <1>7 DEF SpentInv

(* A token is found stored: by one request at a time, or it is noted.      *)
LEMMA TokenFound == ASSUME AccountsInv, SpentInv, NEW p \in Procs, ResetGet(p) PROVE SpentInv'
<1>1. PICK n \in DOMAIN tokens : task[p] = [step |-> "reset", token |-> n]
  <2>1. Shaped(task[p], DOMAIN tokens, Known) /\ task[p].step = "reset"
    BY DEF AccountsInv, TasksShaped, ResetGet, At
  <2> QED
    BY <2>1 DEF Shaped
<1> DEFINE mine == tokens[n].otp
           t    == [step |-> "reset_write", token |-> n]
<1>2. UNCHANGED <<otp, tokens, mailed, otps, resets, resetKey>> /\ task[p].step # "reset_del"
  BY <1>1 DEF ResetGet, redisVars
<1>3. CASE n \notin resetKey
  BY <1>1, <1>2, <1>3, UnspentAside DEF ResetGet, Idle, Otping, Spending
<1>4. CASE n \in resetKey
  <2>1. Goes(p, t) /\ NoteUse(p, mine)
    BY <1>1, <1>4 DEF ResetGet, Step
  <2>2. overlapped \subseteq overlapped' /\
        (mine \notin overlapped' => \A q \in Procs \ {p} : ~ Uses(q, mine))
    BY <2>1 DEF NoteUse
  <2>3. OtpShaped(t, otps)
    BY DEF OtpShaped
  <2>4. \A o : Spends(t, o, tokens') <=> o = mine
    BY <1>2 DEF Spends, Verifies, Resets
  <2>5. \A o : ~ Verifies(t, o)
    BY DEF Verifies
  <2> HIDE DEF t
  <2>6. OtpTyped' /\ StoredOnce'
    BY <1>2, <2>1, <2>3, OtpTypedMoves DEF SpentInv, OtpTyped, StoredOnce
  <2>7. \A q \in Procs : task'[q] = IF q = p THEN t ELSE task[q]
    BY <2>1 DEF Goes, AccountsInv, Typed
  <2>8. ASSUME NEW o \in Nat \ overlapped' PROVE Unspent(o)'
    <3>1. Issued(o)' = Issued(o) /\ Issuing /\ TasksShaped /\ Unspent(o)
      BY <1>2, <2>2, NothingIssued DEF Issued, AccountsInv, SpentInv
    <3>2. CASE o # mine
      <4>1. \A q \in Procs : task'[q] = task[q] \/ ~ Spends(task'[q], o, tokens')
        BY <2>4, <2>7, <3>2
      <4>2. \A q \in Procs : task[q].step = "reset_del" => task'[q] = task[q]
        BY <1>2, <2>7
      <4> QED
        BY <1>2, <3>1, <4>1, <4>2, UnspentStays
    <3>3. CASE o = mine
      <4>1. n \in Issued(o)
        BY <3>3 DEF Issued
      <4>2. \A q \in Procs : ~ Verifies(task[q], o)
        BY <3>1, <4>1 DEF Unspent
      <4>3. \A q \in Procs \ {p} : ~ Resets(task[q], o, tokens)
        BY <2>2, <3>3 DEF Uses, Resets, At
      <4>4. ~ Resets(task[p], o, tokens)
        BY <1>1 DEF Resets
      <4>5. o \in DOMAIN resets => resets[o] = 0
        <5>1. \A q \in Procs : ~ Resets(task[q], o, tokens)
          BY <4>3, <4>4
        <5> QED
          BY <1>4, <3>1, <4>1, <5>1 DEF Unspent
      <4>6. \A q \in Procs : ~ Verifies(task'[q], o)
        BY <2>5, <2>7, <4>2
      <4>7. \A q \in Procs : Resets(task'[q], o, tokens') => q = p
        BY <1>2, <2>7, <4>3
      <4>8. \A j \in Ids : otp'[j] # o
        BY <1>2, <3>1, <4>1 DEF Unspent
      <4>9. \A m, k \in Issued(o)' : m = k
        BY <3>1 DEF Unspent
      <4> QED
        BY <1>2, <4>5, <4>6, <4>7, <4>8, <4>9 DEF Unspent, Spends
    <3> QED
      BY <3>2, <3>3
  <2> QED
    BY <2>6, <2>8 DEF SpentInv
<1> QED
  BY <1>3, <1>4

(* The one request with the token sets a password; an account that was     *)
(* removed leaves the token as it was.                                     *)
LEMMA TokenSpent == ASSUME AccountsInv, SpentInv, NEW p \in Procs, ResetWrite(p) PROVE SpentInv'
<1>1. PICK n \in DOMAIN tokens : task[p] = [step |-> "reset_write", token |-> n]
  <2>1. Shaped(task[p], DOMAIN tokens, Known) /\ task[p].step = "reset_write"
    BY DEF AccountsInv, TasksShaped, ResetWrite, At
  <2> QED
    BY <2>1 DEF Shaped
<1> DEFINE mine == tokens[n].otp
           t    == [step |-> "reset_del", token |-> n]
<1>2. UNCHANGED <<otp, tokens, mailed, otps, resetKey, overlapped>> /\ task[p].step # "reset_del"
  BY <1>1 DEF ResetWrite, redisVars
<1>3. CASE tokens[n].user \notin Rows
  BY <1>1, <1>2, <1>3, UnspentAside DEF ResetWrite, Idle, Otping, Spending
<1>4. CASE tokens[n].user \in Rows
  <2>1. Goes(p, t) /\ resets' = [resets EXCEPT ![mine] = @ + 1]
    BY <1>1, <1>4 DEF ResetWrite, Step
  <2>2. OtpShaped(t, otps)
    BY DEF OtpShaped
  <2>3. \A o : (Spends(t, o, tokens') <=> o = mine) /\ ~ Verifies(t, o)
    BY <1>2 DEF Spends, Verifies, Resets
  <2>4. t.step = "reset_del" /\ Resets(t, mine, tokens')
    BY <1>2 DEF Resets
  <2>5. DOMAIN resets' = DOMAIN resets /\
        \A o \in DOMAIN resets : resets'[o] = IF o = mine THEN resets[o] + 1 ELSE resets[o]
    BY <2>1
  <2> HIDE DEF t
  <2>6. \A o \in DOMAIN resets' : o \in Nat /\ resets'[o] \in Nat
    BY <2>5 DEF SpentInv, OtpTyped
  <2>7. OtpTyped' /\ StoredOnce'
    BY <1>2, <2>1, <2>2, <2>6, OtpTypedMoves DEF SpentInv, OtpTyped, StoredOnce
  <2>8. \A q \in Procs : task'[q] = IF q = p THEN t ELSE task[q]
    BY <2>1 DEF Goes, AccountsInv, Typed
  <2>9. ASSUME NEW o \in Nat \ overlapped' PROVE Unspent(o)'
    <3>1. Issued(o)' = Issued(o) /\ Issuing /\ TasksShaped /\ Unspent(o)
      BY <1>2, NothingIssued DEF Issued, AccountsInv, SpentInv
    <3>2. CASE o # mine
      <4>1. \A q \in Procs : task'[q] = task[q] \/ ~ Spends(task'[q], o, tokens')
        BY <2>3, <2>8, <3>2
      <4>2. \A q \in Procs : task[q].step = "reset_del" => task'[q] = task[q]
        BY <1>2, <2>8
      <4>3. o \in DOMAIN resets => resets'[o] = resets[o]
        BY <2>5, <3>2
      <4> QED
        BY <1>2, <2>5, <3>1, <4>1, <4>2, <4>3, UnspentStays
    <3>3. CASE o = mine
      <4>1. n \in Issued(o) /\ Resets(task[p], o, tokens) /\ At(p, "reset_write")
        BY <1>1, <3>3 DEF Issued, Resets, At
      <4>2. \A q \in Procs \ {p} : ~ Spends(task[q], o, tokens)
        BY <3>1, <4>1 DEF Unspent, Spends
      <4>3. o \in DOMAIN resets => resets[o] = 0
        BY <3>1, <4>1 DEF Unspent
      <4>4. \A q \in Procs \ {p} : ~ Verifies(task'[q], o) /\ ~ Resets(task'[q], o, tokens')
        BY <1>2, <2>8, <4>2 DEF Spends
      <4>5. \A q \in Procs : ~ Verifies(task'[q], o)
        BY <2>3, <2>8, <4>4
      <4>6. task'[p].step = "reset_del" /\ Resets(task'[p], o, tokens')
        BY <2>4, <2>8, <3>3
      <4>7. \A j \in Ids : otp'[j] # o
        BY <1>2, <3>1, <4>1 DEF Unspent
      <4>8. \A m, k \in Issued(o)' : m = k
        BY <3>1 DEF Unspent
      <4>9. o \in DOMAIN resets' => resets'[o] = 1
        BY <2>5, <3>3, <4>3
      <4>10. n \in Issued(o)'
        BY <3>1, <4>1
      <4>11. \A q \in Procs : Resets(task'[q], o, tokens') => task'[q].step = "reset_del"
        BY <4>4, <4>6
      <4> QED
        BY <4>4, <4>5, <4>6, <4>7, <4>8, <4>9, <4>10, <4>11 DEF Unspent, Spends, At
    <3> QED
      BY <3>2, <3>3
  <2> QED
    BY <2>7, <2>9 DEF SpentInv
<1> QED
  BY <1>3, <1>4

(* The only token of the OTP is deleted.                                   *)
LEMMA TokenDeleted == ASSUME AccountsInv, SpentInv, NEW p \in Procs, ResetDel(p) PROVE SpentInv'
<1>1. PICK n \in DOMAIN tokens : task[p] = [step |-> "reset_del", token |-> n]
  <2>1. Shaped(task[p], DOMAIN tokens, Known) /\ task[p].step = "reset_del"
    BY DEF AccountsInv, TasksShaped, ResetDel, At
  <2> QED
    BY <2>1 DEF Shaped
<1> DEFINE t == [step |-> "drop", id |-> tokens[n].user]
<1>2. /\ Goes(p, t) /\ resetKey' = resetKey \ {n}
      /\ UNCHANGED <<otp, tokens, mailed, otps, resets, overlapped>>
  BY <1>1 DEF ResetDel, noted
<1>3. OtpShaped(t, otps) /\ t.step \notin Spending
  BY DEF OtpShaped, Spending
<1> HIDE DEF t
<1>4. ASSUME NEW o \in Nat \ overlapped', Resets(task[p], o, tokens)
      PROVE  Issued(o) \cap resetKey' = {}
  <2>1. n \in Issued(o)
    BY <1>1, <1>4 DEF Issued, Resets
  <2>2. \A m \in Issued(o) : m = n
    BY <1>2, <2>1 DEF SpentInv, Unspent
  <2> QED
    BY <1>2, <2>2
<1> QED
  BY <1>2, <1>3, <1>4, UnspentRests

(* A request about an OTP that keeps its user and OTP on its way.          *)
LEMMA OtpSteps ==
  ASSUME AccountsInv, SpentInv, NEW p \in Procs,
         OtpFind(p) \/ OtpRate(p) \/ OtpLimit(p) \/ OtpMail(p) \/ VerifyFind(p)
  PROVE  SpentInv'
<1>0. OtpShaped(task[p], otps)
  BY DEF SpentInv, OtpTyped
<1>1. OtpShaped(Idle, otps) /\ Idle.step \notin Spending
  BY DEF OtpShaped, Idle, Spending
<1>2. CASE OtpFind(p)
  <2>1. UNCHANGED <<otp, tokens, mailed, otps, resets, resetKey, overlapped>> /\ At(p, "otp")
    BY <1>2 DEF OtpFind, redisVars, noted
  <2>2. Goes(p, Idle) \/ \E i \in Ids : Goes(p, [step |-> "otp_rate", id |-> i])
    BY <1>2 DEF OtpFind, ByEmail, Rows
  <2>3. \A i \in Ids : LET t == [step |-> "otp_rate", id |-> i]
                       IN  OtpShaped(t, otps) /\ t.step \notin Spending
    BY DEF OtpShaped, Spending
  <2> QED
    BY <1>1, <2>1, <2>2, <2>3, UnspentRests DEF At
<1>3. CASE OtpRate(p)
  <2>1. UNCHANGED <<otp, tokens, mailed, otps, resets, resetKey, overlapped>>
    BY <1>3 DEF OtpRate, redisVars, noted
  <2>2. PICK i \in Ids : task[p] = [step |-> "otp_rate", id |-> i]
    BY <1>0, <1>3 DEF OtpShaped, OtpRate, At
  <2> DEFINE t == [step |-> "otp_set", id |-> i]
  <2>3. Goes(p, Idle) \/ Goes(p, t)
    BY <1>3, <2>2 DEF OtpRate, Step
  <2>4. OtpShaped(t, otps) /\ t.step \notin Spending
    BY DEF OtpShaped, Spending
  <2> HIDE DEF t
  <2> QED
    BY <1>1, <2>1, <2>2, <2>3, <2>4, UnspentRests
<1>4. CASE OtpLimit(p)
  <2>1. UNCHANGED <<otp, tokens, mailed, otps, resets, resetKey, overlapped>>
    BY <1>4 DEF OtpLimit, noted
  <2>2. PICK i \in Ids, o \in 1 .. otps : task[p] = [step |-> "otp_limit", id |-> i, otp |-> o]
    BY <1>0, <1>4 DEF OtpShaped, OtpLimit, At
  <2> DEFINE t == [step |-> "otp_mail", id |-> i, otp |-> o]
  <2>3. Goes(p, t)
    BY <1>4, <2>2 DEF OtpLimit, Step
  <2>4. OtpShaped(t, otps) /\ t.step \notin Spending
    BY DEF OtpShaped, Spending
  <2> HIDE DEF t
  <2> QED
    BY <2>1, <2>2, <2>3, <2>4, UnspentRests
<1>5. CASE OtpMail(p)
  <2>1. UNCHANGED <<otp, tokens, otps, resets, resetKey, overlapped>> /\ Goes(p, Idle)
    BY <1>5 DEF OtpMail, noted
  <2>2. PICK i \in Ids, o \in 1 .. otps : task[p] = [step |-> "otp_mail", id |-> i, otp |-> o]
    BY <1>0, <1>5 DEF OtpShaped, OtpMail, At
  <2>3. \A m \in mailed' : m.otp \in 1 .. otps
    BY <1>5, <2>2 DEF OtpMail, SpentInv, OtpTyped
  <2>4. \A q \in Procs : task'[q] = IF q = p THEN Idle ELSE task[q]
    BY <2>1 DEF Goes, AccountsInv, Typed
  <2>5. \A q \in Procs : OtpShaped(task'[q], otps)
    BY <1>1, <2>4 DEF SpentInv, OtpTyped
  <2>6. OtpTyped' /\ StoredOnce'
    BY <2>1, <2>3, <2>5 DEF SpentInv, OtpTyped, StoredOnce
  <2>7. ASSUME NEW o1 \in Nat \ overlapped' PROVE Unspent(o1)'
    <3>1. Issued(o1)' = Issued(o1) /\ Issuing /\ TasksShaped /\ Unspent(o1)
      BY <2>1, NothingIssued DEF Issued, AccountsInv, SpentInv
    <3>2. \A q \in Procs : task'[q] = task[q] \/ ~ Spends(task'[q], o1, tokens')
      BY <2>4 DEF Spends, Verifies, Resets, Idle
    <3>3. \A q \in Procs : task[q].step = "reset_del" => task'[q] = task[q]
      BY <2>2, <2>4
    <3> QED
      BY <2>1, <3>1, <3>2, <3>3, UnspentStays
  <2> QED
    BY <2>6, <2>7 DEF SpentInv
<1>6. CASE VerifyFind(p)
  <2>1. UNCHANGED <<otp, tokens, mailed, otps, resets, resetKey, overlapped>> /\ At(p, "verify")
    BY <1>6 DEF VerifyFind, redisVars, noted
  <2>2. \/ Goes(p, Idle)
        \/ \E i \in Ids : Goes(p, [step |-> "verify_get", id |-> i, otp |-> task[p].otp])
    BY <1>6 DEF VerifyFind, ByEmail, Rows
  <2>3. task[p].otp \in 1 .. otps
    BY <1>0, <2>1 DEF OtpShaped, At
  <2>4. \A i \in Ids : LET t == [step |-> "verify_get", id |-> i, otp |-> task[p].otp]
                       IN  OtpShaped(t, otps) /\ t.step \notin Spending
    BY <2>3 DEF OtpShaped, Spending
  <2> QED
    BY <1>1, <2>1, <2>2, <2>4, UnspentRests DEF At
<1> QED
  BY <1>2, <1>3, <1>4, <1>5, <1>6

LEMMA SpentInvariant == Spec => []SpentInv
<1>1. ASSUME AccountsInv, SpentInv, Next PROVE SpentInv'
  <2>1. ASSUME NEW p \in Procs,
               Asks(p) \/ SessionStep(p) \/ OtpStep(p) \/ UsersStep(p) \/ Fails(p)
        PROVE  SpentInv'
    <3>1. CASE OtpStep(p)
      BY <1>1, <3>1, OtpSteps, OtpChosen, OtpFound, OtpTaken, OtpExchanged, TokenFound, TokenSpent,
         TokenDeleted DEF OtpStep
    <3> QED
      BY <1>1, <2>1, <3>1, AsksUnspent, SessionStepUnspent, UsersStepUnspent, FailsUnspent
  <2>2. ASSUME NEW n \in Instances, StartFind(n) \/ StartEmail(n) \/ StartCreate(n)
        PROVE  SpentInv'
    BY <1>1, <2>2, StartUnspent DEF StartFind, StartEmail, StartCreate, redisVars, noted
  <2>3. ASSUME NEW i \in Ids, Expire(i) PROVE SpentInv'
    BY <1>1, <2>3, ExpireUnspent
  <2> QED
    BY <1>1, <2>1, <2>2, <2>3 DEF Next
<1>2. SpentInv /\ UNCHANGED vars => SpentInv'
  BY StartUnspent DEF vars, redisVars, noted
<1> QED
  BY <1>1, <1>2, AccountsInvariant, SpentInvInit, PTL DEF Spec

(* sendOtp, verifyOtp and resetPasswordWithToken, by any number of         *)
(* requests: an OTP that reached a user changes one password at most,      *)
(* unless two requests were between the GET of its key and the DEL at      *)
(* once, or a DEL was refused.                                             *)
THEOREM OtpsAreSpentOnce == Spec => []OneResetPerOtp
<1>1. SpentInv => OneResetPerOtp
  <2> SUFFICES ASSUME SpentInv, NEW o \in DOMAIN resets, o \notin overlapped PROVE resets[o] <= 1
    BY DEF OneResetPerOtp
  <2>1. Unspent(o)
    BY DEF SpentInv, OtpTyped
  <2> QED
    BY <2>1 DEF Unspent
<1> QED
  BY <1>1, SpentInvariant, PTL

----------------------------------------------------------------------------
(* The counts of an import.                                                *)

(* Nobody took the code or the email of a row that was found to be new. *)
Unclaimed(rows) == \A row \in rows : ByCode(row.code) \cup ByEmail(row.email) = {}

ImportShaped(t) ==
  /\ t.step = "import_insert" =>
       /\ t.file \in Files /\ t.rows \subseteq Kept(t.file)
       /\ t.duplicates = Len(t.file) - Cardinality(Kept(t.file))
       /\ t.existing = Cardinality(Kept(t.file) \ t.rows)
  /\ t.step = "imported" =>
       t.inserted + t.duplicates + t.existing <= Len(t.file)

(* What an import counts on while nobody disturbs it. *)
ImportExact(t) ==
  /\ t.step = "import_insert" => Unclaimed(t.rows)
  /\ t.step = "imported" => t.inserted + t.duplicates + t.existing = Len(t.file)

ImportInv ==
  \A p \in Procs : ImportShaped(task[p]) /\ (p \notin disturbed => ImportExact(task[p]))

Importing == {"import_insert", "imported"}

(* No row has a code or an email that it did not have before. *)
ColumnsKept ==
  \A i \in Rows' : i \in Rows /\ users'[i].code = users[i].code /\ users'[i].email = users[i].email

LEMMA UnclaimedStays == ASSUME ColumnsKept, NEW rows, Unclaimed(rows) PROVE Unclaimed(rows)'
BY DEF ColumnsKept, Unclaimed, ByCode, ByEmail

LEMMA SameColumns == UNCHANGED users => ColumnsKept
BY DEF ColumnsKept, Rows

(* The rows of a file that are kept can be counted. *)
LEMMA KeptIsFinite == ASSUME NEW file \in Files PROVE IsFiniteSet(Kept(file))
<1>1. file \in [1 .. Len(file) -> CsvRow] /\ Len(file) \in Nat
  BY AccountsAssumption
<1>2. IsFiniteSet(1 .. Len(file))
  BY <1>1, FS_Interval
<1>3. file \in Surjection(1 .. Len(file), Range(file))
  BY <1>1, Fun_RangeProperties
<1>4. IsFiniteSet(Range(file))
  BY <1>2, <1>3, FS_Surjection
<1> QED
  BY <1>4, FS_Subset DEF Kept

(* Of the rows kept, some exist and the others are inserted or left out. *)
LEMMA CountsOf ==
  ASSUME NEW K, IsFiniteSet(K), NEW rows, rows \subseteq K, NEW put, put \subseteq rows
  PROVE  /\ Cardinality(K) \in Nat /\ Cardinality(rows) \in Nat /\ Cardinality(put) \in Nat
         /\ Cardinality(K \ rows) = Cardinality(K) - Cardinality(rows)
         /\ Cardinality(put) <= Cardinality(rows)
<1>1. IsFiniteSet(rows)
  BY FS_Subset
<1>2. IsFiniteSet(put) /\ Cardinality(put) <= Cardinality(rows)
  BY <1>1, FS_Subset
<1>3. Cardinality(K \ rows) = Cardinality(K) - Cardinality(K \cap rows)
  BY FS_Difference
<1>4. K \cap rows = rows
  OBVIOUS
<1> QED
  BY <1>1, <1>2, <1>3, <1>4, FS_CardinalityType

(* The imports of others: their rows stay free, or they are told. *)
LEMMA ImportsRest ==
  ASSUME ImportInv, NEW q \in Procs, task'[q] = task[q],
         q \in disturbed => q \in disturbed',
         ColumnsKept \/ (At(q, "import_insert") => q \in disturbed')
  PROVE  ImportShaped(task[q])' /\ (q \notin disturbed' => ImportExact(task[q])')
<1>1. ImportShaped(task[q])'
  BY DEF ImportInv
<1>2. ASSUME q \notin disturbed' PROVE ImportExact(task[q])'
  <2>1. ImportExact(task[q])
    BY <1>2 DEF ImportInv
  <2>2. task[q].step = "import_insert" => ColumnsKept
    BY <1>2 DEF At
  <2> QED
    BY <2>1, <2>2, UnclaimedStays DEF ImportExact
<1> QED
  BY <1>1, <1>2

LEMMA ImportInvHolds ==
  ASSUME \A q \in Procs : ImportShaped(task[q])' /\ (q \notin disturbed' => ImportExact(task[q])')
  PROVE  ImportInv'
BY DEF ImportInv

(* A request that neither is nor becomes an import at work, and tells the  *)
(* imports of what it does to the columns.                                 *)
LEMMA ImportsAside ==
  ASSUME AccountsInv, ImportInv, NEW p \in Procs, NEW t, Goes(p, t), t.step \notin Importing,
         disturbed \subseteq disturbed',
         ColumnsKept \/ Disturbs({p})
  PROVE  ImportInv'
<1>1. \A q \in Procs : task'[q] = IF q = p THEN t ELSE task[q]
  BY DEF Goes, AccountsInv, Typed
<1>2. ImportShaped(t) /\ ImportExact(t)'
  BY DEF ImportShaped, ImportExact, Importing
<1>3. ASSUME NEW q \in Procs, q # p
      PROVE  ImportShaped(task[q])' /\ (q \notin disturbed' => ImportExact(task[q])')
  <2>1. ColumnsKept \/ (At(q, "import_insert") => q \in disturbed')
    BY <1>3 DEF Disturbs
  <2> QED
    BY <1>1, <1>3, <2>1, ImportsRest
<1>4. ImportShaped(task[p])' /\ ImportExact(task[p])'
  BY <1>1, <1>2 DEF ImportShaped, ImportExact, Importing
<1> QED
  BY <1>3, <1>4, ImportInvHolds

LEMMA StepImports ==
  ASSUME AccountsInv, ImportInv, NEW p \in Procs, NEW step, step \notin Importing,
         Goes(p, Idle) \/ Step(p, step), UNCHANGED <<users, disturbed>>
  PROVE  ImportInv'
<1>1. [task[p] EXCEPT !.step = step].step = step
  BY DEF AccountsInv, TasksShaped, Shaped
<1>2. Idle.step \notin Importing
  BY DEF Idle, Importing
<1> QED
  BY <1>1, <1>2, SameColumns, ImportsAside DEF Step

LEMMA PasswordKeepsColumns ==
  ASSUME AccountsInv, NEW i \in Rows, SetPassword(i) PROVE ColumnsKept
<1>1. users[i] \in UserRow /\ i \in Ids
  BY RowIsUser DEF AccountsInv
<1>2. \A j \in Ids : users'[j] = IF j = i THEN [users[i] EXCEPT !.pw = passwords + 1] ELSE users[j]
  BY DEF SetPassword, AccountsInv, Typed
<1>3. [users[i] EXCEPT !.pw = passwords + 1].code = users[i].code
      /\ [users[i] EXCEPT !.pw = passwords + 1].email = users[i].email
  BY <1>1 DEF UserRow
<1> QED
  BY <1>2, <1>3 DEF ColumnsKept, Rows

LEMMA AskImports ==
  ASSUME AccountsInv, ImportInv, NEW p \in Procs, NEW t, Ask(p, t), t.step \notin Importing
  PROVE  ImportInv'
<1>1. Goes(p, t) /\ UNCHANGED <<users, disturbed>>
  BY DEF Ask, noted
<1> QED
  BY <1>1, SameColumns, ImportsAside

LEMMA AsksImports == ASSUME AccountsInv, ImportInv, NEW p \in Procs, Asks(p) PROVE ImportInv'
<1> USE DEF Importing
<1>1. CASE AskLogin(p)
  <2>1. PICK i \in Rows : Ask(p, [step |-> "login", code |-> users[i].code, typed |-> users[i].pw])
    BY <1>1 DEF AskLogin
  <2> QED
    BY <2>1, AskImports
<1>2. CASE AskLogout(p) \/ AskRemove(p)
  BY <1>2, AskImports DEF AskLogout, AskRemove
<1>3. CASE AskChange(p)
  <2>1. PICK i \in Rows : Ask(p, [step |-> "change", id |-> i, typed |-> users[i].pw])
    BY <1>3 DEF AskChange
  <2> QED
    BY <2>1, AskImports
<1>4. CASE AskOtp(p)
  <2>1. PICK email : Ask(p, [step |-> "otp", email |-> email])
    BY <1>4 DEF AskOtp
  <2> QED
    BY <2>1, AskImports
<1>5. CASE AskVerify(p)
  <2>1. PICK m \in mailed :
          Ask(p, [step |-> "verify", email |-> users[m.user].email, otp |-> m.otp])
    BY <1>5 DEF AskVerify
  <2> QED
    BY <2>1, AskImports
<1>6. CASE AskReset(p) \/ AskCreate(p)
  BY <1>6, AskImports DEF AskReset, AskCreate
<1>7. CASE AskUpdate(p)
  <2>1. PICK code, patch : Ask(p, [step |-> "update_find", code |-> code, patch |-> patch])
    BY <1>7 DEF AskUpdate
  <2> QED
    BY <2>1, AskImports
<1>8. CASE AskImport(p)
  <2>1. PICK file \in Files : Ask(p, Idle) \/ Ask(p, [step |-> "import_find", file |-> file])
    BY <1>8 DEF AskImport
  <2> QED
    BY <2>1, AskImports DEF Idle
<1> QED
  BY <1>1, <1>2, <1>3, <1>4, <1>5, <1>6, <1>7, <1>8 DEF Asks

LEMMA SessionStepImports ==
  ASSUME AccountsInv, ImportInv, NEW p \in Procs, SessionStep(p) PROVE ImportInv'
<1> USE DEF Importing
<1>1. CASE LoginFind(p)
  <2>1. UNCHANGED <<users, disturbed>>
    BY <1>1 DEF LoginFind, noted
  <2>2. CASE Goes(p, Idle)
    BY <2>1, <2>2, SameColumns, ImportsAside DEF Idle
  <2>3. ASSUME NEW i, Goes(p, [step |-> "session", id |-> i, pw |-> users[i].pw])
        PROVE  ImportInv'
    BY <2>1, <2>3, SameColumns, ImportsAside
  <2> QED
    BY <1>1, <2>2, <2>3 DEF LoginFind
<1>2. CASE SetSession(p) \/ DropSession(p)
  BY <1>2, SameColumns, ImportsAside DEF SetSession, DropSession, Idle
<1>3. CASE ChangeFind(p)
  BY <1>3, StepImports DEF ChangeFind, noted
<1>4. CASE ChangeWrite(p)
  <2>1. ColumnsKept
    BY <1>4, SameColumns, PasswordKeepsColumns DEF ChangeWrite
  <2>2. Goes(p, Idle) \/ Goes(p, [step |-> "drop", id |-> task[p].id])
    BY <1>4 DEF ChangeWrite
  <2> QED
    BY <1>4, <2>1, <2>2, ImportsAside DEF ChangeWrite, noted, Idle
<1> QED
  BY <1>1, <1>2, <1>3, <1>4 DEF SessionStep

LEMMA OtpStepImports ==
  ASSUME AccountsInv, ImportInv, NEW p \in Procs, OtpStep(p) PROVE ImportInv'
<1> USE DEF Importing
<1>1. CASE OtpFind(p)
  <2>1. \/ Goes(p, Idle)
        \/ \E i : Goes(p, [step |-> "otp_rate", id |-> i])
    BY <1>1 DEF OtpFind
  <2> QED
    BY <1>1, <2>1, SameColumns, ImportsAside DEF OtpFind, noted, Idle
<1>2. CASE VerifyFind(p)
  <2>1. \/ Goes(p, Idle)
        \/ \E i : Goes(p, [step |-> "verify_get", id |-> i, otp |-> task[p].otp])
    BY <1>2 DEF VerifyFind
  <2> QED
    BY <1>2, <2>1, SameColumns, ImportsAside DEF VerifyFind, noted, Idle
<1>3. CASE OtpSet(p)
  BY <1>3, SameColumns, ImportsAside DEF OtpSet, noted
<1>4. CASE OtpMail(p) \/ VerifyToken(p)
  BY <1>4, SameColumns, ImportsAside DEF OtpMail, VerifyToken, noted, Idle
<1>5. CASE ResetDel(p)
  BY <1>5, SameColumns, ImportsAside DEF ResetDel, noted
<1>6. CASE OtpRate(p) \/ OtpLimit(p) \/ VerifyGet(p) \/ VerifyDel(p)
  BY <1>6, StepImports DEF OtpRate, OtpLimit, VerifyGet, VerifyDel, noted
<1>7. CASE ResetGet(p)
  BY <1>7, StepImports DEF ResetGet
<1>8. CASE ResetWrite(p)
  <2>1. ColumnsKept
    BY <1>8, SameColumns, PasswordKeepsColumns DEF ResetWrite
  <2>2. [task[p] EXCEPT !.step = "reset_del"].step = "reset_del"
    BY DEF AccountsInv, TasksShaped, Shaped
  <2>3. Goes(p, Idle) \/ Goes(p, [task[p] EXCEPT !.step = "reset_del"])
    BY <1>8 DEF ResetWrite, Step
  <2> QED
    BY <1>8, <2>1, <2>2, <2>3, ImportsAside DEF ResetWrite, Idle
<1> QED
  BY <1>1, <1>2, <1>3, <1>4, <1>5, <1>6, <1>7, <1>8 DEF OtpStep

(* The users found decide what is new. *)
LEMMA FoundImports == ASSUME AccountsInv, ImportInv, NEW p \in Procs, ImportFind(p) PROVE ImportInv'
<1> DEFINE kept == Kept(task[p].file)
           new  == {row \in kept : ByCode(row.code) \cup ByEmail(row.email) = {}}
           next == [step |-> "import_insert", file |-> task[p].file, rows |-> new,
                    duplicates |-> Len(task[p].file) - Cardinality(kept),
                    existing |-> Cardinality(kept \ new)]
<1>1. Goes(p, next) /\ UNCHANGED users /\ disturbed' = disturbed \ {p}
  BY DEF ImportFind
<1>2. task[p].file \in Files
  BY DEF ImportFind, At, AccountsInv, TasksShaped, Shaped
<1>3. ImportShaped(next) /\ Unclaimed(next.rows) /\ next.step = "import_insert"
  BY <1>2 DEF ImportShaped, Unclaimed
<1>4. ColumnsKept
  BY <1>1, SameColumns
<1> HIDE DEF next
<1>5. PICK t : t = next
  OBVIOUS
<1>6. Unclaimed(t.rows)'
  BY <1>3, <1>4, <1>5, UnclaimedStays
<1>7. \A q \in Procs : task'[q] = IF q = p THEN t ELSE task[q]
  BY <1>1, <1>5 DEF Goes, AccountsInv, Typed
<1>8. task[p]' = t
  BY <1>7
<1>9. ImportShaped(task[p])' /\ ImportExact(task[p])'
  BY <1>3, <1>5, <1>6, <1>8 DEF ImportShaped, ImportExact
<1>10. ASSUME NEW q \in Procs, q # p
       PROVE  ImportShaped(task[q])' /\ (q \notin disturbed' => ImportExact(task[q])')
  BY <1>1, <1>4, <1>7, <1>10, ImportsRest
<1> QED
  BY <1>9, <1>10, ImportInvHolds

(* What createMany leaves out was taken since. *)
LEMMA InsertedImports ==
  ASSUME AccountsInv, ImportInv, NEW p \in Procs, ImportInsert(p) PROVE ImportInv'
<1> DEFINE old  == task[p]
           kept == Kept(old.file)
           rows == {row \in old.rows : ~ Collides(NoRow, row)}
           t    == [step |-> "imported", file |-> old.file, inserted |-> Cardinality(rows),
                    duplicates |-> old.duplicates, existing |-> old.existing]
<1>1. Goes(p, t) /\ Disturbs({p}) /\ At(p, "import_insert")
  BY DEF ImportInsert
<1>2. disturbed \subseteq disturbed' /\ (p \notin disturbed' => p \notin disturbed)
  BY <1>1 DEF Disturbs
<1>3. /\ old.file \in Files /\ old.rows \subseteq kept
      /\ old.duplicates = Len(old.file) - Cardinality(kept)
      /\ old.existing = Cardinality(kept \ old.rows)
  BY <1>1 DEF ImportInv, ImportShaped, At
<1>4. Len(old.file) \in Nat
  BY <1>3, AccountsAssumption
<1>5. /\ Cardinality(kept) \in Nat /\ Cardinality(old.rows) \in Nat /\ Cardinality(rows) \in Nat
      /\ Cardinality(kept \ old.rows) = Cardinality(kept) - Cardinality(old.rows)
      /\ Cardinality(rows) <= Cardinality(old.rows)
  BY <1>3, KeptIsFinite, CountsOf
<1>6. t.inserted + t.duplicates + t.existing
        = Len(old.file) - Cardinality(old.rows) + Cardinality(rows)
  BY <1>3, <1>4, <1>5
<1>7. p \notin disturbed' => rows = old.rows
  BY <1>1, <1>2 DEF ImportInv, ImportExact, At, Unclaimed, Collides
<1>8. \A q \in Procs : task'[q] = IF q = p THEN t ELSE task[q]
  BY <1>1 DEF Goes, AccountsInv, Typed
<1>9. /\ t.step = "imported" /\ t.file = old.file
      /\ t.inserted + t.duplicates + t.existing <= Len(t.file)
      /\ p \notin disturbed' => t.inserted + t.duplicates + t.existing = Len(t.file)
  <2>1. t.step = "imported" /\ t.file = old.file
    OBVIOUS
  <2>2. p \notin disturbed' => Cardinality(rows) = Cardinality(old.rows)
    BY <1>7
  <2> HIDE DEF t, kept, rows
  <2> QED
    BY <1>4, <1>5, <1>6, <2>1, <2>2
<1> HIDE DEF t
<1>10. ImportShaped(task[p])' /\ (p \notin disturbed' => ImportExact(task[p])')
  BY <1>8, <1>9 DEF ImportShaped, ImportExact
<1>11. ASSUME NEW q \in Procs, q # p
       PROVE  ImportShaped(task[q])' /\ (q \notin disturbed' => ImportExact(task[q])')
  <2>1. At(q, "import_insert") => q \in disturbed'
    BY <1>1, <1>11 DEF Disturbs
  <2> QED
    BY <1>2, <1>8, <1>11, <2>1, ImportsRest
<1> QED
  BY <1>10, <1>11, ImportInvHolds

LEMMA UsersStepImports ==
  ASSUME AccountsInv, ImportInv, NEW p \in Procs, UsersStep(p) PROVE ImportInv'
<1>1. Idle.step \notin Importing
  BY DEF Idle, Importing
<1>2. CASE CreateUser(p) \/ UpdateUser(p) \/ RemoveUser(p)
  <2>1. Goes(p, Idle)
    BY <1>2 DEF CreateUser, UpdateUser, RemoveUser
  <2>2. UNCHANGED <<users, disturbed>> \/ Disturbs({p})
    BY <1>2 DEF CreateUser, UpdateUser, RemoveUser
  <2>3. disturbed \subseteq disturbed' /\ (ColumnsKept \/ Disturbs({p}))
    BY <2>2, SameColumns DEF Disturbs
  <2> QED
    BY <1>1, <2>1, <2>3, ImportsAside
<1>3. CASE FindUser(p)
  <2>1. PICK step : step \notin Importing /\ (Goes(p, Idle) \/ Step(p, step))
    BY <1>3 DEF FindUser, Importing
  <2> QED
    BY <1>3, <2>1, StepImports DEF FindUser, noted
<1>4. CASE ImportAnswered(p)
  BY <1>1, <1>4, SameColumns, ImportsAside DEF ImportAnswered, noted
<1> QED
  BY <1>2, <1>3, <1>4, FoundImports, InsertedImports DEF UsersStep

LEMMA FailsImports == ASSUME AccountsInv, ImportInv, NEW p \in Procs, Fails(p) PROVE ImportInv'
BY SameColumns, ImportsAside DEF Fails, Idle, Importing

(* The start of an instance, or the end of a TTL. *)
LEMMA OthersImports ==
  ASSUME ImportInv, UNCHANGED task, UNCHANGED <<users, disturbed>> \/ Disturbs({})
  PROVE  ImportInv'
<1>1. disturbed \subseteq disturbed'
  BY DEF Disturbs
<1>2. ASSUME NEW q \in Procs
      PROVE  ImportShaped(task[q])' /\ (q \notin disturbed' => ImportExact(task[q])')
  <2>1. ColumnsKept \/ (At(q, "import_insert") => q \in disturbed')
    BY SameColumns DEF Disturbs
  <2> QED
    BY <1>1, <2>1, ImportsRest
<1> QED
  BY <1>2, ImportInvHolds

LEMMA ImportInvariant == Spec => []ImportInv
<1>1. Init => ImportInv
  BY DEF Init, ImportInv, ImportShaped, ImportExact, Idle
<1>2. ASSUME AccountsInv, ImportInv, Next PROVE ImportInv'
  <2>1. ASSUME NEW p \in Procs,
               Asks(p) \/ SessionStep(p) \/ OtpStep(p) \/ UsersStep(p) \/ Fails(p)
        PROVE  ImportInv'
    BY <1>2, <2>1, AsksImports, SessionStepImports, OtpStepImports, UsersStepImports, FailsImports
  <2>2. ASSUME NEW n \in Instances, StartFind(n) \/ StartEmail(n) \/ StartCreate(n)
        PROVE  ImportInv'
    BY <1>2, <2>2, OthersImports DEF StartFind, StartEmail, StartCreate, noted
  <2>3. ASSUME NEW i \in Ids, Expire(i) PROVE ImportInv'
    BY <1>2, <2>3, OthersImports DEF Expire, noted
  <2> QED
    BY <1>2, <2>1, <2>2, <2>3 DEF Next
<1>3. ImportInv /\ UNCHANGED vars => ImportInv'
  BY OthersImports DEF vars, noted
<1> QED
  BY <1>1, <1>2, <1>3, AccountsInvariant, PTL DEF Spec

(* importUsers, for every file and any number of requests: what the answer *)
(* counts as inserted, duplicate and existing never exceeds the rows of    *)
(* the file, and accounts for each of them unless another request wrote    *)
(* users between the import's two statements.                              *)
THEOREM ImportsAddUp == Spec => []ImportAddsUp
<1>1. ImportInv => ImportAddsUp
  BY DEF ImportInv, ImportShaped, ImportExact, ImportAddsUp, At
<1> QED
  BY <1>1, ImportInvariant, PTL
=============================================================================
