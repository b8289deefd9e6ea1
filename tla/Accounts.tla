------------------------------ MODULE Accounts ------------------------------
(***************************************************************************)
(* Accounts: AuthService (login, logout, forgotten and changed passwords,  *)
(* the default administrator at start-up), the session check of            *)
(* JwtStrategy, and UsersService (create, update, remove, import).         *)
(*                                                                         *)
(* A process serves one request at a time and runs from one await to the   *)
(* next.  Passwords, OTPs and reset tokens are numbered as they are        *)
(* chosen: two never coincide.  Codes and emails stand for their trimmed,  *)
(* lower-cased form.  The window of students (RegistrationWindows) may     *)
(* refuse any request here.                                                *)
(***************************************************************************)
EXTENDS Integers, FiniteSets, SequencesExt

CONSTANTS
  Procs,            \* requests in progress, in any API instance
  Instances,        \* API instances that start
  Ids,              \* primary keys of users; none is used twice
  Codes, Emails,
  AdminCode,        \* DEFAULT_ADMIN_CODE
  AdminEmail,       \* getDefaultAdminEmail()
  Placeholder,      \* PLACEHOLDER_ADMIN_EMAIL
  NewUsers,         \* the accounts administrators create: [code, email]
  UserPatches,      \* the partial updates they send
  Files,            \* the files they import: sequences of [code, email, valid]
  InitialUsers,     \* the tables to start from: with a default administrator or not
  NoRow, Gone,      \* a key not used yet, a deleted row
  Missing,          \* no value under a Redis key
  MaxRequests,      \* bound: requests and starts
  MaxFaults         \* bound: calls to Redis and mails that fail

Person  == [code : Codes, email : Emails]
CsvRow  == [code : Codes, email : Emails, valid : BOOLEAN]
UserRow == [code : Codes, email : Emails, pw : Nat, active : BOOLEAN]

ASSUME AccountsAssumption ==
  /\ AdminCode \in Codes /\ {AdminEmail, Placeholder} \subseteq Emails
  /\ NoRow # Gone /\ NoRow \notin UserRow /\ Gone \notin UserRow /\ Missing \notin Nat
  /\ NewUsers \subseteq Person
  /\ \A patch \in UserPatches :
       /\ "code" \in DOMAIN patch => patch.code \in Codes
       /\ "email" \in DOMAIN patch => patch.email \in Emails
       /\ "pw" \in DOMAIN patch => patch.pw \in Nat
       /\ "active" \in DOMAIN patch => patch.active \in BOOLEAN
  /\ Files \subseteq Seq(CsvRow)
  /\ InitialUsers \subseteq [Ids -> UserRow \cup {NoRow, Gone}]

VARIABLES
  users,       \* users[i]: the row i, or NoRow, or Gone
  session,     \* auth:session:i: the password its login was checked with
  otp,         \* otp:i: the OTP stored for user i
  rate,        \* otp:ratelimit:i is set
  resetKey,    \* otp:reset: the tokens stored
  tokens,      \* tokens[n]: the user and OTP that token n was issued for
  mailed,      \* the OTPs that reached their user
  task,        \* task[p]: the request p serves and where it stands
  instance,    \* instance[n]: where the start of instance n stands
  passwords, otps,   \* how many were chosen so far
  resets,      \* resets[o]: the passwords set on the strength of OTP o
  overlapped,  \* OTPs used by two requests at once, or whose DEL failed
  unclosed,    \* users whose session outlived a password for a known reason
  adminGone,   \* the default admin was renamed, removed or never possible
  disturbed,   \* imports during which another request wrote users
  requests, faults

redisVars == <<session, otp, rate, resetKey, mailed>>
noted     == <<resets, overlapped, unclosed, adminGone, disturbed>>
counts    == <<requests, faults>>
vars == <<users, redisVars, tokens, task, instance, passwords, otps, noted, counts>>

Idle == [step |-> "idle"]
Goes(p, t) == task' = [task EXCEPT ![p] = t]
Step(p, step) == Goes(p, [task[p] EXCEPT !.step = step])
At(p, step) == task[p].step = step

Rows == {i \in Ids : users[i] \notin {NoRow, Gone}}
ByCode(code) == {i \in Rows : users[i].code = code}
ByEmail(email) == {i \in Rows : users[i].email = email}
(* Both columns are unique: a write that collides is Prisma's P2002. *)
Collides(i, row) == (ByCode(row.code) \cup ByEmail(row.email)) \ {i} # {}

Ask(p, request) ==
  /\ At(p, "idle") /\ requests < MaxRequests
  /\ requests' = requests + 1
  /\ Goes(p, request)
  /\ UNCHANGED <<users, redisVars, tokens, instance, passwords, otps, noted, faults>>

(* A row is written while imports are between their two statements. *)
Disturbs(writers) ==
  disturbed' = disturbed \cup {p \in Procs \ writers : At(p, "import_insert")}

----------------------------------------------------------------------------
(* Sessions.                                                               *)

\* An unknown account or a wrong password is refused without effect: the
\* requests below are right when they are sent, and may be wrong by the time
\* they are checked.
KnownCodes == {users[i].code : i \in Rows}
KnownEmails == {users[i].email : i \in Rows}

(* JwtStrategy.validate: the token's session is the stored one. *)
Authenticated(i) == session[i] # Missing

AskLogin(p) ==
  \E i \in Rows :
    Ask(p, [step |-> "login", code |-> users[i].code, typed |-> users[i].pw])

(* login up to the gate of students, which may refuse. *)
LoginFind(p) ==
  /\ At(p, "login")
  /\ \/ Goes(p, Idle)
     \/ \E i \in ByCode(task[p].code) :
          /\ users[i].active /\ users[i].pw = task[p].typed
          /\ Goes(p, [step |-> "session", id |-> i, pw |-> users[i].pw])
  /\ UNCHANGED <<users, redisVars, tokens, instance, passwords, otps, noted, counts>>

(* SET auth:session.  A login that was checked before the password changed *)
(* and stored after is noted.                                              *)
SetSession(p) ==
  /\ At(p, "session")
  /\ LET i == task[p].id
     IN  /\ session' = [session EXCEPT ![i] = task[p].pw]
         /\ unclosed' = IF i \in Rows /\ users[i].pw # task[p].pw
                        THEN unclosed \cup {i} ELSE unclosed \ {i}
  /\ Goes(p, Idle)
  /\ UNCHANGED <<users, otp, rate, resetKey, mailed, tokens, instance, passwords,
                 otps, resets, overlapped, adminGone, disturbed, counts>>

AskLogout(p) ==
  \E i \in Ids : Authenticated(i) /\ Ask(p, [step |-> "drop", id |-> i])

(* DEL auth:session, the end of logout, reset and changePassword. *)
DropSession(p) ==
  /\ At(p, "drop")
  /\ session' = [session EXCEPT ![task[p].id] = Missing]
  /\ unclosed' = unclosed \ {task[p].id}
  /\ Goes(p, Idle)
  /\ UNCHANGED <<users, otp, rate, resetKey, mailed, tokens, instance, passwords,
                 otps, resets, overlapped, adminGone, disturbed, counts>>

(* prisma.user.update({ password }) *)
SetPassword(i) ==
  /\ passwords' = passwords + 1
  /\ users' = [users EXCEPT ![i].pw = passwords + 1]

(* changePassword of the user who is logged in *)
AskChange(p) ==
  \E i \in Rows :
    Authenticated(i) /\ Ask(p, [step |-> "change", id |-> i, typed |-> users[i].pw])

ChangeFind(p) ==
  /\ At(p, "change")
  /\ IF task[p].id \in Rows /\ users[task[p].id].pw = task[p].typed
     THEN Step(p, "change_write") ELSE Goes(p, Idle)
  /\ UNCHANGED <<users, redisVars, tokens, instance, passwords, otps, noted, counts>>

\* Mutant: the session outlives the change.
ChangeKeepsSession(p) ==
  /\ At(p, "change_write") /\ task[p].id \in Rows
  /\ SetPassword(task[p].id) /\ Goes(p, Idle)
  /\ UNCHANGED <<redisVars, tokens, instance, otps, noted, counts>>

ChangeWrite(p) ==
  /\ At(p, "change_write")
  /\ IF task[p].id \in Rows
     THEN SetPassword(task[p].id) /\ Goes(p, [step |-> "drop", id |-> task[p].id])
     ELSE Goes(p, Idle) /\ UNCHANGED <<users, passwords>>
  /\ UNCHANGED <<redisVars, tokens, instance, otps, noted, counts>>

SessionStep(p) ==
  LoginFind(p) \/ SetSession(p) \/ DropSession(p) \/ ChangeFind(p) \/ ChangeWrite(p)

----------------------------------------------------------------------------
(* Forgotten passwords.                                                    *)

AskOtp(p) == \E email \in KnownEmails : Ask(p, [step |-> "otp", email |-> email])

OtpFind(p) ==
  /\ At(p, "otp")
  /\ LET found == {i \in ByEmail(task[p].email) : users[i].active}
     IN  IF found = {} THEN Goes(p, Idle)
         ELSE \E i \in found : Goes(p, [step |-> "otp_rate", id |-> i])
  /\ UNCHANGED <<users, redisVars, tokens, instance, passwords, otps, noted, counts>>

(* EXISTS otp:ratelimit *)
OtpRate(p) ==
  /\ At(p, "otp_rate")
  /\ IF task[p].id \in rate THEN Goes(p, Idle) ELSE Step(p, "otp_set")
  /\ UNCHANGED <<users, redisVars, tokens, instance, passwords, otps, noted, counts>>

OtpSet(p) ==
  /\ At(p, "otp_set")
  /\ otps' = otps + 1
  /\ otp' = [otp EXCEPT ![task[p].id] = otps + 1]
  /\ Goes(p, [step |-> "otp_limit", id |-> task[p].id, otp |-> otps + 1])
  /\ UNCHANGED <<users, session, rate, resetKey, mailed, tokens, instance, passwords,
                 noted, counts>>

OtpLimit(p) ==
  /\ At(p, "otp_limit")
  /\ rate' = rate \cup {task[p].id}
  /\ Step(p, "otp_mail")
  /\ UNCHANGED <<users, session, otp, resetKey, mailed, tokens, instance, passwords,
                 otps, noted, counts>>

(* sendOtpMail *)
OtpMail(p) ==
  /\ At(p, "otp_mail")
  /\ mailed' = mailed \cup {[user |-> task[p].id, otp |-> task[p].otp]}
  /\ Goes(p, Idle)
  /\ UNCHANGED <<users, session, otp, rate, resetKey, tokens, instance, passwords,
                 otps, noted, counts>>

(* A user enters an OTP from a mail. *)
AskVerify(p) ==
  \E m \in mailed :
    /\ m.user \in Rows
    /\ Ask(p, [step |-> "verify", email |-> users[m.user].email, otp |-> m.otp])

(* findUnique, then GET of the stored OTP *)
VerifyFind(p) ==
  /\ At(p, "verify")
  /\ LET found == {i \in ByEmail(task[p].email) : users[i].active}
     IN  IF found = {} THEN Goes(p, Idle)
         ELSE \E i \in found :
                Goes(p, [step |-> "verify_get", id |-> i, otp |-> task[p].otp])
  /\ UNCHANGED <<users, redisVars, tokens, instance, passwords, otps, noted, counts>>

(* Two requests at once between the GET of a value and its DEL. *)
Uses(p, o) ==
  \/ At(p, "verify_del") /\ task[p].otp = o
  \/ task[p].step \in {"reset_write", "reset_del"} /\ tokens[task[p].token].otp = o
NoteUse(p, o) ==
  overlapped' = IF \E q \in Procs \ {p} : Uses(q, o) THEN overlapped \cup {o}
                ELSE overlapped

VerifyGet(p) ==
  /\ At(p, "verify_get")
  /\ IF otp[task[p].id] = task[p].otp
     THEN Step(p, "verify_del") /\ NoteUse(p, task[p].otp)
     ELSE Goes(p, Idle) /\ UNCHANGED overlapped
  /\ UNCHANGED <<users, redisVars, tokens, instance, passwords, otps, resets, unclosed,
                 adminGone, disturbed, counts>>

(* DEL of the user's OTP, by now perhaps a newer one *)
VerifyDel(p) ==
  /\ At(p, "verify_del")
  /\ otp' = [otp EXCEPT ![task[p].id] = Missing]
  /\ Step(p, "verify_token")
  /\ UNCHANGED <<users, session, rate, resetKey, mailed, tokens, instance, passwords,
                 otps, noted, counts>>

VerifyToken(p) ==
  /\ At(p, "verify_token")
  /\ tokens' = Append(tokens, [user |-> task[p].id, otp |-> task[p].otp])
  /\ resetKey' = resetKey \cup {Len(tokens) + 1}
  /\ Goes(p, Idle)
  /\ UNCHANGED <<users, session, otp, rate, mailed, instance, passwords, otps, noted,
                 counts>>

AskReset(p) == \E n \in DOMAIN tokens : Ask(p, [step |-> "reset", token |-> n])

ResetGet(p) ==
  /\ At(p, "reset")
  /\ IF task[p].token \in resetKey
     THEN Step(p, "reset_write") /\ NoteUse(p, tokens[task[p].token].otp)
     ELSE Goes(p, Idle) /\ UNCHANGED overlapped
  /\ UNCHANGED <<users, redisVars, tokens, instance, passwords, otps, resets, unclosed,
                 adminGone, disturbed, counts>>

(* An account removed meanwhile is P2025: the token stays. *)
ResetWrite(p) ==
  /\ At(p, "reset_write")
  /\ LET t == tokens[task[p].token]
     IN  IF t.user \in Rows
         THEN /\ SetPassword(t.user)
              /\ resets' = [resets EXCEPT ![t.otp] = @ + 1]
              /\ Step(p, "reset_del")
         ELSE Goes(p, Idle) /\ UNCHANGED <<users, passwords, resets>>
  /\ UNCHANGED <<redisVars, tokens, instance, otps, overlapped, unclosed, adminGone,
                 disturbed, counts>>

\* Mutant: the token is left to its TTL.
ResetKeepsToken(p) ==
  /\ At(p, "reset_del")
  /\ Goes(p, [step |-> "drop", id |-> tokens[task[p].token].user])
  /\ UNCHANGED <<users, redisVars, tokens, instance, passwords, otps, noted, counts>>

ResetDel(p) ==
  /\ At(p, "reset_del")
  /\ resetKey' = resetKey \ {task[p].token}
  /\ Goes(p, [step |-> "drop", id |-> tokens[task[p].token].user])
  /\ UNCHANGED <<users, session, otp, rate, mailed, tokens, instance, passwords, otps,
                 noted, counts>>

OtpStep(p) ==
  \/ OtpFind(p) \/ OtpRate(p) \/ OtpSet(p) \/ OtpLimit(p) \/ OtpMail(p)
  \/ VerifyFind(p) \/ VerifyGet(p) \/ VerifyDel(p) \/ VerifyToken(p)
  \/ ResetGet(p) \/ ResetWrite(p) \/ ResetDel(p)

(* Redis or the mail server fails and the request with it.  What was done  *)
(* so far stays: a password without the end of its session, an OTP or a    *)
(* token that is not deleted.                                              *)
Fails(p) ==
  /\ faults < MaxFaults
  /\ task[p].step \in {"session", "drop", "otp_rate", "otp_set", "otp_limit", "otp_mail",
                       "verify_get", "verify_del", "verify_token", "reset", "reset_del"}
  /\ faults' = faults + 1
  /\ overlapped' = IF At(p, "verify_del") THEN overlapped \cup {task[p].otp}
                   ELSE IF At(p, "reset_del")
                        THEN overlapped \cup {tokens[task[p].token].otp} ELSE overlapped
  /\ unclosed' = IF At(p, "drop") THEN unclosed \cup {task[p].id}
                 ELSE IF At(p, "reset_del")
                      THEN unclosed \cup {tokens[task[p].token].user} ELSE unclosed
  /\ Goes(p, Idle)
  /\ UNCHANGED <<users, redisVars, tokens, instance, passwords, otps, resets, adminGone,
                 disturbed, requests>>

----------------------------------------------------------------------------
(* The users an administrator keeps.                                       *)

Patched(row, patch) ==
  [f \in DOMAIN row |-> IF f \in DOMAIN patch THEN patch[f] ELSE row[f]]

AskCreate(p) == \E row \in NewUsers : Ask(p, [step |-> "create", row |-> row])
AskUpdate(p) ==
  \E code \in KnownCodes, patch \in UserPatches :
    Ask(p, [step |-> "update_find", code |-> code, patch |-> patch])
AskRemove(p) == \E code \in KnownCodes : Ask(p, [step |-> "remove_find", code |-> code])

(* toUserCreateInput: active unless said otherwise, a password of its own. *)
NewRow(row, pw) == [code |-> row.code, email |-> row.email, pw |-> pw, active |-> TRUE]

CreateUser(p) ==
  /\ At(p, "create")
  /\ IF Collides(NoRow, task[p].row)
     THEN UNCHANGED <<users, passwords, disturbed>>
     ELSE /\ \E i \in Ids :
               /\ users[i] = NoRow
               /\ users' = [users EXCEPT ![i] = NewRow(task[p].row, passwords + 1)]
          /\ passwords' = passwords + 1
          /\ Disturbs({p})
  /\ Goes(p, Idle)
  /\ UNCHANGED <<redisVars, tokens, instance, otps, resets, overlapped, unclosed, adminGone,
                 counts>>

(* ensureUserExists *)
FindUser(p) ==
  /\ task[p].step \in {"update_find", "remove_find"}
  /\ IF ByCode(task[p].code) = {} THEN Goes(p, Idle)
     ELSE Step(p, IF At(p, "update_find") THEN "update" ELSE "remove")
  /\ UNCHANGED <<users, redisVars, tokens, instance, passwords, otps, noted, counts>>

(* Only the columns the request has.  Sessions are left alone, also when   *)
(* the password changes.                                                   *)
UpdateUser(p) ==
  /\ At(p, "update")
  /\ LET rows == {i \in ByCode(task[p].code) :
                    ~ Collides(i, Patched(users[i], task[p].patch))}
         sets == "pw" \in DOMAIN task[p].patch
     IN  IF rows = {}
         THEN UNCHANGED <<users, passwords, unclosed, adminGone, disturbed>>
         ELSE \E i \in rows :
                LET new == Patched(users[i], task[p].patch)
                IN  /\ users' = [users EXCEPT ![i] =
                                   IF sets THEN [new EXCEPT !.pw = passwords + 1] ELSE new]
                    /\ passwords' = IF sets THEN passwords + 1 ELSE passwords
                    /\ unclosed' = IF sets THEN unclosed \cup {i} ELSE unclosed
                    /\ adminGone' = (adminGone \/ (task[p].code = AdminCode /\ new.code # AdminCode))
                    /\ Disturbs({p})
  /\ Goes(p, Idle)
  /\ UNCHANGED <<redisVars, tokens, instance, otps, resets, overlapped, counts>>

(* An account that grades or batches refer to is kept (P2003). *)
RemoveUser(p) ==
  /\ At(p, "remove")
  /\ \/ UNCHANGED <<users, adminGone, disturbed>>
     \/ \E i \in ByCode(task[p].code) :
          /\ users' = [users EXCEPT ![i] = Gone]
          /\ adminGone' = (adminGone \/ task[p].code = AdminCode)
          /\ Disturbs({p})
  /\ Goes(p, Idle)
  /\ UNCHANGED <<redisVars, tokens, instance, passwords, otps, resets, overlapped, unclosed,
                 counts>>

(* importUsers.  A row that repeats a code or an email of a row kept so    *)
(* far is skipped.                                                         *)
Clash(a, b) == a.code = b.code \/ a.email = b.email
Kept(file) ==
  Range(file) \cap
  Range(FoldLeft(LAMBDA kept, row : IF \E k \in Range(kept) : Clash(k, row) THEN kept
                                    ELSE Append(kept, row), << >>, file))

(* One invalid row refuses the file before the database is asked. *)
AskImport(p) ==
  \E file \in Files :
    Ask(p, IF \E row \in Range(file) : ~ row.valid THEN Idle
           ELSE [step |-> "import_find", file |-> file])

\* Mutant: existing users are found by their code only.
ImportFindByCode(p) ==
  /\ At(p, "import_find")
  /\ LET kept == Kept(task[p].file)
         new  == {row \in kept : ByCode(row.code) = {}}
     IN  Goes(p, [step |-> "import_insert", file |-> task[p].file, rows |-> new,
                  duplicates |-> Len(task[p].file) - Cardinality(kept),
                  existing |-> Cardinality(kept \ new)])
  /\ disturbed' = disturbed \ {p}
  /\ UNCHANGED <<users, redisVars, tokens, instance, passwords, otps, resets, overlapped,
                 unclosed, adminGone, counts>>

(* findExistingUsers *)
ImportFind(p) ==
  /\ At(p, "import_find")
  /\ LET kept == Kept(task[p].file)
         new  == {row \in kept : ByCode(row.code) \cup ByEmail(row.email) = {}}
     IN  Goes(p, [step |-> "import_insert", file |-> task[p].file, rows |-> new,
                  duplicates |-> Len(task[p].file) - Cardinality(kept),
                  existing |-> Cardinality(kept \ new)])
  /\ disturbed' = disturbed \ {p}
  /\ UNCHANGED <<users, redisVars, tokens, instance, passwords, otps, resets, overlapped,
                 unclosed, adminGone, counts>>

(* createMany with skipDuplicates: rows that collide by now are left out.  *)
ImportInsert(p) ==
  /\ At(p, "import_insert")
  /\ LET rows == {row \in task[p].rows : ~ Collides(NoRow, row)}
     IN  /\ \E place \in [rows -> {i \in Ids : users[i] = NoRow}] :
              /\ \A r, s \in rows : place[r] = place[s] => r = s
              /\ users' = [i \in Ids |->
                   IF \E r \in rows : place[r] = i
                   THEN NewRow(CHOOSE r \in rows : place[r] = i, passwords + 1) ELSE users[i]]
         /\ passwords' = passwords + 1
         /\ Goes(p, [step |-> "imported", file |-> task[p].file,
                     inserted |-> Cardinality(rows), duplicates |-> task[p].duplicates,
                     existing |-> task[p].existing])
  /\ Disturbs({p})
  /\ UNCHANGED <<redisVars, tokens, instance, otps, resets, overlapped, unclosed, adminGone,
                 counts>>

ImportAnswered(p) ==
  /\ At(p, "imported")
  /\ Goes(p, Idle)
  /\ UNCHANGED <<users, redisVars, tokens, instance, passwords, otps, noted, counts>>

UsersStep(p) ==
  \/ CreateUser(p) \/ FindUser(p) \/ UpdateUser(p) \/ RemoveUser(p)
  \/ ImportFind(p) \/ ImportInsert(p) \/ ImportAnswered(p)

----------------------------------------------------------------------------
(* onModuleInit: ensureDefaultAdmin, on every instance.                    *)

(* An instance starts, or starts again. *)
StartFind(n) ==
  /\ instance[n] \in {"down", "up"} /\ requests < MaxRequests
  /\ requests' = requests + 1
  /\ instance' = [instance EXCEPT ![n] =
       IF ByCode(AdminCode) = {} THEN "create"
       ELSE IF \E i \in ByCode(AdminCode) :
                 users[i].email = Placeholder /\ AdminEmail # Placeholder
            THEN "email" ELSE "up"]
  /\ UNCHANGED <<users, redisVars, tokens, task, passwords, otps, noted, faults>>

Up(n) == instance' = [instance EXCEPT ![n] = "up"]
Failed(n) == instance' = [instance EXCEPT ![n] = "failed"]

(* The placeholder email gives way to a real one; P2002 leaves it. *)
StartEmail(n) ==
  /\ instance[n] = "email"
  /\ \/ /\ \E i \in ByCode(AdminCode) :
             /\ ~ Collides(i, [users[i] EXCEPT !.email = AdminEmail])
             /\ users' = [users EXCEPT ![i].email = AdminEmail]
        /\ Up(n)
        /\ Disturbs({})
     \/ /\ \A i \in ByCode(AdminCode) : Collides(i, [users[i] EXCEPT !.email = AdminEmail])
        /\ UNCHANGED <<users, disturbed>>
        /\ IF ByCode(AdminCode) = {} THEN Failed(n) ELSE Up(n)
  /\ UNCHANGED <<redisVars, tokens, task, passwords, otps, resets, overlapped, unclosed, adminGone,
                 counts>>

\* Mutant: P2002 is thrown, as any other error of the create.
StartCreateThrows(n) ==
  /\ instance[n] = "create"
  /\ LET row == [code |-> AdminCode, email |-> AdminEmail]
     IN  IF Collides(NoRow, row)
         THEN Failed(n) /\ UNCHANGED <<users, passwords, disturbed>>
         ELSE /\ \E i \in Ids :
                   /\ users[i] = NoRow
                   /\ users' = [users EXCEPT ![i] = NewRow(row, passwords + 1)]
              /\ passwords' = passwords + 1
              /\ Disturbs({})
              /\ Up(n)
  /\ UNCHANGED <<redisVars, tokens, task, otps, resets, overlapped, unclosed, adminGone,
                 counts>>

(* P2002 is taken for the work of another instance; noted when it is only  *)
(* the email that another account has.                                     *)
StartCreate(n) ==
  /\ instance[n] = "create"
  /\ LET row == [code |-> AdminCode, email |-> AdminEmail]
     IN  IF Collides(NoRow, row)
         THEN /\ adminGone' = (adminGone \/ ByCode(AdminCode) = {})
              /\ UNCHANGED <<users, passwords, disturbed>>
         ELSE /\ \E i \in Ids :
                   /\ users[i] = NoRow
                   /\ users' = [users EXCEPT ![i] = NewRow(row, passwords + 1)]
              /\ passwords' = passwords + 1
              /\ Disturbs({})
              /\ UNCHANGED adminGone
  /\ Up(n)
  /\ UNCHANGED <<redisVars, tokens, task, otps, resets, overlapped, unclosed, counts>>

(* The TTLs of Redis. *)
Expire(i) ==
  /\ \/ /\ session[i] # Missing
        /\ session' = [session EXCEPT ![i] = Missing]
        /\ UNCHANGED <<otp, rate, resetKey>>
     \/ /\ otp[i] # Missing
        /\ otp' = [otp EXCEPT ![i] = Missing]
        /\ UNCHANGED <<session, rate, resetKey>>
     \/ /\ i \in rate
        /\ rate' = rate \ {i}
        /\ UNCHANGED <<session, otp, resetKey>>
     \/ \E n \in resetKey :
          /\ tokens[n].user = i
          /\ resetKey' = resetKey \ {n}
          /\ UNCHANGED <<session, otp, rate>>
  /\ UNCHANGED <<users, mailed, tokens, task, instance, passwords, otps, noted, counts>>

----------------------------------------------------------------------------
Init ==
  /\ users \in InitialUsers
  /\ session = [i \in Ids |-> Missing] /\ otp = [i \in Ids |-> Missing]
  /\ rate = {} /\ resetKey = {} /\ tokens = << >> /\ mailed = {}
  /\ task = [p \in Procs |-> Idle]
  /\ instance = [n \in Instances |-> "down"]
  /\ passwords = 0 /\ otps = 0
  /\ resets = [o \in 1 .. MaxRequests |-> 0]
  /\ overlapped = {} /\ unclosed = {} /\ adminGone = FALSE /\ disturbed = {}
  /\ requests = 0 /\ faults = 0

Asks(p) ==
  \/ AskLogin(p) \/ AskLogout(p) \/ AskChange(p) \/ AskOtp(p) \/ AskVerify(p)
  \/ AskReset(p) \/ AskCreate(p) \/ AskUpdate(p) \/ AskRemove(p) \/ AskImport(p)

Next ==
  \/ \E p \in Procs : Asks(p) \/ SessionStep(p) \/ OtpStep(p) \/ UsersStep(p) \/ Fails(p)
  \/ \E n \in Instances : StartFind(n) \/ StartEmail(n) \/ StartCreate(n)
  \/ \E i \in Ids : Expire(i)

Spec == Init /\ [][Next]_vars

----------------------------------------------------------------------------
(* "To force a new login": once a password was changed or reset, no        *)
(* session of the old one is left.  Known exceptions: a login that was     *)
(* already past its password check, an administrator's update, and a DEL   *)
(* that Redis refused.                                                     *)
Closing(i) ==
  \E p \in Procs : \/ At(p, "drop") /\ task[p].id = i
                   \/ At(p, "reset_del") /\ tokens[task[p].token].user = i
SessionsFollowPasswords ==
  \A i \in Rows \ unclosed :
    session[i] # Missing /\ ~ Closing(i) => session[i] = users[i].pw

(* "Used once": one OTP leads to one new password at most, through its     *)
(* verification and the reset token, unless two requests used the same one *)
(* at once or Redis refused to delete it.                                  *)
OneResetPerOtp == \A o \in DOMAIN resets : resets[o] <= 1 \/ o \in overlapped

(* An import answers with counts that add up to the file: what it did not  *)
(* insert was a duplicate or existed.  Writes between its two statements   *)
(* can only make it fall short.                                            *)
ImportAddsUp ==
  \A p \in Procs : At(p, "imported") =>
    LET sum == task[p].inserted + task[p].duplicates + task[p].existing
    IN  /\ sum <= Len(task[p].file)
        /\ p \notin disturbed => sum = Len(task[p].file)

(* Every start of an instance succeeds, whoever starts at the same time,   *)
(* and leaves a default administrator, unless an administrator renamed or  *)
(* removed it or its email belongs to another account.                     *)
InstancesStart ==
  \A n \in Instances :
    /\ instance[n] = "failed" => adminGone
    /\ instance[n] = "up" /\ ~ adminGone => ByCode(AdminCode) # {}
=============================================================================
