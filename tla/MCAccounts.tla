----------------------------- MODULE MCAccounts -----------------------------
(***************************************************************************)
(* An instance of Accounts for TLC: one student, the default administrator *)
(* with the placeholder email, and files whose rows clash.                 *)
(***************************************************************************)
EXTENDS Accounts, TLC

NewPerson(code, email) == [code |-> code, email |-> email]
Line(code, email, valid) == [code |-> code, email |-> email, valid |-> valid]
MCCodes == {"admin", "c1", "c2"}
MCEmails == {"real", "placeholder", "e1", "e2"}
User(code, email) == [code |-> code, email |-> email, pw |-> 0, active |-> TRUE]
MCInitialUsers == {<<User("c1", "e1"), NoRow, NoRow>>,
                   <<User("c1", "e1"), User("admin", "placeholder"), NoRow>>}
MCNewUsers == {NewPerson("c2", "e2")}
MCUserPatches == {[pw |-> 0], [code |-> "c2", email |-> "real", active |-> FALSE]}
MCFiles ==
  {<<Line("c1", "e2", TRUE), Line("c2", "e2", TRUE), Line("c2", "real", TRUE)>>}
Symmetry == Permutations(Procs) \cup Permutations(Instances)
=============================================================================
