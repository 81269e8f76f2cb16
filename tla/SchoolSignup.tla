---------------------------- MODULE SchoolSignup ----------------------------
(***************************************************************************)
(* AuthService.createSchool: a transaction that creates a school and its   *)
(* administrator, with the onboarding key in Redis and the welcome mail.   *)
(* Its lookups do not use the transaction's connection but one more.       *)
(***************************************************************************)
EXTENDS Onboarding

CreateSchool(r) ==
    \E form \in SignupForm : Calls(r, "createSchool", form, "connect")

SignupConnect(r) == Connect(r, "connect", "find.school")

\* What the lookups can find: the committed schools and accounts.
Schools  == {call[s] : s \in {s \in Request : Opened(s)}}
Accounts == {call[s] : s \in {s \in Request : account[s] = "kept"}}

SchoolExists(college) == \E form \in Schools : form.college = college
UsernameExists(name)  == \E form \in Accounts : form.username = name
EmailExists(email)    == \E form \in Accounts : form.email = email

\* A lookup that must find nothing.
Lookup(r, from, found, to) ==
    /\ At(r, from)
    /\ FreeConnection
    /\ \/ ~found /\ Passes(r, from, to)
       \/ found /\ Throws(r)

FindSchool(r) ==
    Lookup(r, "find.school", SchoolExists(call[r].college), "find.role")

FindRole(r) == Passes(r, "find.role", "find.username")

\* The user name is looked up cleaned, and saved as typed.
FindUsername(r) ==
    Lookup(r, "find.username",
           UsernameExists(Cleaned[call[r].username]), "find.email")

FindEmail(r) ==
    Lookup(r, "find.email", EmailExists(call[r].email), "insert.school")

\* Mutant of InsertSchool: the college name has no unique index.
InsertSchoolAnyway(r) ==
    /\ At(r, "insert.school")
    /\ school' = [school EXCEPT ![r] = "pending"]
    /\ Goto(r, "insert.admin")
    /\ UNCHANGED <<call, account, role, granted, onboarding, mail, connections>>

\* An INSERT waits while another transaction holds the same unique value,
\* and fails once that one has committed.
InsertSchool(r) ==
    /\ At(r, "insert.school")
    /\ \A s \in Request \ {r} :
          school[s] # "none" => call[s].college # call[r].college
    /\ school' = [school EXCEPT ![r] = "pending"]
    /\ Goto(r, "insert.admin")
    /\ UNCHANGED <<call, account, role, granted, onboarding, mail, connections>>

SchoolConflict(r) ==
    /\ At(r, "insert.school")
    /\ SchoolExists(call[r].college)
    /\ Throws(r)

\* Mutant of InsertAdmin: the account is saved outside the transaction.
InsertAdminOutside(r) ==
    /\ At(r, "insert.admin")
    /\ \A s \in Request \ {r} :
          account[s] # "none" => call[s].email # call[r].email
    /\ account' = [account EXCEPT ![r] = "kept"]
    /\ Goto(r, "remember")
    /\ UNCHANGED <<call, school, role, granted, onboarding, mail, connections>>

InsertAdmin(r) ==
    /\ At(r, "insert.admin")
    /\ \A s \in Request \ {r} :
          account[s] # "none" => call[s].email # call[r].email
    /\ account' = [account EXCEPT ![r] = "pending"]
    /\ Goto(r, "remember")
    /\ UNCHANGED <<call, school, role, granted, onboarding, mail, connections>>

AdminConflict(r) ==
    /\ At(r, "insert.admin")
    /\ EmailExists(call[r].email)
    /\ Throws(r)

\* Mutant of Remember: the key is stored without awaiting it, and lost.
RememberUnawaited(r) ==
    /\ At(r, "remember")
    /\ outbox' = outbox \cup {<<"welcome", r>>}
    /\ Goto(r, "commit")
    /\ UNCHANGED <<call, rows, onboarding, inbox, connections>>

\* The onboarding key is stored; the welcome mail is sent but not awaited.
Remember(r) ==
    /\ At(r, "remember")
    /\ onboarding' = onboarding \cup {r}
    /\ outbox' = outbox \cup {<<"welcome", r>>}
    /\ Goto(r, "commit")
    /\ UNCHANGED <<call, rows, inbox, connections>>

CommitSchool(r) ==
    /\ At(r, "commit")
    /\ school' = [school EXCEPT ![r] = "in_progress"]
    /\ account' = [account EXCEPT ![r] = "kept"]
    /\ connections' = connections \ {r}
    /\ Goto(r, "done")
    /\ UNCHANGED <<call, role, granted, onboarding, mail>>

\* The mail service delivers a welcome mail.
Deliver(r) ==
    /\ <<"welcome", r>> \in outbox
    /\ outbox' = outbox \ {<<"welcome", r>>}
    /\ inbox' = inbox \cup {<<"welcome", r>>}
    /\ UNCHANGED <<pc, call, rows, onboarding, connections>>

SignupStep(r) ==
    \/ SignupConnect(r)
    \/ FindSchool(r)
    \/ FindRole(r)
    \/ FindUsername(r)
    \/ FindEmail(r)
    \/ InsertSchool(r)
    \/ SchoolConflict(r)
    \/ InsertAdmin(r)
    \/ AdminConflict(r)
    \/ Remember(r)
    \/ CommitSchool(r)
=============================================================================
