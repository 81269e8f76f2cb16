------------------------------ MODULE Accounts ------------------------------
(***************************************************************************)
(* The learners' accounts: BksdService.sendLearnerMail creates the users   *)
(* and students rows, mails the credentials and marks the learner 'Sent',  *)
(* each with a statement of its own and no transaction around them;        *)
(* AdminService.deleteUser removes an account, and the foreign key from    *)
(* students to users removes the students row with it.                     *)
(***************************************************************************)
EXTENDS Tables

EmailTaken(e) == \E u \in UserId : users[u] = e

\* The learner is found in the caller's school.
SendLearnerMail(r, l) ==
    /\ Call(r, "sendLearnerMail")
    /\ learner[l] # None
    /\ req' = [req EXCEPT ![r] = Holding("send.email", l, learner[l])]
    /\ UNCHANGED <<tables, locks, history>>

\* getUserByEmail finds an account: 'Email already exists'.
SendEmailExists(r) ==
    /\ At(r, "send.email")
    /\ EmailTaken(req[r].entity.email)
    /\ Return(r)
    /\ UNCHANGED <<tables, locks, history>>

SendEmailFree(r) ==
    /\ At(r, "send.email")
    /\ ~EmailTaken(req[r].entity.email)
    /\ Goto(r, "send.user")
    /\ UNCHANGED <<tables, locks, history>>

\* INSERT INTO users; e-mails are unique there.
SendCreateUser(r) ==
    /\ At(r, "send.user")
    /\ ~EmailTaken(req[r].entity.email)
    /\ \E u \in UserId \ issued :
          /\ users' = [users EXCEPT ![u] = req[r].entity.email]
          /\ issued' = issued \cup {u}
          /\ req' = [req EXCEPT ![r] =
                        [@ EXCEPT !.pc = "send.student", !.user = u]]
    /\ Reach(req[r].learner, "account")
    /\ UNCHANGED <<learner, student, submission, locks>>

\* The e-mail was taken since it was looked up: the INSERT throws.
SendUserConflict(r) ==
    /\ At(r, "send.user")
    /\ EmailTaken(req[r].entity.email)
    /\ Return(r)
    /\ UNCHANGED <<tables, locks, history>>

\* Mutants of StudentEntity: the row is looked up again before the copy is
\* made; a status is taken from the wrong column.
StudentEntityRefreshed(q) ==
    [ user |-> q.user,
      email |-> IF learner[q.learner] = None THEN q.entity.email
                                             ELSE learner[q.learner].email,
      application_status |-> q.entity.application_status ]

StudentEntityWrongColumn(q) ==
    [ user |-> q.user,
      email |-> q.entity.email,
      application_status |-> q.entity.application_mail ]

\* studentRepository.create({ user, ...learner, school }): the entity takes
\* the learner's id, e-mail and application status as they were loaded.
StudentEntity(q) ==
    [ user |-> q.user,
      email |-> q.entity.email,
      application_status |-> q.entity.application_status ]

\* The SELECT of save(student).
SendReloadStudent(r) ==
    /\ At(r, "send.student")
    /\ LET row == student[req[r].learner] IN
          req' = [req EXCEPT ![r] =
                    [@ EXCEPT
                       !.pc = "send.flush",
                       !.insert = (row = None),
                       !.dirty = IF row = None THEN {}
                                 ELSE Dirty(StudentEntity(req[r]), row)]]
    /\ UNCHANGED <<tables, locks, history>>

\* Mutant of SendInsertStudent: the learner is marked without a mail.
SendInsertStudentMailSkipped(r) ==
    /\ At(r, "send.flush")
    /\ req[r].insert
    /\ student[req[r].learner] = None
    /\ users[req[r].user] # None
    /\ student' = [student EXCEPT ![req[r].learner] = StudentEntity(req[r])]
    /\ Goto(r, "send.mark")
    /\ UNCHANGED <<learner, users, issued, submission, locks, history>>

\* INSERT INTO students: the id is new and the account still exists.
SendInsertStudent(r) ==
    /\ At(r, "send.flush")
    /\ req[r].insert
    /\ student[req[r].learner] = None
    /\ users[req[r].user] # None
    /\ student' = [student EXCEPT ![req[r].learner] = StudentEntity(req[r])]
    /\ Goto(r, "send.mail")
    /\ UNCHANGED <<learner, users, issued, submission, locks, history>>

\* UPDATE students; nothing happens when the row has gone meanwhile.
SendUpdateStudent(r) ==
    /\ At(r, "send.flush")
    /\ ~req[r].insert
    /\ LET l == req[r].learner IN
          /\ StudentWritable(l)
          /\ \/ /\ student[l] = None
                /\ UNCHANGED student
             \/ /\ student[l] # None
                /\ "user" \in req[r].dirty => users[req[r].user] # None
                /\ student' = [student EXCEPT ![l] =
                      WriteBack(@, StudentEntity(req[r]), req[r].dirty)]
    /\ Goto(r, "send.mail")
    /\ UNCHANGED <<learner, users, issued, submission, locks, history>>

\* Mutant of SendStudentConflict: the error is logged and the handler goes on.
SendStudentConflictIgnored(r) ==
    /\ At(r, "send.flush")
    /\ req[r].insert
    /\ student[req[r].learner] # None \/ users[req[r].user] = None
    /\ Goto(r, "send.mail")
    /\ UNCHANGED <<tables, locks, history>>

\* A duplicate id, or no users row for the foreign key: save() throws.
SendStudentConflict(r) ==
    /\ At(r, "send.flush")
    /\ LET l == req[r].learner IN
          \/ req[r].insert /\ student[l] # None
          \/ /\ users[req[r].user] = None
             /\ \/ req[r].insert
                \/ student[l] # None /\ "user" \in req[r].dirty
    /\ Return(r)
    /\ UNCHANGED <<tables, locks, history>>

\* The mail service has taken the credentials mail (else it throws: Fail).
SendMail(r) ==
    /\ At(r, "send.mail")
    /\ Goto(r, "send.mark")
    /\ Reach(req[r].learner, "mailed")
    /\ UNCHANGED <<tables, locks>>

\* learnerRepository.update(id, { application_mail: 'Sent' }): this column
\* only, and no error when the row has gone.
SendMark(r) ==
    /\ At(r, "send.mark")
    /\ LET l == req[r].learner IN
          \/ /\ learner[l] # None
             /\ Writable(l)
             /\ learner' = [learner EXCEPT ![l].application_mail = "Sent"]
             /\ Reach(l, "sent")
          \/ /\ learner[l] = None
             /\ UNCHANGED <<learner, history>>
    /\ Return(r)
    /\ UNCHANGED <<users, issued, student, submission, locks>>

\* One transaction: the users row, and by ON DELETE CASCADE its students row.
DeleteUser(r, u) ==
    /\ Call(r, "deleteUser")
    /\ users[u] # None
    /\ LET gone == {l \in Learner : student[l] # None /\ student[l].user = u} IN
          /\ \A l \in gone : StudentWritable(l)
          /\ student' = [l \in Learner |-> IF l \in gone THEN None ELSE student[l]]
          /\ past' = [l \in Learner |->
                        IF l \in gone THEN past[l] \cup {"removed"} ELSE past[l]]
    /\ users' = [users EXCEPT ![u] = None]
    /\ Return(r)
    /\ UNCHANGED <<learner, issued, submission, locks, turnedIn>>

SendStep(r) ==
    \/ SendEmailExists(r)
    \/ SendEmailFree(r)
    \/ SendCreateUser(r)
    \/ SendUserConflict(r)
    \/ SendReloadStudent(r)
    \/ SendInsertStudent(r)
    \/ SendUpdateStudent(r)
    \/ SendStudentConflict(r)
    \/ SendMail(r)
    \/ SendMark(r)

AccountCall(r) ==
    \/ \E l \in Learner : SendLearnerMail(r, l)
    \/ \E u \in UserId : DeleteUser(r, u)
=============================================================================
