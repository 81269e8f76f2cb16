------------------------------ MODULE Pipeline ------------------------------
(***************************************************************************)
(* The learner pipeline: the accessor's decisions (AccessorService), which *)
(* write the learner, the student and the submissions in one transaction,  *)
(* and the composition of all the handlers over the shared tables.         *)
(***************************************************************************)
EXTENDS Accounts, LearnerRecord, Forms

\* Mutant of Decide: the lookup does not ask for application_mail 'Sent'.
DecideUnsent(r, l, verdict) ==
    /\ learner[l] # None
    /\ req' = [req EXCEPT ![r] = [Holding("decide.student", l, learner[l])
                                        EXCEPT !.verdict = verdict]]
    /\ UNCHANGED <<tables, locks, history>>

\* approveApplication and rejectApplication begin alike: a learner whose
\* application_mail is 'Sent'.  No status of the application is required.
Decide(r, l, verdict) ==
    /\ learner[l] # None
    /\ learner[l].application_mail = "Sent"
    /\ req' = [req EXCEPT ![r] = [Holding("decide.student", l, learner[l])
                                        EXCEPT !.verdict = verdict]]
    /\ UNCHANGED <<tables, locks, history>>

ApproveApplication(r, l) ==
    Call(r, "approveApplication") /\ Decide(r, l, "Approved")

RejectApplication(r, l) ==
    Call(r, "rejectApplication") /\ Decide(r, l, "Rejected")

\* Mutant of DecideFindStudent: the lookup has no e-mail condition.
DecideFindAnyStudent(r) ==
    /\ At(r, "decide.student")
    /\ \E s \in Learner :
          /\ student[s] # None
          /\ req' = [req EXCEPT ![r] =
                        [@ EXCEPT !.pc = "decide.begin", !.peer = s]]
    /\ UNCHANGED <<tables, locks, history>>

\* The students row is found by the learner's e-mail.
DecideFindStudent(r) ==
    /\ At(r, "decide.student")
    /\ \E s \in Learner :
          /\ student[s] # None
          /\ student[s].email = req[r].entity.email
          /\ req' = [req EXCEPT ![r] =
                        [@ EXCEPT !.pc = "decide.begin", !.peer = s]]
    /\ UNCHANGED <<tables, locks, history>>

\* 'Student record not found'
DecideNoStudent(r) ==
    /\ At(r, "decide.student")
    /\ \A s \in Learner :
          student[s] # None => student[s].email # req[r].entity.email
    /\ Return(r)
    /\ UNCHANGED <<tables, locks, history>>

\* What the transaction does to a submission it has found submitted.
Decided(row, verdict) ==
    IF verdict = "Approved"
      THEN [row EXCEPT !.is_submitted = TRUE]
      ELSE [row EXCEPT !.is_submitted = FALSE, !.status = "rejected"]

\* BEGIN; UPDATE prospective_students; UPDATE students; SELECT the submitted
\* submissions.  The two updates lock their rows until the transaction ends
\* and are seen by others when it commits, so they take effect there.
DecideBegin(r) ==
    /\ At(r, "decide.begin")
    /\ LET l == req[r].learner
           p == req[r].peer
       IN
          /\ Writable(l)
          /\ StudentWritable(p)
          /\ lock' = [lock EXCEPT ![l] = IF learner[l] = None THEN None ELSE r]
          /\ studentLock' =
                [studentLock EXCEPT ![p] = IF student[p] = None THEN None ELSE r]
          /\ req' = [req EXCEPT ![r] =
                [@ EXCEPT
                   !.pc = "decide.reload",
                   !.forms =
                      [s \in Submission |->
                         IF /\ s \in SubmissionsOf(l)
                            /\ submission[s].status = "submitted"
                           THEN Decided(submission[s], req[r].verdict)
                           ELSE None]]]
    /\ UNCHANGED <<tables, history>>

\* The SELECTs of manager.save(submission).
DecideReload(r) ==
    /\ At(r, "decide.reload")
    /\ req' = [req EXCEPT ![r] =
          [@ EXCEPT
             !.pc = "decide.commit",
             !.formDirty =
                [s \in Submission |->
                   IF req[r].forms[s] = None THEN {}
                   ELSE Dirty(req[r].forms[s], submission[s])]]]
    /\ UNCHANGED <<tables, locks, history>>

\* The UPDATEs of the submissions and COMMIT.
DecideCommit(r) ==
    /\ At(r, "decide.commit")
    /\ LET q == req[r] IN
          /\ \/ /\ lock[q.learner] = r
                /\ learner' = [learner EXCEPT
                      ![q.learner].application_status = q.verdict]
                /\ Reach(q.learner, IF q.verdict = "Approved" THEN "approved"
                                                             ELSE "rejected")
             \/ /\ lock[q.learner] # r
                /\ UNCHANGED <<learner, history>>
          /\ \/ /\ studentLock[q.peer] = r
                /\ student' = [student EXCEPT
                      ![q.peer].application_status = q.verdict]
             \/ /\ studentLock[q.peer] # r
                /\ UNCHANGED student
          /\ submission' = [s \in Submission |->
                IF q.forms[s] = None THEN submission[s]
                ELSE WriteBack(submission[s], q.forms[s], q.formDirty[s])]
    /\ lock' = [l \in Learner |-> IF lock[l] = r THEN None ELSE lock[l]]
    /\ studentLock' =
          [l \in Learner |-> IF studentLock[l] = r THEN None ELSE studentLock[l]]
    /\ Return(r)
    /\ UNCHANGED <<users, issued>>

DecideStep(r) ==
    \/ DecideFindStudent(r)
    \/ DecideNoStudent(r)
    \/ DecideBegin(r)
    \/ DecideReload(r)
    \/ DecideCommit(r)

DecideCall(r) ==
    \E l \in Learner : ApproveApplication(r, l) \/ RejectApplication(r, l)

-----------------------------------------------------------------------------
\* A client makes a request: nothing obliges it to.
ClientCall(r) == AccountCall(r) \/ RecordCall(r) \/ FormCall(r) \/ DecideCall(r)

\* The handler of a request in flight takes its next step.
HandlerStep(r) == SendStep(r) \/ RecordStep(r) \/ FormStep(r) \/ DecideStep(r)

Next == \E r \in Request : ClientCall(r) \/ HandlerStep(r) \/ Fail(r)

Spec == Init /\ [][Next]_vars

\* The event loop resumes every handler whose await has been answered, and
\* Postgres grants a lock once its holder has ended.
Fairness == \A r \in Request : WF_vars(HandlerStep(r))

FairSpec == Spec /\ Fairness

-----------------------------------------------------------------------------
(* Properties. *)

\* What a prospective_students row tells the dashboards about the learner.
Shown(row) ==
    IF row = None THEN {}
    ELSE    (IF row.application_mail = "Sent" THEN {"sent"} ELSE {})
       \cup (IF row.application_status = "Approved" THEN {"approved"} ELSE {})
       \cup (IF row.application_status = "Rejected" THEN {"rejected"} ELSE {})
       \cup (IF row.inductor_status = "Sent" THEN {"linked"} ELSE {})
       \cup (IF row.attendance_status = "present" THEN {"present"} ELSE {})

Progress == INSTANCE Milestones WITH
    reached <- [l \in Learner |-> past[l] \ {"removed"}],
    shown   <- [l \in Learner |-> Shown(learner[l])]

\* The pipeline implements Milestones: however the requests interleave, fail
\* or write stale columns back, a learner is mailed only with an account,
\* marked 'Sent' only after the mail was taken, decided on only once marked,
\* and inducted only once approved, and its record shows nothing else.
ProgressSpec == Progress!Spec

\* The record never runs ahead of the facts (the state predicate behind
\* ProgressSpec): a stale save() can undo what the dashboards show, but it
\* cannot make them show a stage the learner has not been through, although
\* archive, lazer, certificate and edit save whole rows and check no stage.
StagesInOrder ==
    \A l \in Learner :
       /\ Shown(learner[l]) \subseteq past[l]
       /\ \A m \in past[l] \ {"removed"} : Progress!Before(m) \subseteq past[l]

\* sendLearnerMail has no transaction around its inserts, its mail and its
\* update, and may run twice at once or after an e-mail was edited: still, a
\* learner who was mailed credentials, or whose row says 'Sent', has a
\* students row unless an admin has removed the account.
MailedHasAccount ==
    \A l \in Learner :
       \/ "mailed" \in past[l]
       \/ learner[l] # None /\ learner[l].application_mail = "Sent"
       => student[l] # None \/ "removed" \in past[l]

\* A students row and the account it belongs to carry the same e-mail, even
\* when the recruiter edits the learner's e-mail between or during two sends
\* and deleteUser removes an account in the middle of a third: what finds a
\* student by e-mail finds the owner of the account.
StudentMatchesAccount ==
    \A l \in Learner :
       student[l] # None => users[student[l].user] = student[l].email

\* A form that shows any sign of having been submitted, reviewed or decided
\* on was submitted by its learner at some time: a stale save may turn it
\* back into a draft, but none turns an unfinished draft into a submission.
Touched(row) == row.status # "draft" \/ row.is_submitted
OnlySubmittedAreReviewed ==
    \A s \in Submission :
       submission[s] # None /\ Touched(submission[s]) => s \in turnedIn

\* Forms are never left without their learner, although createSubmission
\* looks the learner up one await before it inserts, deleteStudent may run in
\* between, and a stale save may bring a deleted learner back.
SubmissionsHaveLearner ==
    \A s \in Submission :
       submission[s] # None => learner[submission[s].student] # None

\* Row locks belong to transactions in flight: whatever way a decision ends,
\* its locks are gone, and a learner is never left locked for the others.
LocksHeldByDecisions ==
    \A l \in Learner :
       /\ lock[l] # None =>
             /\ req[lock[l]].pc \in {"decide.reload", "decide.commit"}
             /\ req[lock[l]].learner = l
             /\ learner[l] # None
       /\ studentLock[l] # None =>
             /\ req[studentLock[l]].pc \in {"decide.reload", "decide.commit"}
             /\ req[studentLock[l]].peer = l
             /\ student[l] # None

\* The learner's row and its students row say the same about the
\* application ("Transaction to ensure both updates succeed or fail
\* together").
DecisionsAgree ==
    \A l \in Learner :
       learner[l] # None /\ student[l] # None =>
          learner[l].application_status = student[l].application_status

\* Every request returns: nobody waits for a row lock for ever.
EveryRequestReturns ==
    \A r \in Request : req[r].pc \in Awaits ~> req[r].pc = "done"

-----------------------------------------------------------------------------
(* The inductive invariant behind the safety properties: what a request in  *)
(* flight knows and holds at each await.                                    *)

SendAwaits   == { "send.email", "send.user", "send.student", "send.flush",
                  "send.mail", "send.mark" }
DecideAwaits == { "decide.student", "decide.begin", "decide.reload",
                  "decide.commit" }

\* The locals a handler reads at an await have been set.
LocalsSet(q) ==
    /\ q.pc \in Awaits \ {"create.insert"} => q.learner \in Learner
    /\ q.pc \in SendAwaits \cup DecideAwaits
                \cup {"create.insert", "save", "flush", "meeting.mail"}
          => q.entity \in LearnerRow
    /\ q.pc \in {"send.student", "send.flush", "send.mail", "send.mark"}
          => q.user \in UserId
    /\ q.pc \in DecideAwaits => q.verdict \in {"Approved", "Rejected"}
    /\ q.pc \in DecideAwaits \ {"decide.student"} => q.peer \in Learner
    /\ \A s \in Submission :
          /\ q.formPhase[s] # "none" => q.pc = "form.save" /\ q.forms[s] # None
          /\ q.forms[s] # None => submission[s] # None

\* The entity a handler holds shows only what has happened, so writing back
\* any part of it cannot show more.
EntityTrue(q) ==
    /\ q.pc = "create.insert" => Shown(q.entity) = {}
    /\ q.pc \in SendAwaits \cup DecideAwaits \cup {"save", "flush", "meeting.mail"}
          => Shown(q.entity) \cup {"created"} \subseteq past[q.learner]

\* What must have happened for a handler to be at this await.
AwaitReached(q) ==
    /\ q.pc \in {"send.student", "send.flush", "send.mail", "send.mark"}
          => "account" \in past[q.learner]
    /\ q.pc = "send.mark" => "mailed" \in past[q.learner]
    /\ q.pc \in DecideAwaits => "sent" \in past[q.learner]
    /\ q.pc = "meeting.mail" => "approved" \in past[q.learner]

RequestsTrue ==
    \A r \in Request :
       LocalsSet(req[r]) /\ EntityTrue(req[r]) /\ AwaitReached(req[r])

\* Only learners that were created have a row.
RowsCreated == \A l \in Learner : learner[l] # None => "created" \in past[l]

\* What the tables and the requests say is true of the past.
RecordsInv == TypeOK /\ StagesInOrder /\ RowsCreated /\ RequestsTrue

CoreInv == RecordsInv /\ LocksHeldByDecisions

\* A submission that a handler holds is of the same learner as its row, and
\* if it looks submitted its learner has submitted it.
FormTrue(q, s) ==
    q.forms[s] # None =>
       /\ q.forms[s].student = submission[s].student
       /\ Touched(q.forms[s]) => s \in turnedIn
FormsTrue == \A r \in Request, s \in Submission : FormTrue(req[r], s)
FormsInv == SubmissionsHaveLearner /\ OnlySubmittedAreReviewed /\ FormsTrue

HasAccount(l) == student[l] # None \/ "removed" \in past[l]

\* An e-mail has one account, and a mail is only sent to one who has one.
UsersTrue ==
    /\ \A u \in UserId : users[u] # None => u \in issued
    /\ \A u, v \in UserId : users[u] # None /\ users[u] = users[v] => u = v
    /\ \A l \in Learner : "mailed" \in past[l] => HasAccount(l)

\* What a send knows of the account it has created, until it has written the
\* students row: the account is its own, and the row is another's.
Writes(q) == q.pc \in {"send.student", "send.flush"}
OwnAccount(q) ==
    Writes(q) =>
       /\ q.user \in issued
       /\ users[q.user] \in {None, q.entity.email}
       /\ \A l \in Learner : student[l] # None => student[l].user # q.user
\* The save that updates a students row writes the account, and the e-mail
\* with it unless the account has been removed, when it is refused.
UpdatesBoth(q) ==
    /\ q.pc = "send.flush" /\ ~ q.insert =>
          /\ HasAccount(q.learner)
          /\ "user" \in q.dirty
          /\ "email" \in q.dirty \/ users[q.user] = None
    /\ q.pc = "send.mail" => HasAccount(q.learner)
SendsTrue ==
    /\ \A r \in Request : OwnAccount(req[r]) /\ UpdatesBoth(req[r])
    /\ \A r, o \in Request :
          r # o /\ Writes(req[r]) /\ Writes(req[o]) => req[r].user # req[o].user
AccountsInv == StudentMatchesAccount /\ UsersTrue /\ SendsTrue

IInv == CoreInv /\ FormsInv /\ AccountsInv

-----------------------------------------------------------------------------
(* What DecisionsAgree rests on, in an instance without the handlers that   *)
(* save whole rows and without deleteUser, which frees an account's e-mail  *)
(* for another learner's account.                                           *)

Disturbing ==
    { "editInformation", "sendMeetingLink", "updateAttendanceStatus",
      "approveLazer", "approveCertificate", "archiveStudent",
      "unarchiveStudent", "deleteUser" }

\* The rows and the entities of a learner carry one e-mail.
Sends(q)   == q.pc \in {"send.email", "send.user"} \/ Writes(q)
Decides(q) == q.pc \in DecideAwaits
OneEmail(l, e) ==
    /\ learner[l] # None => learner[l].email = e
    /\ student[l] # None => student[l].email = e
    /\ \A r \in Request :
          req[r].learner = l /\ (Sends(req[r]) \/ Decides(req[r])) => req[r].entity.email = e

\* Accounts stay, each with one learner at most; a learner who has none yet
\* has not been decided on.
RowsUndisturbed ==
    /\ \A u \in issued : users[u] # None
    /\ \A l \in Learner :
          /\ "removed" \notin past[l]
          /\ student[l] # None => past[l] # {}
          /\ learner[l] # None /\ student[l] = None => learner[l].application_status = "Pending"
          /\ \E e \in Email \cup {None} : OneEmail(l, e)
    /\ \A k, l \in Learner :
          student[k] # None /\ student[l] # None /\ student[k].user = student[l].user => k = l

\* A send writes the first students row of its learner; a decision finds that
\* of its learner, and holds the locks of both rows until it commits.
RequestUndisturbed(r) ==
    LET q == req[r]
        l == req[r].learner
    IN  /\ q.pc \notin {"save", "flush", "meeting.mail"}
        /\ q.pc = "create.insert" => q.entity.application_status = "Pending"
        /\ Sends(q) /\ student[l] = None => q.entity.application_status = "Pending"
        /\ Writes(q) => student[l] = None
        /\ q.pc = "send.flush" => q.insert
        /\ Decides(q) => student[l] # None
        /\ Decides(q) /\ q.pc # "decide.student" => q.peer = l
        /\ q.pc \in {"decide.reload", "decide.commit"} =>
              studentLock[l] = r /\ (learner[l] # None => lock[l] = r)

DecisionsInv == DecisionsAgree /\ RowsUndisturbed /\ \A r \in Request : RequestUndisturbed(r)
=============================================================================
