------------------------------- MODULE Tables -------------------------------
(***************************************************************************)
(* The shared state of the learner pipeline: the four database tables its  *)
(* handlers read and write, the row locks a transaction holds, and the     *)
(* HTTP requests in flight.  The modules Accounts, LearnerRecord, Forms    *)
(* and Pipeline give the handlers' steps over this state.                  *)
(*                                                                         *)
(* One element of Request is one HTTP request: it starts at most once, its *)
(* handler runs up to an await in every step, and it ends when the handler *)
(* returns or throws.  All other requests may take steps at every await.   *)
(***************************************************************************)
EXTENDS Orm, FiniteSets

CONSTANTS
    Learner,      \* ids of prospective_students rows (and of students rows)
    Email,        \* e-mail addresses
    UserId,       \* ids the users table can hand out
    Submission,   \* ids of form_submissions rows
    Answer,       \* keys of a form's answers
    Request,      \* the requests clients make
    Handlers,     \* the handlers clients call in this instance
    None          \* no row, no id, no lock

HandlerNames ==
    { "createLearner", "editInformation", "deleteStudent",
      "sendLearnerMail", "deleteUser",
      "approveApplication", "rejectApplication",
      "sendMeetingLink", "updateAttendanceStatus",
      "approveLazer", "approveCertificate",
      "archiveStudent", "unarchiveStudent",
      "createSubmission", "updateDraft", "submitForm", "reviewSubmission" }

ASSUME HandlersAssumption == Handlers \subseteq HandlerNames
VARIABLES
    learner,      \* prospective_students
    users,        \* users (the learners' accounts): the account's e-mail
    issued,       \* user ids handed out so far (uuids are never reused)
    student,      \* students; a row has the id of the learner it copies
    submission,   \* form_submissions
    lock,         \* the transaction holding a prospective_students row lock
    studentLock,  \* the transaction holding a students row lock
    req,          \* the requests: the handler's position and its locals
    past,         \* history: the milestones each learner has gone through
    turnedIn      \* history: the submissions their learner has submitted

tables == <<learner, users, issued, student, submission>>
locks  == <<lock, studentLock>>
history == <<past, turnedIn>>
vars   == <<learner, users, issued, student, submission,
            lock, studentLock, req, past, turnedIn>>

-----------------------------------------------------------------------------
(* Rows.  The columns no property tells apart are left out: names, phone    *)
(* and course data, the archive stamp (archived_at, archived_by,            *)
(* archive_reason) and the reviewer's comment.  There is one school.        *)

LearnerRow ==
    [ email              : Email,
      application_mail   : {"Not sent", "Sent"},
      application_status : {"Pending", "Approved", "Rejected"},
      inductor_status    : {"Not sent", "Sent"},
      attendance_status  : {"absent", "present"},
      lazer_status       : {"Pending", "Approved"},
      certificate_status : {"Pending", "Approved"},
      is_archived        : BOOLEAN ]

\* The columns a new learner gets: the e-mail, and the entity's defaults.
NewLearner(e) ==
    [ email              |-> e,
      application_mail   |-> "Not sent",
      application_status |-> "Pending",
      inductor_status    |-> "Not sent",
      attendance_status  |-> "absent",
      lazer_status       |-> "Pending",
      certificate_status |-> "Pending",
      is_archived        |-> FALSE ]

StudentRow ==
    [ user               : UserId,
      email              : Email,
      application_status : {"Pending", "Approved", "Rejected"} ]

SubmissionStatus == {"draft", "submitted", "under_review", "approved", "rejected"}

SubmissionRow ==
    [ student       : Learner,
      status        : SubmissionStatus,
      is_submitted  : BOOLEAN,
      data          : SUBSET Answer ]

ASSUME NoneAssumption ==
    /\ None \notin Learner \cup Email \cup UserId \cup Submission \cup Request
    /\ None \notin LearnerRow
    /\ None \notin StudentRow
    /\ None \notin SubmissionRow

Columns == { "email", "application_mail", "application_status",
             "inductor_status", "attendance_status", "lazer_status",
             "certificate_status", "is_archived", "user" }

FormColumns == { "student", "status", "is_submitted", "data" }

-----------------------------------------------------------------------------
(* Requests. *)

\* A request waiting at one of these awaits has not returned yet.
Awaits ==
    { "create.insert", "save", "flush", "delete",
      "send.email", "send.user", "send.student", "send.flush",
      "send.mail", "send.mark", "meeting.mail",
      "decide.student", "decide.begin", "decide.reload", "decide.commit",
      "form.insert", "form.save" }

\* forms[s] is the submission entity the handler holds in memory, if any;
\* formDirty[s] the columns its save() found changed.
RequestState ==
    [ pc        : {"idle", "done"} \cup Awaits,
      learner   : Learner \cup {None},
      entity    : LearnerRow \cup {None},
      insert    : BOOLEAN,
      dirty     : SUBSET Columns,
      user      : UserId \cup {None},
      peer      : Learner \cup {None},
      verdict   : {"None", "Approved", "Rejected"},
      forms     : [Submission -> SubmissionRow \cup {None}],
      formPhase : [Submission -> {"none", "save", "update"}],
      formDirty : [Submission -> SUBSET FormColumns] ]

NoForms  == [s \in Submission |-> None]
NoPhases == [s \in Submission |-> "none"]
NoDirty  == [s \in Submission |-> {}]

\* A handler at an await, with the row it has loaded and nothing else yet.
Holding(pc, l, entity) ==
    [ pc |-> pc, learner |-> l, entity |-> entity, insert |-> FALSE,
      dirty |-> {}, user |-> None, peer |-> None, verdict |-> "None",
      forms |-> NoForms, formPhase |-> NoPhases, formDirty |-> NoDirty ]

Idle == Holding("idle", None, None)
Done == Holding("done", None, None)

\* The handler h may be called: the request has not been used yet.
Call(r, h) == req[r].pc = "idle" /\ h \in Handlers

At(r, pc) == req[r].pc = pc

Goto(r, pc) == req' = [req EXCEPT ![r].pc = pc]

\* The handler returns or throws; its locals are gone.
Return(r) == req' = [req EXCEPT ![r] = Done]

\* No transaction holds the row: an UPDATE or DELETE of it does not wait.
Writable(l) == lock[l] = None
StudentWritable(l) == studentLock[l] = None

\* Mutant of Fail: the transaction of a request that fails is not rolled back.
FailHoldingLocks(r) ==
    /\ req[r].pc \in Awaits
    /\ Return(r)
    /\ UNCHANGED <<tables, locks, history>>

\* At any await of a handler the statement or the mail may fail, or the
\* process may die: the request is over, what it has committed stays, and
\* the database rolls back the transaction it had open.
Fail(r) ==
    /\ req[r].pc \in Awaits
    /\ Return(r)
    /\ lock' = [l \in Learner |-> IF lock[l] = r THEN None ELSE lock[l]]
    /\ studentLock' =
           [l \in Learner |-> IF studentLock[l] = r THEN None ELSE studentLock[l]]
    /\ UNCHANGED <<tables, history>>

Milestones == { "created", "account", "mailed", "sent", "removed",
                "approved", "rejected", "linked", "present" }

Reach(l, m) ==
    /\ past' = [past EXCEPT ![l] = @ \cup {m}]
    /\ UNCHANGED turnedIn

\* The learner's form submissions.
SubmissionsOf(l) ==
    {s \in Submission : submission[s] # None /\ submission[s].student = l}

-----------------------------------------------------------------------------
TypeOK ==
    /\ learner \in [Learner -> LearnerRow \cup {None}]
    /\ users \in [UserId -> Email \cup {None}]
    /\ issued \subseteq UserId
    /\ student \in [Learner -> StudentRow \cup {None}]
    /\ submission \in [Submission -> SubmissionRow \cup {None}]
    /\ lock \in [Learner -> Request \cup {None}]
    /\ studentLock \in [Learner -> Request \cup {None}]
    /\ req \in [Request -> RequestState]
    /\ past \in [Learner -> SUBSET Milestones]
    /\ turnedIn \subseteq Submission

\* The recruiters have created or imported some learners, with any e-mails:
\* an import does not compare the rows of one file with each other, so two
\* learners may share an address.  Nothing has been sent to anybody yet.
Init ==
    /\ learner \in [Learner -> {NewLearner(e) : e \in Email} \cup {None}]
    /\ users = [u \in UserId |-> None]
    /\ issued = {}
    /\ student = [l \in Learner |-> None]
    /\ submission = [s \in Submission |-> None]
    /\ lock = [l \in Learner |-> None]
    /\ studentLock = [l \in Learner |-> None]
    /\ req = [r \in Request |-> Idle]
    /\ past = [l \in Learner |-> IF learner[l] = None THEN {} ELSE {"created"}]
    /\ turnedIn = {}
=============================================================================
