----------------------------- MODULE FormsProofs -----------------------------
(***************************************************************************)
(* Forms keep their learner, and only what was submitted is reviewed, for  *)
(* any number of learners, forms and concurrent requests.  FormsInv is     *)
(* inductive beside CoreInv: an entity that a handler writes back, in part *)
(* or whole, is of the same learner as the row and looks submitted only if *)
(* the learner has submitted it.                                           *)
(***************************************************************************)
EXTENDS PipelineProofs

-----------------------------------------------------------------------------
(* A submission that is written back. *)

LEMMA WrittenForm ==
  ASSUME NEW row \in SubmissionRow, NEW entity \in SubmissionRow, NEW columns,
         entity.student = row.student
  PROVE  LET w == WriteBack(row, entity, columns) IN
         /\ w.student = row.student
         /\ Touched(w) => Touched(row) \/ Touched(entity)
<1>. DEFINE w == WriteBack(row, entity, columns)
<1>1. DOMAIN row = {"student", "status", "is_submitted", "data"}
  BY DEF SubmissionRow
<1>2. /\ w.student = IF "student" \in columns THEN entity.student ELSE row.student
      /\ w.status = IF "status" \in columns THEN entity.status ELSE row.status
      /\ w.is_submitted =
            IF "is_submitted" \in columns THEN entity.is_submitted ELSE row.is_submitted
  BY <1>1 DEF WriteBack
<1>3. QED
  BY <1>2 DEF Touched

-----------------------------------------------------------------------------
(* What has to be shown of a step of r. *)

OwnersStay ==
    \A s \in Submission : submission[s] # None =>
       submission'[s] # None /\ submission'[s].student = submission[s].student

LEMMA FormsConcluded ==
  ASSUME CoreInv, FormsInv, NEW r \in Request, OthersStay(r), OwnersStay,
         turnedIn \subseteq turnedIn',
         SubmissionsHaveLearner', OnlySubmittedAreReviewed',
         \A s \in Submission : FormTrue(req[r], s)'
  PROVE  FormsInv'
<1>1. ASSUME NEW o \in Request \ {r}, NEW s \in Submission
      PROVE  FormTrue(req[o], s)'
  <2>1. req'[o] = req[o] /\ FormTrue(req[o], s)
    BY <1>1 DEF OthersStay, FormsInv, FormsTrue
  <2>2. req[o].forms[s] # None => submission[s] # None
    BY <1>1 DEF CoreInv, RecordsInv, RequestsTrue, LocalsSet
  <2>3. QED
    BY <2>1, <2>2 DEF FormTrue, OwnersStay
<1>2. FormsTrue'
  BY <1>1 DEF FormsTrue
<1>3. QED
  BY <1>2 DEF FormsInv

\* The learners with a form keep their rows.
OwnersKept ==
    \A s \in Submission : submission[s] # None =>
       (learner[submission[s].student] # None => learner'[submission[s].student] # None)

\* A step of r that writes no submission.
LEMMA FormsQuiet ==
  ASSUME CoreInv, FormsInv, NEW r \in Request, OthersStay(r), OwnersKept,
         UNCHANGED submission, turnedIn \subseteq turnedIn',
         \A s \in Submission : FormTrue(req[r], s)'
  PROVE  FormsInv'
<1>1. OwnersStay
  BY DEF OwnersStay
<1>2. SubmissionsHaveLearner'
  BY DEF FormsInv, SubmissionsHaveLearner, OwnersKept
<1>3. OnlySubmittedAreReviewed'
  BY DEF FormsInv, OnlySubmittedAreReviewed
<1>4. QED
  BY <1>1, <1>2, <1>3, FormsConcluded

\* The handler holds the forms it held, or some of them, or none.
HoldsNoMore(r) ==
    \A s \in Submission : req'[r].forms[s] # None => req'[r].forms[s] = req[r].forms[s]

LEMMA FormsHeld ==
  ASSUME CoreInv, FormsInv, NEW r \in Request, HoldsNoMore(r), OwnersStay,
         turnedIn \subseteq turnedIn'
  PROVE  \A s \in Submission : FormTrue(req[r], s)'
<1>. SUFFICES ASSUME NEW s \in Submission, req'[r].forms[s] # None
              PROVE  /\ req'[r].forms[s].student = submission'[s].student
                     /\ Touched(req'[r].forms[s]) => s \in turnedIn'
  BY DEF FormTrue, Touched
<1>1. req'[r].forms[s] = req[r].forms[s] /\ FormTrue(req[r], s)
  BY DEF HoldsNoMore, FormsInv, FormsTrue
<1>2. submission[s] # None
  BY <1>1 DEF CoreInv, RecordsInv, RequestsTrue, LocalsSet
<1>3. QED
  BY <1>1, <1>2 DEF FormTrue, OwnersStay

\* A handler that returns, or is called and loads no form, holds none.
LEMMA NoneHeld ==
  ASSUME NEW r, req'[r].forms = NoForms
  PROVE  HoldsNoMore(r)
  BY DEF HoldsNoMore, NoForms

LEMMA OverHeld ==
  ASSUME CoreInv, NEW r \in Request, Return(r)
  PROVE  OthersStay(r) /\ HoldsNoMore(r)
<1>1. req'[r] = Done /\ OthersStay(r)
  BY UpdatesOne DEF Return, CoreInv, RecordsInv, TypeOK
<1>2. QED
  BY <1>1, NoneHeld DEF Done, Holding

LEMMA WentHeld ==
  ASSUME CoreInv, NEW r \in Request, NEW pc \in Awaits, Goto(r, pc)
  PROVE  OthersStay(r) /\ HoldsNoMore(r)
  BY Went DEF CoreInv, Only, Keeps, OthersStay, HoldsNoMore

\* The steps that touch neither the submissions nor the forms held.
LEMMA FormsApart ==
  ASSUME CoreInv, FormsInv, NEW r \in Request, OthersStay(r), HoldsNoMore(r),
         OwnersKept, UNCHANGED <<submission, turnedIn>>
  PROVE  FormsInv'
<1>1. OwnersStay
  BY DEF OwnersStay
<1>2. QED
  BY <1>1, FormsHeld, FormsQuiet

LEMMA FormsApartStep ==
  ASSUME CoreInv, FormsInv, NEW r \in Request, OthersStay(r), HoldsNoMore(r),
         UNCHANGED <<learner, submission, turnedIn>>
  PROVE  FormsInv'
  BY FormsApart DEF OwnersKept

\* A learner's row is written, not deleted.
LEMMA RowKeepsForms ==
  ASSUME CoreInv, NEW l, NEW row \in LearnerRow, learner' = [learner EXCEPT ![l] = row]
  PROVE  OwnersKept
  BY NoneAssumption DEF OwnersKept, CoreInv, RecordsInv, TypeOK, SubmissionRow

-----------------------------------------------------------------------------
(* Calls. *)

\* A handler is called and loads no form.
LEMMA CalledHeld ==
  ASSUME CoreInv, NEW r \in Request, NEW q, req' = [req EXCEPT ![r] = q],
         q.forms = NoForms
  PROVE  OthersStay(r) /\ HoldsNoMore(r)
<1>1. req'[r] = q /\ OthersStay(r)
  BY UpdatesOne DEF CoreInv, RecordsInv, TypeOK
<1>2. QED
  BY <1>1, NoneHeld

LEMMA HoldingForms ==
  ASSUME NEW pc, NEW l, NEW e
  PROVE  /\ Holding(pc, l, e).forms = NoForms
         /\ \A v : [Holding(pc, l, e) EXCEPT !.verdict = v].forms = NoForms
  BY DEF Holding

LEMMA LoadsNoForm ==
  ASSUME CoreInv, FormsInv, NEW r \in Request, NEW pc, NEW l, NEW e,
         req' = [req EXCEPT ![r] = Holding(pc, l, e)],
         UNCHANGED <<learner, submission, turnedIn>>
  PROVE  FormsInv'
<1>. DEFINE q == Holding(pc, l, e)
<1>1. req' = [req EXCEPT ![r] = q] /\ q.forms = NoForms
  BY HoldingForms
<1>. HIDE DEF q
<1>2. QED
  BY <1>1, CalledHeld, FormsApartStep

LEMMA RecordCallForms ==
  ASSUME CoreInv, FormsInv, NEW r \in Request, RecordCall(r)
  PROVE  FormsInv'
<1>. DEFINE Loads == \E pc, l, e : req' = [req EXCEPT ![r] = Holding(pc, l, e)]
<1>1. UNCHANGED <<learner, submission, turnedIn>>
  BY DEF RecordCall, CreateLearner, EditInformation, DeleteStudent, SendMeetingLink,
     UpdateAttendanceStatus, ApproveLazer, ApproveCertificate, ArchiveStudent,
     UnarchiveStudent, LoadAndSave, Reach, tables, history
<1>2. Loads
  <2>1. ASSUME NEW e \in Email, CreateLearner(r, e)
        PROVE  Loads
    BY <2>1 DEF CreateLearner
  <2>2. ASSUME NEW l \in Learner,
               \/ \E e \in Email : EditInformation(r, l, e)
               \/ SendMeetingLink(r, l)
               \/ DeleteStudent(r, l)
        PROVE  Loads
    BY <2>2 DEF EditInformation, SendMeetingLink, DeleteStudent, LoadAndSave
  <2>3. ASSUME NEW l \in Learner,
               \/ \E status \in {"present", "absent"} : UpdateAttendanceStatus(r, l, status)
               \/ ApproveLazer(r, l) \/ ApproveCertificate(r, l)
               \/ ArchiveStudent(r, l) \/ UnarchiveStudent(r, l)
        PROVE  Loads
    BY <2>3 DEF UpdateAttendanceStatus, ApproveLazer, ApproveCertificate, ArchiveStudent,
       UnarchiveStudent, LoadAndSave
  <2>. HIDE DEF Loads
  <2>4. QED
    BY <2>1, <2>2, <2>3 DEF RecordCall
<1>3. QED
  BY <1>1, <1>2, LoadsNoForm

LEMMA AccountCallForms ==
  ASSUME CoreInv, FormsInv, NEW r \in Request, AccountCall(r)
  PROVE  FormsInv'
<1>1. CASE \E l \in Learner : SendLearnerMail(r, l)
  <2>1. /\ \E l : req' = [req EXCEPT ![r] = Holding("send.email", l, learner[l])]
        /\ UNCHANGED <<learner, submission, turnedIn>>
    BY <1>1 DEF SendLearnerMail, tables, history
  <2>2. QED
    BY <2>1, LoadsNoForm
<1>2. CASE \E u \in UserId : DeleteUser(r, u)
  <2>1. Return(r) /\ UNCHANGED <<learner, submission, turnedIn>>
    BY <1>2 DEF DeleteUser
  <2>2. QED
    BY <2>1, OverHeld, FormsApartStep
<1>3. QED
  BY <1>1, <1>2 DEF AccountCall

LEMMA DecideCallForms ==
  ASSUME CoreInv, FormsInv, NEW r \in Request, DecideCall(r)
  PROVE  FormsInv'
<1>1. PICK l \in Learner, verdict \in {"Approved", "Rejected"} : Decide(r, l, verdict)
  BY DEF DecideCall, ApproveApplication, RejectApplication
<1>. DEFINE q == [Holding("decide.student", l, learner[l]) EXCEPT !.verdict = verdict]
<1>2. /\ req' = [req EXCEPT ![r] = q] /\ q.forms = NoForms
      /\ UNCHANGED <<learner, submission, turnedIn>>
  BY <1>1, HoldingForms DEF Decide, tables, history
<1>. HIDE DEF q
<1>3. QED
  BY <1>2, CalledHeld, FormsApartStep

\* Forms are loaded, changed and held: each is of the learner of its row, and
\* has been submitted if it looks it.
LEMMA SaveFormsForms ==
  ASSUME CoreInv, FormsInv, NEW r \in Request, NEW l, NEW entities,
         SaveForms(r, l, entities), turnedIn \subseteq turnedIn',
         \A s \in Submission : entities[s] # None =>
            /\ entities[s].student = submission[s].student
            /\ Touched(entities[s]) => s \in turnedIn'
  PROVE  FormsInv'
<1>1. /\ req'[r].forms = entities /\ OthersStay(r)
      /\ UNCHANGED <<learner, submission>>
  BY DEF SaveForms, Holding, tables, OthersStay, CoreInv, RecordsInv, TypeOK
<1>2. \A s \in Submission : FormTrue(req[r], s)'
  BY <1>1 DEF FormTrue, Touched
<1>3. QED
  BY <1>1, <1>2, FormsQuiet DEF OwnersKept

\* The columns a handler changes, and those it leaves.
LEMMA FormColumnsSet ==
  ASSUME NEW row \in SubmissionRow
  PROVE  /\ \A d : LET w == [row EXCEPT !.data = d] IN
               w.student = row.student /\ (Touched(w) => Touched(row))
         /\ \A st : LET w == [row EXCEPT !.status = st] IN w.student = row.student
         /\ LET w == [row EXCEPT !.status = "submitted", !.is_submitted = TRUE]
            IN  w.student = row.student
  BY DEF SubmissionRow, Touched

LEMMA FormCallForms ==
  ASSUME CoreInv, FormsInv, NEW r \in Request, FormCall(r)
  PROVE  FormsInv'
<1>1. \A s \in Submission : submission[s] # None =>
         submission[s] \in SubmissionRow /\ (Touched(submission[s]) => s \in turnedIn)
  BY DEF CoreInv, RecordsInv, TypeOK, FormsInv, OnlySubmittedAreReviewed
<1>2. CASE \E l \in Learner : CreateSubmission(r, l)
  <2>1. /\ \E l : req' = [req EXCEPT ![r] = Holding("form.insert", l, None)]
        /\ UNCHANGED <<learner, submission, turnedIn>>
    BY <1>2 DEF CreateSubmission, tables, history
  <2>2. QED
    BY <2>1, LoadsNoForm
<1>3. CASE \E l \in Learner : SubmitForm(r, l)
  <2>1. PICK l \in Learner : SubmitForm(r, l)
    BY <1>3
  <2>. DEFINE entities == [s \in Submission |->
                 IF s \in SubmissionsOf(l)
                   THEN [submission[s] EXCEPT !.status = "submitted", !.is_submitted = TRUE]
                   ELSE None]
  <2>2. SaveForms(r, l, entities) /\ turnedIn' = turnedIn \cup SubmissionsOf(l)
    BY <2>1 DEF SubmitForm
  <2>3. ASSUME NEW s \in Submission, entities[s] # None
        PROVE  entities[s].student = submission[s].student /\ s \in turnedIn'
    BY <1>1, <2>2, <2>3, FormColumnsSet DEF SubmissionsOf
  <2>. HIDE DEF entities
  <2>4. QED
    BY <2>2, <2>3, SaveFormsForms
<1>4. ASSUME NEW s \in Submission, NEW l, NEW w, submission[s] # None,
             SaveForms(r, l, [NoForms EXCEPT ![s] = w]), UNCHANGED turnedIn,
             w.student = submission[s].student, Touched(w) => s \in turnedIn
      PROVE  FormsInv'
  <2>. DEFINE entities == [NoForms EXCEPT ![s] = w]
  <2>1. ASSUME NEW t \in Submission, entities[t] # None
        PROVE  entities[t].student = submission[t].student /\ (Touched(entities[t]) => t \in turnedIn')
    BY <1>4, <2>1 DEF NoForms
  <2>2. SaveForms(r, l, entities) /\ turnedIn \subseteq turnedIn'
    BY <1>4
  <2>. HIDE DEF entities
  <2>3. QED
    BY <2>1, <2>2, SaveFormsForms
<1>5. CASE \E s \in Submission : \E answer \in Answer : UpdateDraft(r, s, answer)
  <2>1. PICK s \in Submission, answer \in Answer : UpdateDraft(r, s, answer)
    BY <1>5
  <2>. DEFINE w == [submission[s] EXCEPT !.data = @ \cup {answer}]
  <2>2. /\ submission[s] # None /\ UNCHANGED turnedIn
        /\ SaveForms(r, submission[s].student, [NoForms EXCEPT ![s] = w])
    BY <2>1 DEF UpdateDraft
  <2>3. w.student = submission[s].student /\ (Touched(w) => s \in turnedIn)
    BY <1>1, <2>2, FormColumnsSet
  <2>. HIDE DEF w
  <2>4. QED
    BY <1>4, <2>2, <2>3
<1>6. CASE \E s \in Submission : \E status \in SubmissionStatus : ReviewSubmission(r, s, status)
  <2>1. PICK s \in Submission, status \in SubmissionStatus : ReviewSubmission(r, s, status)
    BY <1>6
  <2>. DEFINE w == [submission[s] EXCEPT !.status = status]
  <2>2. /\ submission[s] # None /\ UNCHANGED turnedIn /\ submission[s].status = "submitted"
        /\ SaveForms(r, submission[s].student, [NoForms EXCEPT ![s] = w])
    BY <2>1 DEF ReviewSubmission
  <2>3. w.student = submission[s].student /\ s \in turnedIn
    BY <1>1, <2>2, FormColumnsSet DEF Touched
  <2>. HIDE DEF w
  <2>4. QED
    BY <1>4, <2>2, <2>3
<1>7. QED
  BY <1>2, <1>3, <1>5, <1>6 DEF FormCall

-----------------------------------------------------------------------------
(* Steps that write learners' rows, accounts or nothing. *)

LEMMA SendForms ==
  ASSUME CoreInv, FormsInv, NEW r \in Request, SendStep(r)
  PROVE  FormsInv'
<1>1. RecordsInv /\ req[r] \in RequestState
  BY DEF CoreInv, RecordsInv, TypeOK
<1>2. UNCHANGED <<submission, turnedIn>>
  BY DEF SendStep, SendEmailExists, SendEmailFree, SendCreateUser, SendUserConflict,
     SendReloadStudent, SendInsertStudent, SendUpdateStudent, SendStudentConflict,
     SendMail, SendMark, Reach, tables, history
<1>3. OthersStay(r) /\ HoldsNoMore(r)
  <2>1. CASE Return(r)
    BY <2>1, OverHeld
  <2>2. ASSUME NEW q, req' = [req EXCEPT ![r] = q], q.forms = req[r].forms
        PROVE  OthersStay(r) /\ HoldsNoMore(r)
    BY <1>1, <2>2, UpdatesOne DEF HoldsNoMore, RecordsInv, TypeOK
  <2>3. CASE \E pc \in Awaits : Goto(r, pc)
    BY <2>3, WentHeld
  <2>4. CASE SendCreateUser(r)
    BY <1>1, <2>2, <2>4 DEF SendCreateUser, RequestState, RecordsInv, TypeOK
  <2>5. CASE SendReloadStudent(r)
    BY <1>1, <2>2, <2>5 DEF SendReloadStudent, RequestState, RecordsInv, TypeOK
  <2>6. QED
    BY <2>1, <2>3, <2>4, <2>5 DEF SendStep, SendEmailExists, SendEmailFree, SendUserConflict,
       SendInsertStudent, SendUpdateStudent, SendStudentConflict, SendMail, SendMark, Awaits
<1>4. OwnersKept
  <2>1. CASE SendMark(r)
    <3>. DEFINE l == req[r].learner
                row == [learner[l] EXCEPT !.application_mail = "Sent"]
    <3>1. /\ req[r].pc = "send.mark"
          /\ \/ learner[l] # None /\ learner' = [learner EXCEPT ![l] = row]
             \/ UNCHANGED learner
      BY <2>1 DEF SendMark, At
    <3>2. l \in Learner /\ (learner[l] # None => row \in LearnerRow)
      BY <1>1, <3>1, Sending, RowTrue, StagedRow
    <3>. HIDE DEF row
    <3>3. QED
      BY <1>2, <3>1, <3>2, RowKeepsForms DEF OwnersKept
  <2>2. CASE UNCHANGED learner
    BY <2>2 DEF OwnersKept
  <2>3. QED
    BY <2>1, <2>2 DEF SendStep, SendEmailExists, SendEmailFree, SendCreateUser, SendUserConflict,
       SendReloadStudent, SendInsertStudent, SendUpdateStudent, SendStudentConflict, SendMail, tables
<1>5. QED
  BY <1>2, <1>3, <1>4, FormsApart

\* A row is inserted, written back in part or whole, or deleted: only that of
\* a learner without forms is deleted.
LEMMA RecordForms ==
  ASSUME CoreInv, FormsInv, NEW r \in Request, RecordStep(r)
  PROVE  FormsInv'
<1>. DEFINE l == req[r].learner
            e == req[r].entity
<1>1. RecordsInv /\ req[r] \in RequestState
  BY DEF CoreInv, RecordsInv, TypeOK
<1>2. UNCHANGED <<submission, turnedIn>>
  BY DEF RecordStep, InsertLearner, DeleteLearnerRow, DeleteRefused, MeetingMail,
     Reload, FlushInsert, FlushUpdate, Reach, tables, history
<1>3. OthersStay(r) /\ HoldsNoMore(r)
  <2>1. CASE Return(r)
    BY <2>1, OverHeld
  <2>2. ASSUME NEW q, req' = [req EXCEPT ![r] = q], q.forms = req[r].forms
        PROVE  OthersStay(r) /\ HoldsNoMore(r)
    BY <1>1, <2>2, UpdatesOne DEF HoldsNoMore, RecordsInv, TypeOK
  <2>3. CASE MeetingMail(r)
    BY <1>1, <2>2, <2>3 DEF MeetingMail, RequestState, RecordsInv, TypeOK
  <2>4. CASE Reload(r)
    BY <1>1, <2>2, <2>4 DEF Reload, RequestState, RecordsInv, TypeOK
  <2>5. QED
    BY <2>1, <2>3, <2>4 DEF RecordStep, InsertLearner, DeleteLearnerRow, DeleteRefused,
       FlushInsert, FlushUpdate
<1>4. OwnersKept
  <2>1. CASE InsertLearner(r)
    <3>1. e \in LearnerRow
      BY <1>1, <2>1, Mine DEF InsertLearner, At, RequestTrue, LocalsSet
    <3>2. QED
      BY <2>1, <3>1, RowKeepsForms DEF InsertLearner
  <2>2. CASE DeleteLearnerRow(r)
    <3>1. SubmissionsOf(l) = {} /\ learner' = [learner EXCEPT ![l] = None]
      BY <2>2 DEF DeleteLearnerRow
    <3>2. ASSUME NEW s \in Submission, submission[s] # None
          PROVE  submission[s].student \in Learner /\ submission[s].student # l
      BY <1>1, <3>1, <3>2 DEF SubmissionsOf, RecordsInv, TypeOK, SubmissionRow
    <3>3. QED
      BY <1>1, <3>1, <3>2 DEF OwnersKept, RecordsInv, TypeOK
  <2>3. CASE FlushInsert(r) \/ FlushUpdate(r)
    <3>1. l \in Learner /\ e \in LearnerRow
      BY <1>1, <2>3, Saving DEF FlushInsert, FlushUpdate, At
    <3>. DEFINE row == WriteBack(learner[l], e, req[r].dirty)
    <3>2. \/ UNCHANGED learner
          \/ learner' = [learner EXCEPT ![l] = e]
          \/ learner[l] # None /\ learner' = [learner EXCEPT ![l] = row]
      BY <2>3 DEF FlushInsert, FlushUpdate
    <3>3. learner[l] # None => row \in LearnerRow
      BY <1>1, <3>1, RowTrue, WriteBackLearner
    <3>. HIDE DEF row, l, e
    <3>4. QED
      BY <3>1, <3>2, <3>3, RowKeepsForms DEF OwnersKept
  <2>4. CASE UNCHANGED learner
    BY <2>4 DEF OwnersKept
  <2>5. QED
    BY <2>1, <2>2, <2>3, <2>4 DEF RecordStep, DeleteRefused, MeetingMail, Reload, tables
<1>5. QED
  BY <1>2, <1>3, <1>4, FormsApart

-----------------------------------------------------------------------------
(* Steps that write submissions. *)

\* The submissions of a set are written back with what r holds of them.
LEMMA FormsWritten ==
  ASSUME CoreInv, FormsInv, NEW r \in Request, OthersStay(r), HoldsNoMore(r),
         \A l \in Learner : learner[l] # None => learner'[l] # None, UNCHANGED turnedIn,
         submission' \in [Submission -> SubmissionRow \cup {None}],
         \A s \in Submission : submission'[s] # submission[s] =>
            /\ req[r].forms[s] # None
            /\ \E columns : submission'[s] = WriteBack(submission[s], req[r].forms[s], columns)
  PROVE  FormsInv'
<1>1. ASSUME NEW s \in Submission
      PROVE  /\ submission[s] # None =>
                   submission'[s] # None /\ submission'[s].student = submission[s].student
             /\ submission'[s] # None =>
                   submission[s] # None /\ (Touched(submission'[s]) => s \in turnedIn)
  <2>1. CASE submission'[s] = submission[s]
    BY <1>1, <2>1 DEF FormsInv, OnlySubmittedAreReviewed
  <2>2. CASE submission'[s] # submission[s]
    <3>1. PICK columns : submission'[s] = WriteBack(submission[s], req[r].forms[s], columns)
      BY <1>1, <2>2
    <3>2. /\ req[r].forms[s] \in SubmissionRow
          /\ submission[s] # None /\ submission[s] \in SubmissionRow
      BY <1>1, <2>2 DEF CoreInv, RecordsInv, TypeOK, RequestState, RequestsTrue, LocalsSet
    <3>3. /\ req[r].forms[s].student = submission[s].student
          /\ Touched(req[r].forms[s]) => s \in turnedIn
          /\ Touched(submission[s]) => s \in turnedIn
      BY <1>1, <2>2, <3>2 DEF FormsInv, FormsTrue, FormTrue, OnlySubmittedAreReviewed
    <3>4. submission'[s] \in SubmissionRow
      BY <3>1, <3>2, WriteBackSubmission
    <3>5. QED
      BY <3>1, <3>2, <3>3, <3>4, WrittenForm, NoneAssumption
  <2>3. QED
    BY <2>1, <2>2
<1>2. OwnersStay
  BY <1>1 DEF OwnersStay
<1>3. SubmissionsHaveLearner'
  <2>1. ASSUME NEW s \in Submission, submission'[s] # None
        PROVE  learner'[submission'[s].student] # None
    <3>1. submission[s] # None /\ submission'[s].student = submission[s].student
      BY <1>1, <2>1
    <3>2. submission[s].student \in Learner /\ learner[submission[s].student] # None
      BY <3>1 DEF CoreInv, RecordsInv, TypeOK, SubmissionRow, FormsInv, SubmissionsHaveLearner
    <3>3. QED
      BY <3>1, <3>2
  <2>2. QED
    BY <2>1 DEF SubmissionsHaveLearner
<1>4. OnlySubmittedAreReviewed'
  <2>1. \A s \in Submission : submission'[s] # None /\ Touched(submission'[s]) => s \in turnedIn'
    BY <1>1
  <2>2. QED
    BY <2>1 DEF OnlySubmittedAreReviewed, Touched
<1>5. \A s \in Submission : FormTrue(req[r], s)'
  BY <1>2, FormsHeld
<1>6. QED
  BY <1>2, <1>3, <1>4, <1>5, FormsConcluded

LEMMA InsertSubmissionForms ==
  ASSUME CoreInv, FormsInv, NEW r \in Request, InsertSubmission(r)
  PROVE  FormsInv'
<1>1. PICK s \in Submission, data \in SUBSET Answer :
        /\ submission[s] = None
        /\ submission' = [submission EXCEPT ![s] =
              [ student |-> req[r].learner, status |-> "draft",
                is_submitted |-> FALSE, data |-> data ]]
  BY DEF InsertSubmission
<1>2. /\ learner[req[r].learner] # None /\ Return(r)
      /\ UNCHANGED <<learner, turnedIn>>
  BY DEF InsertSubmission, history
<1>3. submission \in [Submission -> SubmissionRow \cup {None}]
  BY DEF CoreInv, RecordsInv, TypeOK
<1>4. /\ submission'[s].student = req[r].learner /\ ~ Touched(submission'[s])
      /\ \A t \in Submission \ {s} : submission'[t] = submission[t]
  BY <1>1, <1>3 DEF Touched
<1>5. OwnersStay
  BY <1>1, <1>4 DEF OwnersStay
<1>6. SubmissionsHaveLearner'
  BY <1>2, <1>4 DEF FormsInv, SubmissionsHaveLearner
<1>7. OnlySubmittedAreReviewed'
  <2>1. \A t \in Submission : submission'[t] # None /\ Touched(submission'[t]) => t \in turnedIn'
    BY <1>2, <1>4 DEF FormsInv, OnlySubmittedAreReviewed
  <2>2. QED
    BY <2>1 DEF OnlySubmittedAreReviewed, Touched
<1>8. OthersStay(r) /\ \A t \in Submission : FormTrue(req[r], t)'
  BY <1>2, <1>5, OverHeld, FormsHeld
<1>9. QED
  BY <1>2, <1>5, <1>6, <1>7, <1>8, FormsConcluded

\* The save of s is over: r holds fewer forms, or none.
LEMMA SaveOverHeld ==
  ASSUME CoreInv, NEW r \in Request, NEW s \in Submission, SaveOver(r, s)
  PROVE  OthersStay(r) /\ HoldsNoMore(r)
<1>1. CASE Return(r)
  BY <1>1, OverHeld
<1>2. CASE req' = [req EXCEPT ![r] = [@ EXCEPT !.formPhase[s] = "none", !.formDirty[s] = {},
                                               !.forms[s] = None]]
  <2>1. req[r] \in RequestState /\ OthersStay(r)
    BY <1>2 DEF OthersStay, CoreInv, RecordsInv, TypeOK
  <2>2. req'[r].forms = [req[r].forms EXCEPT ![s] = None]
    BY <1>2, <2>1 DEF RequestState, CoreInv, RecordsInv, TypeOK
  <2>3. HoldsNoMore(r)
    BY <2>1, <2>2 DEF HoldsNoMore, RequestState
  <2>4. QED
    BY <2>1, <2>3
<1>3. QED
  BY <1>1, <1>2 DEF SaveOver

LEMMA FormForms ==
  ASSUME CoreInv, FormsInv, NEW r \in Request, FormStep(r)
  PROVE  FormsInv'
<1>1. RecordsInv /\ req[r] \in RequestState
  BY DEF CoreInv, RecordsInv, TypeOK
<1>2. CASE InsertRefused(r)
  BY <1>2, OverHeld, FormsApartStep DEF InsertRefused, tables, history
<1>3. ASSUME NEW s \in Submission, ReloadForm(r, s)
      PROVE  FormsInv'
  <2>1. OthersStay(r) /\ req'[r].forms = req[r].forms
    BY <1>1, <1>3 DEF ReloadForm, OthersStay, RequestState, RecordsInv, TypeOK
  <2>2. QED
    BY <1>3, <2>1, FormsApartStep DEF ReloadForm, HoldsNoMore, tables, history
<1>4. ASSUME NEW s \in Submission, SaveFormFails(r, s)
      PROVE  FormsInv'
  BY <1>4, SaveOverHeld, FormsApartStep DEF SaveFormFails, tables, history
<1>5. ASSUME NEW s \in Submission, FlushForm(r, s)
      PROVE  FormsInv'
  <2>. DEFINE row == WriteBack(submission[s], req[r].forms[s], req[r].formDirty[s])
  <2>1. /\ At(r, "form.save") /\ req[r].formPhase[s] # "none" /\ SaveOver(r, s)
        /\ submission' = [submission EXCEPT ![s] = row]
        /\ UNCHANGED <<learner, turnedIn>>
    BY <1>5 DEF FlushForm, history
  <2>2. row \in SubmissionRow /\ req[r].forms[s] # None
    BY <1>1, <2>1, SavingForm, WriteBackSubmission, NoneAssumption
  <2>3. /\ submission' \in [Submission -> SubmissionRow \cup {None}]
        /\ \A t \in Submission : submission'[t] # submission[t] => t = s /\ submission'[t] = row
    BY <1>1, <2>1, <2>2 DEF RecordsInv, TypeOK
  <2>4. QED
    BY <2>1, <2>2, <2>3, SaveOverHeld, FormsWritten
<1>6. QED
  BY <1>2, <1>3, <1>4, <1>5, InsertSubmissionForms DEF FormStep

-----------------------------------------------------------------------------
(* Decisions. *)

\* A decision takes the submitted submissions of its learner, as they are
\* but for what it decides.
LEMMA DecidedForm ==
  ASSUME NEW row \in SubmissionRow, NEW verdict
  PROVE  Decided(row, verdict).student = row.student
<1>1. [row EXCEPT !.is_submitted = TRUE].student = row.student
  BY DEF SubmissionRow
<1>2. [row EXCEPT !.is_submitted = FALSE, !.status = "rejected"].student = row.student
  BY DEF SubmissionRow
<1>3. QED
  BY <1>1, <1>2 DEF Decided

LEMMA DecideBeginForms ==
  ASSUME CoreInv, FormsInv, NEW r \in Request, DecideBegin(r)
  PROVE  FormsInv'
<1>. DEFINE forms == [s \in Submission |->
                        IF /\ s \in SubmissionsOf(req[r].learner)
                           /\ submission[s].status = "submitted"
                          THEN Decided(submission[s], req[r].verdict)
                          ELSE None]
<1>1. /\ req[r] \in RequestState
      /\ submission \in [Submission -> SubmissionRow \cup {None}]
  BY DEF CoreInv, RecordsInv, TypeOK
<1>2. /\ req' = [req EXCEPT ![r] = [@ EXCEPT !.pc = "decide.reload", !.forms = forms]]
      /\ UNCHANGED <<learner, submission, turnedIn>>
  BY DEF DecideBegin, tables, history
<1>3. ASSUME NEW s \in Submission, forms[s] # None
      PROVE  forms[s].student = submission[s].student /\ s \in turnedIn
  <2>1. /\ submission[s] # None /\ submission[s].status = "submitted"
        /\ forms[s] = Decided(submission[s], req[r].verdict)
    BY <1>3 DEF SubmissionsOf
  <2>2. submission[s] \in SubmissionRow
    BY <1>1, <2>1
  <2>3. QED
    BY <2>1, <2>2, DecidedForm DEF FormsInv, OnlySubmittedAreReviewed, Touched
<1>. HIDE DEF forms
<1>4. OthersStay(r) /\ req'[r].forms = forms
  BY <1>1, <1>2 DEF OthersStay, RequestState, CoreInv, RecordsInv, TypeOK
<1>5. \A s \in Submission : FormTrue(req[r], s)'
  BY <1>2, <1>3, <1>4 DEF FormTrue, Touched
<1>6. QED
  BY <1>2, <1>4, <1>5, FormsQuiet DEF OwnersKept

LEMMA DecideCommitForms ==
  ASSUME CoreInv, FormsInv, NEW r \in Request, DecideCommit(r)
  PROVE  FormsInv'
<1>1. RecordsInv /\ req[r] \in RequestState
  BY DEF CoreInv, RecordsInv, TypeOK
<1>2. /\ req[r].pc = "decide.commit" /\ Return(r) /\ UNCHANGED turnedIn
      /\ \/ /\ lock[req[r].learner] = r
            /\ learner' = [learner EXCEPT ![req[r].learner].application_status = req[r].verdict]
         \/ UNCHANGED learner
      /\ submission' = [s \in Submission |->
            IF req[r].forms[s] = None THEN submission[s]
            ELSE WriteBack(submission[s], req[r].forms[s], req[r].formDirty[s])]
  BY DEF DecideCommit, At, Reach, history
<1>3. /\ submission' \in [Submission -> SubmissionRow \cup {None}]
      /\ req[r].learner \in Learner
  BY <1>1, <1>2, CommitForms, Deciding DEF DecideAwaits
<1>4. \A s \in Submission : submission'[s] # submission[s] =>
         /\ req[r].forms[s] # None
         /\ submission'[s] = WriteBack(submission[s], req[r].forms[s], req[r].formDirty[s])
  BY <1>2
<1>5. \A l \in Learner : learner[l] # None => learner'[l] # None
  <2>. DEFINE k == req[r].learner
              row == [learner[k] EXCEPT !.application_status = req[r].verdict]
  <2>1. CASE lock[k] = r /\ learner' = [learner EXCEPT ![k] = row]
    <3>1. learner[k] \in LearnerRow /\ req[r].verdict \in {"Approved", "Rejected"}
      BY <1>1, <1>2, <1>3, <2>1, Deciding, NoneAssumption
         DEF CoreInv, LocksHeldByDecisions, DecideAwaits, RecordsInv, TypeOK
    <3>2. row # None
      <4>1. /\ [learner[k] EXCEPT !.application_status = "Approved"] \in LearnerRow
            /\ [learner[k] EXCEPT !.application_status = "Rejected"] \in LearnerRow
        BY <3>1, StagedRow
      <4>2. CASE req[r].verdict = "Approved"
        BY <4>1, <4>2, NoneAssumption
      <4>3. CASE req[r].verdict = "Rejected"
        BY <4>1, <4>3, NoneAssumption
      <4>4. QED
        BY <3>1, <4>2, <4>3
    <3>. HIDE DEF row
    <3>3. QED
      BY <1>1, <1>3, <2>1, <3>2 DEF RecordsInv, TypeOK
  <2>2. QED
    BY <1>2, <2>1
<1>6. QED
  BY <1>2, <1>3, <1>4, <1>5, OverHeld, FormsWritten

LEMMA DecideForms ==
  ASSUME CoreInv, FormsInv, NEW r \in Request, DecideStep(r)
  PROVE  FormsInv'
<1>1. RecordsInv /\ req[r] \in RequestState
  BY DEF CoreInv, RecordsInv, TypeOK
<1>2. CASE DecideFindStudent(r) \/ DecideReload(r)
  <2>1. OthersStay(r)
    BY <1>1, <1>2 DEF DecideFindStudent, DecideReload, OthersStay, RecordsInv, TypeOK
  <2>2. req'[r].forms = req[r].forms
    <3>1. CASE DecideFindStudent(r)
      BY <1>1, <3>1 DEF DecideFindStudent, RequestState, RecordsInv, TypeOK
    <3>2. CASE DecideReload(r)
      BY <1>1, <3>2 DEF DecideReload, RequestState, RecordsInv, TypeOK
    <3>3. QED
      BY <1>2, <3>1, <3>2
  <2>3. QED
    BY <1>2, <2>1, <2>2, FormsApartStep DEF DecideFindStudent, DecideReload, HoldsNoMore,
       tables, history
<1>3. CASE DecideNoStudent(r)
  BY <1>3, OverHeld, FormsApartStep DEF DecideNoStudent, tables, history
<1>4. QED
  BY <1>2, <1>3, DecideBeginForms, DecideCommitForms DEF DecideStep

-----------------------------------------------------------------------------
(* The theorems. *)

LEMMA InitForms == Init => FormsInv
<1>. SUFFICES ASSUME Init
              PROVE  FormsInv
  OBVIOUS
<1>1. \A r \in Request : req[r].forms = NoForms
  BY DEF Init, Idle, Holding
<1>2. \A s \in Submission : submission[s] = None
  BY DEF Init
<1>3. QED
  BY <1>1, <1>2 DEF FormsInv, SubmissionsHaveLearner, OnlySubmittedAreReviewed, FormsTrue,
     FormTrue, NoForms

LEMMA NextForms == CoreInv /\ FormsInv /\ [Next]_vars => FormsInv'
<1>. SUFFICES ASSUME CoreInv, FormsInv, [Next]_vars
              PROVE  FormsInv'
  OBVIOUS
<1>1. ASSUME NEW r \in Request, ClientCall(r)
      PROVE  FormsInv'
  BY <1>1, RecordCallForms, AccountCallForms, DecideCallForms, FormCallForms DEF ClientCall
<1>2. ASSUME NEW r \in Request, HandlerStep(r)
      PROVE  FormsInv'
  BY <1>2, SendForms, RecordForms, FormForms, DecideForms DEF HandlerStep
<1>3. ASSUME NEW r \in Request, Fail(r)
      PROVE  FormsInv'
  BY <1>3, OverHeld, FormsApartStep DEF Fail, tables, history
<1>4. CASE UNCHANGED vars
  BY <1>4 DEF vars, FormsInv, SubmissionsHaveLearner, OnlySubmittedAreReviewed, FormsTrue,
     FormTrue, Touched
<1>5. QED
  BY <1>1, <1>2, <1>3, <1>4 DEF Next

\* What the handlers hold of the submissions stays true of them.
THEOREM FormsInvariant == Spec => []FormsInv
  BY InitForms, NextForms, CoreInvariant, PTL DEF Spec

\* No submission is left without its learner, whatever runs between the lookup
\* of createSubmission and its INSERT, and whatever a stale save brings back.
THEOREM FormsKeepTheirLearner == Spec => []SubmissionsHaveLearner
<1>1. FormsInv => SubmissionsHaveLearner
  BY DEF FormsInv
<1>2. QED
  BY <1>1, FormsInvariant, PTL

\* No stale save, review or decision makes a submission look submitted or
\* decided on that its learner has never submitted.
THEOREM OnlyTheSubmittedAreReviewed == Spec => []OnlySubmittedAreReviewed
<1>1. FormsInv => OnlySubmittedAreReviewed
  BY DEF FormsInv
<1>2. QED
  BY <1>1, FormsInvariant, PTL
=============================================================================
