------------------------- MODULE PipelineRefinement -------------------------
(***************************************************************************)
(* The pipeline implements Milestones: every step of a handler advances    *)
(* one learner by a milestone whose prerequisites the learner has reached, *)
(* or only changes what one learner's record shows, within what has been   *)
(* reached, or is a stutter.                                               *)
(***************************************************************************)
EXTENDS PipelineProofs

reachedBar == [l \in Learner |-> past[l] \ {"removed"}]
shownBar   == [l \in Learner |-> Shown(learner[l])]

Stutter == UNCHANGED <<reachedBar, shownBar>>

ProgressStep == Progress!Next \/ Stutter

\* A step that touches neither the milestones nor the rows.
LEMMA Stutters ==
  ASSUME UNCHANGED <<learner, past>>
  PROVE  ProgressStep
  BY DEF ProgressStep, Stutter, reachedBar, shownBar, Shown

\* Only the row of l is written.
WritesRow(l) == \E row : learner' = [learner EXCEPT ![l] = row]

LEMMA ShownOfOne ==
  ASSUME CoreInv, CoreInv', NEW l \in Learner, WritesRow(l) \/ UNCHANGED learner
  PROVE  Progress!Show(l)
<1>1. \A k \in Learner : k # l => learner'[k] = learner[k]
  BY DEF WritesRow, CoreInv, RecordsInv, TypeOK
<1>2. \A k \in Learner : k # l => Shown(learner[k])' = Shown(learner[k])
  BY <1>1 DEF Shown
<1>3. Shown(learner[l])' \in SUBSET reachedBar'[l]
  <2>1. Shown(learner[l])' \subseteq past'[l]
    BY DEF CoreInv, RecordsInv, StagesInOrder
  <2>2. "removed" \notin Shown(learner[l])'
    BY DEF Shown
  <2>3. QED
    BY <2>1, <2>2 DEF reachedBar
<1>4. shownBar' = [shownBar EXCEPT ![l] = Shown(learner[l])']
  BY <1>2 DEF shownBar
<1>5. QED
  BY <1>3, <1>4 DEF Progress!Show, reachedBar, shownBar

LEMMA Refreshes ==
  ASSUME CoreInv, CoreInv', NEW l \in Learner, past' = past, WritesRow(l)
  PROVE  ProgressStep
<1>1. reachedBar' = reachedBar
  BY DEF reachedBar
<1>2. Progress!Show(l)
  BY ShownOfOne
<1>3. QED
  BY <1>1, <1>2 DEF ProgressStep, Progress!Next, Progress!Refresh, reachedBar

LEMMA Advances ==
  ASSUME CoreInv, CoreInv', NEW l \in Learner, NEW m \in Milestones \ {"removed"},
         Reach(l, m), WritesRow(l) \/ UNCHANGED learner
  PROVE  ProgressStep
<1>1. Progress!Show(l)
  BY ShownOfOne
<1>2. /\ past \in [Learner -> SUBSET Milestones]
      /\ past' = [past EXCEPT ![l] = @ \cup {m}]
  BY DEF Reach, CoreInv, RecordsInv, TypeOK
<1>3. reachedBar' = [reachedBar EXCEPT ![l] = @ \cup {m}]
  BY <1>2 DEF reachedBar
<1>4. m \in Progress!Milestone
  BY DEF Milestones, Progress!Milestone
<1>5. Progress!Before(m) \subseteq reachedBar[l]
  <2>1. Progress!Before(m) \subseteq past[l] \cup {m}
    BY <1>2 DEF CoreInv, RecordsInv, StagesInOrder
  <2>2. m \notin Progress!Before(m) /\ "removed" \notin Progress!Before(m)
    BY <1>4 DEF Progress!Before, Progress!Milestone
  <2>3. QED
    BY <2>1, <2>2 DEF reachedBar
<1>6. QED
  BY <1>1, <1>3, <1>4, <1>5
     DEF ProgressStep, Progress!Next, Progress!Advance, reachedBar

-----------------------------------------------------------------------------
(* Each step. *)

LEMMA CallProgress ==
  ASSUME CoreInv, CoreInv', NEW r \in Request, ClientCall(r)
  PROVE  ProgressStep
<1>1. CASE \E u \in UserId : DeleteUser(r, u)
  <2>1. /\ learner' = learner
        /\ \E gone \in SUBSET Learner :
              past' = [l \in Learner |->
                         IF l \in gone THEN past[l] \cup {"removed"} ELSE past[l]]
    BY <1>1 DEF DeleteUser
  <2>2. reachedBar' = reachedBar
    BY <2>1 DEF reachedBar
  <2>3. QED
    BY <2>1, <2>2 DEF ProgressStep, Stutter, shownBar, Shown
<1>2. CASE \E l \in Learner : UpdateAttendanceStatus(r, l, "present")
  <2>1. PICK l \in Learner : UpdateAttendanceStatus(r, l, "present")
    BY <1>2
  <2>2. Reach(l, "present") /\ UNCHANGED learner
    BY <2>1 DEF UpdateAttendanceStatus, LoadAndSave, tables
  <2>3. QED
    BY <2>2, Advances DEF Milestones
<1>3. CASE UNCHANGED <<learner, past>>
  BY <1>3, Stutters
<1>4. QED
  <2>1. CASE AccountCall(r)
    BY <1>1, <1>3, <2>1 DEF AccountCall, SendLearnerMail, tables, history
  <2>2. CASE RecordCall(r)
    BY <1>2, <1>3, <2>2 DEF RecordCall, CreateLearner, EditInformation,
       DeleteStudent, SendMeetingLink, UpdateAttendanceStatus, ApproveLazer,
       ApproveCertificate, ArchiveStudent, UnarchiveStudent, LoadAndSave,
       tables, history
  <2>3. CASE FormCall(r)
    BY <1>3, <2>3 DEF FormCall, CreateSubmission, SubmitForm, UpdateDraft,
       ReviewSubmission, SaveForms, tables, history
  <2>4. CASE DecideCall(r)
    BY <1>3, <2>4 DEF DecideCall, ApproveApplication, RejectApplication, Decide,
       tables, history
  <2>5. QED
    BY <2>1, <2>2, <2>3, <2>4 DEF ClientCall

LEMMA SendProgress ==
  ASSUME CoreInv, CoreInv', NEW r \in Request, SendStep(r)
  PROVE  ProgressStep
<1>. DEFINE l == req[r].learner
<1>1. RecordsInv
  BY DEF CoreInv
<1>2. CASE SendCreateUser(r)
  <2>1. Reach(l, "account") /\ UNCHANGED learner /\ req[r].pc = "send.user"
    BY <1>2 DEF SendCreateUser, At
  <2>2. l \in Learner
    BY <1>1, <2>1, Mine DEF RequestTrue, LocalsSet, Awaits
  <2>3. QED
    BY <2>1, <2>2, Advances DEF Milestones
<1>3. CASE SendMail(r)
  <2>1. Reach(l, "mailed") /\ UNCHANGED learner /\ req[r].pc = "send.mail"
    BY <1>3 DEF SendMail, At, tables
  <2>2. l \in Learner
    BY <1>1, <2>1, Sending
  <2>3. QED
    BY <2>1, <2>2, Advances DEF Milestones
<1>4. CASE SendMark(r)
  <2>1. /\ req[r].pc = "send.mark"
        /\ \/ Reach(l, "sent") /\ WritesRow(l)
           \/ UNCHANGED <<learner, history>>
    BY <1>4 DEF SendMark, At, WritesRow
  <2>2. l \in Learner
    BY <1>1, <2>1, Sending
  <2>3. QED
    BY <2>1, <2>2, Advances, Stutters DEF Milestones, history
<1>5. CASE UNCHANGED <<learner, past>>
  BY <1>5, Stutters
<1>6. QED
  BY <1>2, <1>3, <1>4, <1>5 DEF SendStep, SendEmailExists, SendEmailFree,
     SendUserConflict, SendReloadStudent, SendInsertStudent, SendUpdateStudent,
     SendStudentConflict, tables, history

LEMMA RecordProgress ==
  ASSUME CoreInv, CoreInv', NEW r \in Request, RecordStep(r)
  PROVE  ProgressStep
<1>. DEFINE l == req[r].learner
<1>1. RecordsInv
  BY DEF CoreInv
<1>2. CASE InsertLearner(r)
  <2>1. PICK k \in Learner : Reach(k, "created") /\ WritesRow(k)
    BY <1>2 DEF InsertLearner, WritesRow
  <2>2. QED
    BY <2>1, Advances DEF Milestones
<1>3. CASE MeetingMail(r)
  <2>1. Reach(l, "linked") /\ UNCHANGED learner /\ req[r].pc = "meeting.mail"
    BY <1>3 DEF MeetingMail, At, tables
  <2>2. l \in Learner
    BY <1>1, <2>1, Saving
  <2>3. QED
    BY <2>1, <2>2, Advances DEF Milestones
<1>4. CASE DeleteLearnerRow(r) \/ FlushInsert(r) \/ FlushUpdate(r)
  <2>1. /\ req[r].pc \in {"delete", "flush"} /\ past' = past
        /\ WritesRow(l) \/ UNCHANGED learner
    BY <1>4 DEF DeleteLearnerRow, FlushInsert, FlushUpdate, At, WritesRow, history
  <2>2. l \in Learner
    BY <1>1, <2>1, Mine DEF RequestTrue, LocalsSet, Awaits
  <2>3. QED
    BY <2>1, <2>2, Refreshes, Stutters
<1>5. CASE UNCHANGED <<learner, past>>
  BY <1>5, Stutters
<1>6. QED
  BY <1>2, <1>3, <1>4, <1>5 DEF RecordStep, DeleteRefused, Reload, tables, history

LEMMA FormProgress ==
  ASSUME NEW r \in Request, FormStep(r)
  PROVE  ProgressStep
  BY Stutters DEF FormStep, InsertSubmission, InsertRefused, ReloadForm,
     FlushForm, SaveFormFails, tables, history

LEMMA DecideProgress ==
  ASSUME CoreInv, CoreInv', NEW r \in Request, DecideStep(r)
  PROVE  ProgressStep
<1>1. CASE DecideCommit(r)
  <2>. DEFINE l == req[r].learner
              m == IF req[r].verdict = "Approved" THEN "approved" ELSE "rejected"
  <2>1. /\ req[r].pc = "decide.commit"
        /\ \/ Reach(l, m) /\ WritesRow(l)
           \/ UNCHANGED <<learner, history>>
    BY <1>1 DEF DecideCommit, At, WritesRow
  <2>2. l \in Learner
    BY <2>1, Deciding DEF DecideAwaits, CoreInv
  <2>3. QED
    BY <2>1, <2>2, Advances, Stutters DEF Milestones, history
<1>2. CASE UNCHANGED <<learner, past>>
  BY <1>2, Stutters
<1>3. QED
  BY <1>1, <1>2 DEF DecideStep, DecideFindStudent, DecideNoStudent, DecideBegin,
     DecideReload, tables, history

LEMMA NextProgress ==
  ASSUME CoreInv, CoreInv', [Next]_vars
  PROVE  [Progress!Next]_<<reachedBar, shownBar>>
<1>1. ProgressStep
  <2>1. CASE UNCHANGED vars
    BY <2>1, Stutters DEF vars
  <2>2. ASSUME NEW r \in Request, Fail(r)
        PROVE  ProgressStep
    BY <2>2, Stutters DEF Fail, tables, history
  <2>3. QED
    BY <2>1, <2>2, CallProgress, SendProgress, RecordProgress, FormProgress,
       DecideProgress DEF Next, HandlerStep
<1>2. QED
  BY <1>1 DEF ProgressStep, Stutter

LEMMA InitProgress == Init => Progress!Init
<1>. SUFFICES ASSUME Init
              PROVE  Progress!Init
  OBVIOUS
<1>1. \A l \in Learner : past[l] \in {{}, {"created"}}
  BY DEF Init
<1>2. \A l \in Learner : Shown(learner[l]) = {}
  <2>1. \A l \in Learner : \/ learner[l] = None
                           \/ \E e \in Email : learner[l] = NewLearner(e)
    BY DEF Init
  <2>2. QED
    BY <2>1, NewLearnerType DEF Shown
<1>3. QED
  BY <1>1, <1>2 DEF Progress!Init

\* However the requests interleave, fail or write stale columns back, what
\* the pipeline does to each learner is what Milestones allows.
THEOREM Implementation == Spec => ProgressSpec
<1>1. Init => Progress!Init
  BY InitProgress
<1>2. CoreInv /\ CoreInv' /\ [Next]_vars => [Progress!Next]_<<reachedBar, shownBar>>
  BY NextProgress
<1>3. QED
  BY <1>1, <1>2, CoreInvariant, PTL
     DEF Spec, ProgressSpec, Progress!Spec, reachedBar, shownBar
=============================================================================
