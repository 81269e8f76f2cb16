---------------------------- MODULE LearnerRecord ----------------------------
(***************************************************************************)
(* The handlers that load a prospective_students row, change a field in    *)
(* memory and save the whole entity: the recruiter's, the inductor's, the  *)
(* lazer, certificate and archive teams'.  The recruiter also creates and  *)
(* deletes rows.                                                           *)
(***************************************************************************)
EXTENDS Tables

\* findOne(...) has returned; save(entity) is the next await.
LoadAndSave(r, l, entity) ==
    /\ req' = [req EXCEPT ![r] = Holding("save", l, entity)]
    /\ UNCHANGED <<tables, locks>>

-----------------------------------------------------------------------------
(* Recruiter.  An e-mail stands for the e-mail and mobile number together.  *)

\* findLearner finds nobody with this e-mail (else 'Email or mobile number
\* already exist').
CreateLearner(r, e) ==
    /\ Call(r, "createLearner")
    /\ \A l \in Learner : learner[l] # None => learner[l].email # e
    /\ req' = [req EXCEPT ![r] = Holding("create.insert", None, NewLearner(e))]
    /\ UNCHANGED <<tables, locks, history>>

\* INSERT with a new id: nothing in the table makes e-mails unique.
InsertLearner(r) ==
    /\ At(r, "create.insert")
    /\ \E l \in Learner :
          /\ past[l] = {}
          /\ learner' = [learner EXCEPT ![l] = req[r].entity]
          /\ Reach(l, "created")
    /\ Return(r)
    /\ UNCHANGED <<users, issued, student, submission, locks>>

EditInformation(r, l, e) ==
    /\ Call(r, "editInformation")
    /\ learner[l] # None
    /\ LoadAndSave(r, l, [learner[l] EXCEPT !.email = e])
    /\ UNCHANGED history

DeleteStudent(r, l) ==
    /\ Call(r, "deleteStudent")
    /\ learner[l] # None
    /\ req' = [req EXCEPT ![r] = Holding("delete", l, None)]
    /\ UNCHANGED <<tables, locks, history>>

\* Mutant of DeleteLearnerRow: no foreign key refers to the row.
DeleteLearnerRowUnreferenced(r) ==
    /\ At(r, "delete")
    /\ Writable(req[r].learner)
    /\ learner' = [learner EXCEPT ![req[r].learner] = None]
    /\ Return(r)
    /\ UNCHANGED <<users, issued, student, submission, locks, history>>

DeleteLearnerRow(r) ==
    /\ At(r, "delete")
    /\ SubmissionsOf(req[r].learner) = {}
    /\ Writable(req[r].learner)
    /\ learner' = [learner EXCEPT ![req[r].learner] = None]
    /\ Return(r)
    /\ UNCHANGED <<users, issued, student, submission, locks, history>>

\* form_submissions.student_id refers to the row: the DELETE throws.
DeleteRefused(r) ==
    /\ At(r, "delete")
    /\ SubmissionsOf(req[r].learner) # {}
    /\ Return(r)
    /\ UNCHANGED <<tables, locks, history>>

-----------------------------------------------------------------------------
(* Inductor: both handlers look the learner up with application_status      *)
(* 'Approved'.                                                              *)

\* Mutant of SendMeetingLink: the lookup does not ask for 'Approved'.
SendMeetingLinkToAnyone(r, l) ==
    /\ Call(r, "sendMeetingLink")
    /\ learner[l] # None
    /\ req' = [req EXCEPT ![r] = Holding("meeting.mail", l, learner[l])]
    /\ UNCHANGED <<tables, locks, history>>

SendMeetingLink(r, l) ==
    /\ Call(r, "sendMeetingLink")
    /\ learner[l] # None
    /\ learner[l].application_status = "Approved"
    /\ req' = [req EXCEPT ![r] = Holding("meeting.mail", l, learner[l])]
    /\ UNCHANGED <<tables, locks, history>>

\* The meeting mail has been taken; inductor_status is set on the entity
\* that was loaded before it.
MeetingMail(r) ==
    /\ At(r, "meeting.mail")
    /\ req' = [req EXCEPT ![r] =
                  [@ EXCEPT !.pc = "save", !.entity.inductor_status = "Sent"]]
    /\ Reach(req[r].learner, "linked")
    /\ UNCHANGED <<tables, locks>>

UpdateAttendanceStatus(r, l, status) ==
    /\ Call(r, "updateAttendanceStatus")
    /\ learner[l] # None
    /\ learner[l].application_status = "Approved"
    /\ LoadAndSave(r, l, [learner[l] EXCEPT !.attendance_status = status])
    /\ \/ status = "present" /\ Reach(l, "present")
       \/ status = "absent" /\ UNCHANGED history

-----------------------------------------------------------------------------
(* Lazer, certificate and archive: no status is required of the learner.    *)

ApproveLazer(r, l) ==
    /\ Call(r, "approveLazer")
    /\ learner[l] # None
    /\ LoadAndSave(r, l, [learner[l] EXCEPT !.lazer_status = "Approved"])
    /\ UNCHANGED history

ApproveCertificate(r, l) ==
    /\ Call(r, "approveCertificate")
    /\ learner[l] # None
    /\ LoadAndSave(r, l, [learner[l] EXCEPT !.certificate_status = "Approved"])
    /\ UNCHANGED history

ArchiveStudent(r, l) ==
    /\ Call(r, "archiveStudent")
    /\ learner[l] # None
    /\ LoadAndSave(r, l, [learner[l] EXCEPT !.is_archived = TRUE])
    /\ UNCHANGED history

UnarchiveStudent(r, l) ==
    /\ Call(r, "unarchiveStudent")
    /\ learner[l] # None
    /\ learner[l].is_archived
    /\ LoadAndSave(r, l, [learner[l] EXCEPT !.is_archived = FALSE])
    /\ UNCHANGED history

-----------------------------------------------------------------------------
(* learnerRepository.save(entity). *)

Reload(r) ==
    /\ At(r, "save")
    /\ LET row == learner[req[r].learner] IN
          req' = [req EXCEPT ![r] =
                    [@ EXCEPT
                       !.pc = "flush",
                       !.insert = (row = None),
                       !.dirty = IF row = None THEN {}
                                 ELSE Dirty(req[r].entity, row)]]
    /\ UNCHANGED <<tables, locks, history>>

\* The row was gone when save() looked: it is inserted again, whole.
FlushInsert(r) ==
    /\ At(r, "flush")
    /\ req[r].insert
    /\ \/ /\ learner[req[r].learner] = None
          /\ learner' = [learner EXCEPT ![req[r].learner] = req[r].entity]
       \/ /\ learner[req[r].learner] # None    \* duplicate key: throws
          /\ UNCHANGED learner
    /\ Return(r)
    /\ UNCHANGED <<users, issued, student, submission, locks, history>>

FlushUpdate(r) ==
    /\ At(r, "flush")
    /\ ~req[r].insert
    /\ LET l == req[r].learner IN
          \/ /\ learner[l] # None
             /\ req[r].dirty # {} => Writable(l)
             /\ learner' = [learner EXCEPT ![l] =
                               WriteBack(@, req[r].entity, req[r].dirty)]
          \/ /\ learner[l] = None              \* no row to update
             /\ UNCHANGED learner
    /\ Return(r)
    /\ UNCHANGED <<users, issued, student, submission, locks, history>>

RecordStep(r) ==
    \/ InsertLearner(r)
    \/ DeleteLearnerRow(r)
    \/ DeleteRefused(r)
    \/ MeetingMail(r)
    \/ Reload(r)
    \/ FlushInsert(r)
    \/ FlushUpdate(r)

RecordCall(r) ==
    \/ \E e \in Email : CreateLearner(r, e)
    \/ \E l \in Learner :
          \/ \E e \in Email : EditInformation(r, l, e)
          \/ DeleteStudent(r, l)
          \/ SendMeetingLink(r, l)
          \/ \E status \in {"present", "absent"} :
                UpdateAttendanceStatus(r, l, status)
          \/ ApproveLazer(r, l)
          \/ ApproveCertificate(r, l)
          \/ ArchiveStudent(r, l)
          \/ UnarchiveStudent(r, l)
=============================================================================
