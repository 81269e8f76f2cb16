------------------------------- MODULE Forms -------------------------------
(***************************************************************************)
(* The learner's forms (FormService).  The entities a handler saves are in *)
(* req[r].forms; Promise.all starts one save() per entity, and each runs   *)
(* its SELECT and its UPDATE on its own.  The form templates exist and are *)
(* active.                                                                 *)
(***************************************************************************)
EXTENDS Tables

\* Promise.all(entities.map(save)): entities[s] # None is saved.
SaveForms(r, l, entities) ==
    /\ req' = [req EXCEPT ![r] =
          [Holding("form.save", l, None) EXCEPT
             !.forms = entities,
             !.formPhase = [s \in Submission |->
                              IF entities[s] = None THEN "none" ELSE "save"]]]
    /\ UNCHANGED <<tables, locks, past>>

CreateSubmission(r, l) ==
    /\ Call(r, "createSubmission")
    /\ learner[l] # None
    /\ req' = [req EXCEPT ![r] = Holding("form.insert", l, None)]
    /\ UNCHANGED <<tables, locks, history>>

InsertSubmission(r) ==
    /\ At(r, "form.insert")
    /\ learner[req[r].learner] # None
    /\ \E s \in Submission, data \in SUBSET Answer :
          /\ submission[s] = None
          /\ submission' = [submission EXCEPT ![s] =
                [ student |-> req[r].learner, status |-> "draft",
                  is_submitted |-> FALSE, data |-> data ]]
    /\ Return(r)
    /\ UNCHANGED <<learner, users, issued, student, locks, history>>

\* The learner has been deleted: the foreign key refuses the INSERT.
InsertRefused(r) ==
    /\ At(r, "form.insert")
    /\ learner[req[r].learner] = None
    /\ Return(r)
    /\ UNCHANGED <<tables, locks, history>>

\* The check that the submission is a draft is commented out; the answers
\* are merged into the ones that were loaded.
UpdateDraft(r, s, answer) ==
    /\ Call(r, "updateDraft")
    /\ submission[s] # None
    /\ SaveForms(r, submission[s].student,
                 [NoForms EXCEPT ![s] =
                    [submission[s] EXCEPT !.data = @ \cup {answer}]])
    /\ UNCHANGED turnedIn

\* All the learner's submissions, whatever their status.
SubmitForm(r, l) ==
    /\ Call(r, "submitForm")
    /\ SubmissionsOf(l) # {}
    /\ SaveForms(r, l,
                 [s \in Submission |->
                    IF s \in SubmissionsOf(l)
                      THEN [submission[s] EXCEPT !.status = "submitted",
                                                 !.is_submitted = TRUE]
                      ELSE None])
    /\ turnedIn' = turnedIn \cup SubmissionsOf(l)

\* Mutant of ReviewSubmission: the lookup does not ask for 'submitted'.
ReviewSubmissionOfAny(r, s, status) ==
    /\ Call(r, "reviewSubmission")
    /\ submission[s] # None
    /\ SaveForms(r, submission[s].student,
                 [NoForms EXCEPT ![s] = [submission[s] EXCEPT !.status = status]])
    /\ UNCHANGED turnedIn

ReviewSubmission(r, s, status) ==
    /\ Call(r, "reviewSubmission")
    /\ submission[s] # None
    /\ submission[s].status = "submitted"
    /\ SaveForms(r, submission[s].student,
                 [NoForms EXCEPT ![s] = [submission[s] EXCEPT !.status = status]])
    /\ UNCHANGED turnedIn

-----------------------------------------------------------------------------
\* The SELECT of save(submission); submissions are never deleted.
ReloadForm(r, s) ==
    /\ At(r, "form.save")
    /\ req[r].formPhase[s] = "save"
    /\ req' = [req EXCEPT ![r] =
                  [@ EXCEPT
                     !.formPhase[s] = "update",
                     !.formDirty[s] = Dirty(req[r].forms[s], submission[s])]]
    /\ UNCHANGED <<tables, locks, history>>

\* The save of s is over; the handler returns when it was the last.
SaveOver(r, s) ==
    IF \A t \in Submission \ {s} : req[r].formPhase[t] = "none"
      THEN Return(r)
      ELSE req' = [req EXCEPT ![r] =
                     [@ EXCEPT !.formPhase[s] = "none",
                               !.formDirty[s] = {},
                               !.forms[s] = None]]

FlushForm(r, s) ==
    /\ At(r, "form.save")
    /\ req[r].formPhase[s] = "update"
    /\ submission' = [submission EXCEPT ![s] =
          WriteBack(@, req[r].forms[s], req[r].formDirty[s])]
    /\ SaveOver(r, s)
    /\ UNCHANGED <<learner, users, issued, student, locks, history>>

\* One save of several fails: the handler throws, the other saves go on.
SaveFormFails(r, s) ==
    /\ At(r, "form.save")
    /\ req[r].formPhase[s] # "none"
    /\ SaveOver(r, s)
    /\ UNCHANGED <<tables, locks, history>>

FormStep(r) ==
    \/ InsertSubmission(r)
    \/ InsertRefused(r)
    \/ \E s \in Submission :
          \/ ReloadForm(r, s)
          \/ FlushForm(r, s)
          \/ SaveFormFails(r, s)

FormCall(r) ==
    \/ \E l \in Learner : CreateSubmission(r, l) \/ SubmitForm(r, l)
    \/ \E s \in Submission :
          \/ \E answer \in Answer : UpdateDraft(r, s, answer)
          \/ \E status \in SubmissionStatus : ReviewSubmission(r, s, status)
=============================================================================
