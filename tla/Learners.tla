------------------------------ MODULE Learners ------------------------------
(***************************************************************************)
(* RecruiterService: createLearner, editInformation, deleteStudent and     *)
(* importLearners over the e-mails and mobile numbers of the learners,     *)
(* which no index keeps distinct.                                          *)
(***************************************************************************)
EXTENDS Records

LearnerUnchanged == UNCHANGED <<boards, folders, documents, files, trashed>>

\* RecruiterRepository.findLearner: by e-mail or by mobile number, in any
\* school; an empty mobile number is not looked for.
Same(a, b) == a.email = b.email \/ (a.mobile # None /\ a.mobile = b.mobile)
Exists(row) == \E id \in DOMAIN learners : Row(learners, id) /\ Same(learners[id], row)

\* Mutant of Brief: the two columns are swapped.
BriefSwapped(record) == [email |-> record["mobile_number"], mobile |-> record["email"]]
Brief(record) == [email |-> record["email"], mobile |-> record["mobile_number"]]

CreateLearner(r) ==
    /\ \E e \in Email, m \in Mobile :
          LET row == [email |-> e, mobile |-> m]
          IN  Enter(r, "createLearner", IF Exists(row) THEN [Fresh EXCEPT !.pc = "over"]
                                        ELSE [Fresh EXCEPT !.pc = "create", !.row = row])
    /\ UNCHANGED tables

CreateInsert(r) ==
    /\ At(r, "create")
    /\ learners' = Append(learners, req[r].row)
    /\ Return(r) /\ LearnerUnchanged

DeleteStudent(r) ==
    /\ \E id \in DOMAIN learners :
          Row(learners, id) /\ Enter(r, "deleteStudent", [Fresh EXCEPT !.pc = "remove", !.id = id])
    /\ UNCHANGED tables

DeleteStudentRow(r) ==
    /\ At(r, "remove")
    /\ learners' = [learners EXCEPT ![req[r].id] = Gone]
    /\ Return(r) /\ LearnerUnchanged

-----------------------------------------------------------------------------
(* editInformation preloads the row, takes over what it was given and saves *)
(* the entity, whose two columns are written if they differ from the row by *)
(* then; a row that has gone is inserted again.  Nobody is looked up.  The  *)
(* other teams' handlers that save a learner (LearnerRecord) do the same,   *)
(* in these columns, as an edit that is given neither.                      *)

EditInformation(r) ==
    /\ \E id \in DOMAIN learners :
          /\ Row(learners, id)
          /\ \E e \in Email : \E m \in Mobile \cup {learners[id].mobile} :
                Enter(r, "editInformation",
                   [Fresh EXCEPT !.pc = "edit.select", !.id = id, !.row = [email |-> e, mobile |-> m]])
    /\ UNCHANGED tables

EditSelect(r) ==
    /\ At(r, "edit.select")
    /\ LET id == req[r].id IN
       req' = [req EXCEPT ![r] =
          IF Row(learners, id) THEN [req[r] EXCEPT !.pc = "edit.update", !.dirty = Dirty(req[r].row, learners[id])]
          ELSE [req[r] EXCEPT !.pc = "edit.insert"]]
    /\ UNCHANGED tables

\* The learner is written and the handler returns; the learner is no longer
\* the one that the imports under way have found or not.
Write(r, row) ==
    LET id == req[r].id
        changed == IF learners[id] = row THEN {} ELSE {id}
    IN  /\ learners' = [learners EXCEPT ![id] = row]
        /\ req' = [q \in Request |-> IF q = r THEN Over(req[r])
                                     ELSE [req[q] EXCEPT !.before = @ \ changed]]

\* A row of that id that is there again is a duplicate key.
EditInsert(r) ==
    /\ At(r, "edit.insert")
    /\ IF Row(learners, req[r].id) THEN Return(r) /\ UNCHANGED learners ELSE Write(r, req[r].row)
    /\ LearnerUnchanged

\* An UPDATE of a row that has gone finds nothing.
EditUpdate(r) ==
    /\ At(r, "edit.update")
    /\ LET id == req[r].id IN
       IF Row(learners, id) THEN Write(r, WriteBack(learners[id], req[r].row, req[r].dirty))
       ELSE Return(r) /\ UNCHANGED learners
    /\ LearnerUnchanged

-----------------------------------------------------------------------------
(* importLearners: the file is parsed and validated, each valid record is   *)
(* looked up, one transaction inserts the records that are left.            *)

Answered(local, kept) == [local EXCEPT !.pc = "answered", !.kept = kept, !.before = {}, !.rest = <<>>,
                                          !.valid = <<>>]

NotParsed == [valid |-> <<>>, errors |-> {[row |-> 1, field |-> "none", type |-> "CSV_PARSE_ERROR"]}]
Processed == [u \in Uploads |->
    IF Parses(u.headers, u.rows) THEN ProcessLearnerCSV(u.headers, u.rows) ELSE NotParsed]

ImportLearners(r) ==
    /\ \E u \in Uploads :
         LET result == Processed[u]
             local == [ Fresh EXCEPT !.pc = "import.check", !.upload = u, !.errors = result.errors,
                          !.valid = [k \in DOMAIN result.valid |-> Brief(result.valid[k])],
                          !.before = {id \in DOMAIN learners : Row(learners, id)} ]
         IN  Enter(r, "importLearners", IF result.valid = <<>> THEN Answered(local, <<>>) ELSE local)
    /\ UNCHANGED tables

\* The next record of checkForDuplicates: rest holds what the lookups so far
\* have found.  An error has the place of the record among the valid ones,
\* plus the line of the headers, for its row.
Looked(r) == Len(req[r].rest) + 1
LookupErrors(local) ==
    {[row |-> i + 1, field |-> "none", type |-> "INVALID_VALUE"] :
        i \in {j \in DOMAIN local.rest : local.rest[j] = "failed"}} \cup
    {[row |-> i + 1, field |-> "email or mobile number", type |-> "DUPLICATE"] :
        i \in {j \in DOMAIN local.rest : local.rest[j] = "duplicate"}}

\* Mutant of ImportedIndices: the list without the duplicates is not taken over.
ImportedIndicesAll(local) == DOMAIN local.rest
\* What is imported: without a duplicate the records as they were, and the
\* errors of the lookups are forgotten; with one, those found to be free.
ImportedIndices(local) ==
    IF \E i \in DOMAIN local.rest : local.rest[i] = "duplicate"
    THEN {i \in DOMAIN local.rest : local.rest[i] = "free"}
    ELSE DOMAIN local.rest
\* Mutant of Reported: the errors of the duplicates are not added.
ReportedForgotten(local) == local.errors
Reported(local) ==
    IF \E i \in DOMAIN local.rest : local.rest[i] = "duplicate"
    THEN local.errors \cup LookupErrors(local) ELSE local.errors

\* After the last lookup: the answer that all are duplicates, or the insert.
CheckOver(local) ==
    LET kept == Ordered(ImportedIndices(local))
        done == [local EXCEPT !.errors = Reported(local), !.kept = kept]
    IN  IF kept = <<>> THEN Answered(done, <<>>) ELSE [done EXCEPT !.pc = "import.insert"]

CheckRecord(r) ==
    /\ At(r, "import.check")
    /\ \E found \in {"failed", IF Exists(req[r].valid[Looked(r)]) THEN "duplicate" ELSE "free"} :
         LET local == [req[r] EXCEPT !.rest = Append(@, found)]
         IN  req' = [req EXCEPT ![r] = IF Len(local.rest) = Len(local.valid) THEN CheckOver(local) ELSE local]
    /\ UNCHANGED tables

ImportInsert(r) ==
    /\ At(r, "import.insert")
    /\ learners' = learners \o [k \in DOMAIN req[r].kept |-> req[r].valid[req[r].kept[k]]]
    /\ req' = [req EXCEPT ![r] = Answered(@, @.kept)]
    /\ LearnerUnchanged

LearnerCall(r) == CreateLearner(r) \/ EditInformation(r) \/ DeleteStudent(r) \/ ImportLearners(r)
LearnerStep(r) ==
    \/ CreateInsert(r) \/ EditSelect(r) \/ EditInsert(r) \/ EditUpdate(r) \/ DeleteStudentRow(r)
    \/ CheckRecord(r) \/ ImportInsert(r)
=============================================================================
