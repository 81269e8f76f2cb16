------------------------------- MODULE Office -------------------------------
(***************************************************************************)
(* The learners' records, the dashboards and the library together.         *)
(***************************************************************************)
EXTENDS Learners, Boards, Library

(***************************************************************************)
(* Initially there is a learner or none, on no board, on one, or on two    *)
(* after a crash; and no folder, or one with a document from before.       *)
(***************************************************************************)
Init ==
    /\ learners \in {<<>>} \cup {<<[email |-> e, mobile |-> m]>> : e \in Email, m \in Mobile \cup {None}}
    /\ boards \in [Board -> SUBSET (DOMAIN learners)]
    /\ boards["bksd"] \cap boards["inductor"] = {}
    /\ \/ folders = <<>> /\ documents = <<>>
       \/ /\ folders \in {<<[owner |-> u, parent |-> 0]>> : u \in User}
          /\ documents = <<[folder |-> 1, student |-> 0, file |-> None]>>
    /\ files = {None}
    /\ trashed = {}
    /\ req = [r \in Request |-> Fresh]

ClientCall(r) == LearnerCall(r) \/ BoardCall(r) \/ LibraryCall(r)
HandlerStep(r) == LearnerStep(r) \/ BoardStep(r) \/ LibraryStep(r)

Next == \E r \in Request : ClientCall(r) \/ HandlerStep(r) \/ Fail(r)

Spec == Init /\ [][Next]_vars

-----------------------------------------------------------------------------
(* Properties                                                               *)

\* The type invariant.
TypeOK ==
    /\ learners \in Seq(LearnerRow \cup {Gone})
    /\ boards \in [Board -> SUBSET (DOMAIN learners)]
    /\ folders \in Seq(FolderRow \cup {Gone})
    /\ documents \in Seq(DocumentRow \cup {Gone})
    /\ files \subseteq File /\ trashed \subseteq Log
    /\ DOMAIN req = Request /\ \A r \in Request : DOMAIN req[r] = DOMAIN Fresh

\* A learner that is on a board stays on one, also when a move fails or the
\* process dies between saving it to the next table and deleting it from its
\* own, or when several moves of one learner are under way.
StayOnBoards ==
    [][\A id \in UNION {boards[b] : b \in Board} : \E b \in Board : id \in boards'[b]]_boards

\* What a document links to is in the storage, also for the copies of a
\* document that has been deleted; only a link that was given may be wrong.
DocumentsHaveFiles ==
    \A d \in DOMAIN documents :
       Row(documents, d) => documents[d].file \in files \cup {"elsewhere"}

\* No folder is in a deleted folder, and no document, although the parent
\* and the folder are looked up before the insert.
InFolder(f) == f = 0 \/ Row(folders, f)
TreeIsWhole ==
    /\ \A f \in DOMAIN folders : Row(folders, f) => InFolder(folders[f].parent)
    /\ \A d \in DOMAIN documents : Row(documents, d) => InFolder(documents[d].folder)

\* No record is imported whose e-mail or mobile number a learner has, and has
\* had since the import was called, unless its lookup failed; a learner that
\* was edited or inserted again meanwhile is not one an import could find.
KnownAreNotImported ==
    \A r \in Request : At(r, "import.insert") =>
       \A k \in DOMAIN req[r].kept :
          LET i == req[r].kept[k] IN
          req[r].rest[i] # "failed" =>
             ~ \E id \in req[r].before : Row(learners, id) /\ Same(learners[id], req[r].valid[i])

\* What a handler holds across its awaits, whatever the others do meanwhile.
\* A move deletes a learner that is on the next board, or was moved on from
\* there by another request.
MoveTrue(q) ==
    /\ q.pc \in {"move.select", "move.insert", "move.delete"} => q.id \in DOMAIN learners
    /\ q.pc = "move.delete" =>
          /\ q.call = "moveStudentToAccessor" => q.id \in boards["accessor"] \cup boards["inductor"]
          /\ q.call = "moveStudentToInductor" => q.id \in boards["inductor"]

\* A record found to be free is not one of a learner there was at the call and
\* that nobody has edited; what is inserted was found to be free, or its lookup failed.
Unknown(q, i) == ~ \E id \in q.before : Row(learners, id) /\ Same(learners[id], q.valid[i])
ImportTrue(q) ==
    /\ q.pc \in {"create", "edit.select", "edit.insert", "edit.update"} => q.row \in LearnerRow
    /\ q.pc \in {"edit.select", "edit.insert", "edit.update"} => q.id \in DOMAIN learners
    /\ q.pc \in {"import.check", "import.insert"} =>
          /\ q.valid \in Seq(LearnerRow) /\ q.before \subseteq DOMAIN learners
          /\ q.rest \in Seq({"failed", "duplicate", "free"}) /\ Len(q.rest) <= Len(q.valid)
          /\ \A i \in DOMAIN q.rest : q.rest[i] = "free" => Unknown(q, i)
    /\ q.pc = "import.check" => Len(q.rest) < Len(q.valid)
    /\ q.pc = "import.insert" => q.kept \in Seq({i \in DOMAIN q.rest : q.rest[i] # "duplicate"})

\* A document links to its file once that is uploaded; a new folder will be
\* younger than its parent.
FilingTrue(q, r) ==
    /\ q.pc = "folder" => q.row \in FolderRow /\ q.row.parent <= Len(folders)
    /\ q.pc \in {"upload", "document", "assign.students", "assign.save"} => q.row \in DocumentRow
    /\ q.pc = "upload" => q.row.file = r
    /\ q.pc \in {"document", "assign.students", "assign.save"} => q.row.file \in files \cup {"elsewhere"}
    /\ q.pc = "assign.save" => q.rest \in Seq(Nat) \ {<<>>}
    /\ q.pc = "trash.find" => q.row \in Log \cup {None}
    /\ q.pc = "trash.save" => q.row \in Log

RequestTrue(r) == MoveTrue(req[r]) /\ ImportTrue(req[r]) /\ FilingTrue(req[r], r)
TablesTrue ==
    /\ DocumentsHaveFiles /\ TreeIsWhole
    /\ \A f \in DOMAIN folders : Row(folders, f) => folders[f].parent < f

\* The inductive invariant of the office.
OfficeInv == TypeOK /\ TablesTrue /\ \A r \in Request : RequestTrue(r)

\* The rows of a file that the records of an import come from.
ValidRows(u) == Ordered({k \in DOMAIN u.rows : \A e \in Processed[u].errors : e.row # k + 1})

\* What an import answers, unless it refuses the file.  A row of the file has
\* an error of its own, with the number of the row, or it is a record, and
\* the record is imported or has an error of its own, with the record's place.
Accounts(q) ==
    LET u == q.upload
        result == Processed[u]
    IN  \/ \E e \in q.errors : e.type \in {"CSV_PARSE_ERROR", "MISSING_COLUMN"}
        \/ \A k \in DOMAIN u.rows :
              \/ \E e \in q.errors \cap result.errors : e.row = k + 1
              \/ \E i \in DOMAIN result.valid :
                    /\ ValidRows(u)[i] = k /\ result.valid[i] = LearnerOf(u.rows[k], Columns(u.headers))
                    /\ \/ i \in Range(q.kept)
                       \/ \E e \in q.errors \ result.errors : e.row = i + 1
AnswerTrue(q) ==
    \/ q.upload = None /\ q.pc \notin {"import.check", "import.insert", "answered"}
    \/ /\ q.upload \in Uploads
       /\ \/ /\ q.pc = "import.check"
             /\ q.errors = Processed[q.upload].errors
             /\ Len(q.valid) = Len(Processed[q.upload].valid) /\ q.valid # <<>>
          \/ q.pc \in {"import.insert", "answered"} /\ Accounts(q)

\* The inductive invariant of the imports' answers.
ImportsInv == \A r \in Request : AnswerTrue(req[r])

\* Every row of a file that is not refused is imported, or there is an error
\* for it, and never one error for two rows.
RowsAreAnswered == \A r \in Request : At(r, "answered") => Accounts(req[r])

\* "+2 because array is 0-indexed and we skip header": the row of an error is
\* that of the file, so that every row that is not imported is named by one.
RowsAreNamed ==
    \A r \in Request : At(r, "answered") /\ Processed[req[r].upload].valid # <<>> =>
       LET u == req[r].upload
           imported == {ValidRows(u)[i] : i \in Range(req[r].kept)}
       IN  \A k \in DOMAIN u.rows \ imported : \E e \in req[r].errors : e.row = k + 1

\* Every column of a file has a header of its own.
OwnColumns(headers) ==
    \A i, j \in DOMAIN headers :
       i # j => headers[i][1] # headers[j][1] /\ headers[i][2] # headers[j][2]
\* The files whose columns are found by name are of that kind.
NamedOwnColumns == \A u \in Uploads : ~ UsePositional(u.headers) => OwnColumns(u.headers)

\* What a file gives with its columns in the opposite order.
InOrder(s, order) == [i \in DOMAIN s |-> s[order[i]]]
Backwards == [u \in {v \in Uploads : Parses(v.headers, v.rows)} |->
    LET order == [i \in DOMAIN u.headers |-> Len(u.headers) + 1 - i]
    IN  ProcessLearnerCSV(InOrder(u.headers, order), [k \in DOMAIN u.rows |-> InOrder(u.rows[k], order)])]
\* With a header of its own for each column, a file gives the same learners
\* with its columns in another order.
ColumnOrderIsFree ==
    \A r \in Request :
       At(r, "import.check") /\ ~ UsePositional(req[r].upload.headers) =>
          Processed[req[r].upload] = Backwards[req[r].upload]
=============================================================================
