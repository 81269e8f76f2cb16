------------------------------ MODULE Records ------------------------------
(***************************************************************************)
(* The shared state of an office: the learners, the boards they are on,    *)
(* the folders and documents, the stored files, the log, and the HTTP      *)
(* requests.  Learners, Boards and Library give the handlers' steps.  None *)
(* of the handlers holds a lock across an await: every statement commits.  *)
(***************************************************************************)
EXTENDS CsvMapping, Orm

CONSTANTS
    Request,     \* the requests clients make
    User,        \* ids of the users who make them
    Log,         \* ids of the log entries there are
    Uploads,     \* the CSV files that are imported
    Calls,       \* the handlers that are called in this instance
    Gone         \* a row that has been deleted

CallNames == {"createLearner", "editInformation", "deleteStudent", "importLearners", "moveStudent",
    "moveStudentToAccessor", "moveStudentToInductor", "createFolder", "deleteFolder",
    "createDocument", "uploadDocument", "uploadDocumentToFolder", "saveSchoolDocument",
    "deleteDocument", "assignDocumentToStudents", "moveToTrash"}

ASSUME RecordsAssumption ==
    /\ Calls \subseteq CallNames
    /\ \A u \in Uploads : u.headers \in Seq(STRING \X STRING) /\ u.rows \in Seq(Seq(Cell))

VARIABLES
    learners,    \* the prospective_students table
    boards,      \* the dashboard tables: the ids of the learners on each
    folders,     \* the folders table
    documents,   \* the documents table
    files,       \* the files in the storage bucket
    trashed,     \* the entries of the app_logs table that have a deletedAt
    req          \* the requests: the handler's position and its locals

tables == <<learners, boards, folders, documents, files, trashed>>
vars   == <<learners, boards, folders, documents, files, trashed, req>>

(* A table is a sequence in the order of insertion: the id of a row is its  *)
(* position, which is never given twice, and 0 is no row.                   *)
Row(table, id) == id \in DOMAIN table /\ table[id] # Gone

Board == {"bksd", "accessor", "inductor"}
\* An import takes any cell for a mobile number.
LearnerRow == [email : Email, mobile : Cell]
FolderRow == [owner : User, parent : Nat]
\* A file is named after the request that uploaded it, None is one from
\* before; a link that createDocument was given may lead anywhere.
File == Request \cup {None}
DocumentRow == [folder : Nat, student : Nat, file : File \cup {"elsewhere"}]

ASSUME GoneAssumption == Gone \notin LearnerRow \cup FolderRow \cup DocumentRow

\* The locals of a handler, and of an import also what it answers; before is
\* history: the learners there were at the call and have not changed since.
Fresh == [ call |-> None, pc |-> "idle", id |-> 0, row |-> None, dirty |-> {}, rest |-> <<>>,
           before |-> {}, upload |-> None, valid |-> <<>>, errors |-> {}, kept |-> <<>> ]

At(r, p) == req[r].pc = p
Goto(r, p) == req' = [req EXCEPT ![r].pc = p]
Enter(r, name, locals) ==
    /\ At(r, "idle") /\ name \in Calls
    /\ req' = [req EXCEPT ![r] = [locals EXCEPT !.call = name]]
\* What an import has answered is kept, what the others answer is not.
Over(local) == [Fresh EXCEPT !.call = local.call, !.pc = "over"]
Return(r) == req' = [req EXCEPT ![r] = Over(req[r])]
Running == {r \in Request : req[r].pc \notin {"idle", "over", "answered"}}

\* The process dies, and every handler with it, wherever it is.
ProcessDies == req' = [r \in Request |-> IF r \in Running THEN Over(req[r]) ELSE req[r]]

(* A query or the storage fails.  The handler throws and answers with an    *)
(* error, but for three: the lookups of an import and the saves of an       *)
(* assignment are in a try block of their own, and nobody awaits            *)
(* moveToTrash, whose rejection ends the process.                           *)
Guarded == {"import.check", "assign.save"}
Unawaited == {"trash.find", "trash.save"}

Fail(r) ==
    /\ r \in Running /\ req[r].pc \notin Guarded
    /\ IF req[r].pc \in Unawaited THEN ProcessDies ELSE Return(r)
    /\ UNCHANGED tables
=============================================================================
