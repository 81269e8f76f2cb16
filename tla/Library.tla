------------------------------ MODULE Library ------------------------------
(***************************************************************************)
(* AdminService and AdminRepository: folders, documents and the log.       *)
(***************************************************************************)
EXTENDS Records

LibraryUnchanged == UNCHANGED <<learners, boards, files, trashed>>

\* The folder and everything below it: a folder is younger than its parent.
Below(f) ==
    LET in[g \in DOMAIN folders] ==
          Row(folders, g) /\ (g = f \/ (folders[g].parent # 0 /\ in[folders[g].parent]))
    IN  {g \in DOMAIN folders : in[g]}

\* Mutant of FolderThere: a migration without the foreign key.
FolderThereUnchecked(f) == TRUE
\* documents.folderId references folders, the other columns do not count.
FolderThere(f) == f = 0 \/ Row(folders, f)
Insert(row) == documents' = Append(documents, row)

-----------------------------------------------------------------------------
(* createFolder looks for the parent, in any user's folders, before it      *)
(* inserts; the parent may be deleted in between.                           *)

CreateFolder(r) ==
    /\ \E u \in User : \E p \in {0} \cup {f \in DOMAIN folders : Row(folders, f)} :
          Enter(r, "createFolder", [Fresh EXCEPT !.pc = "folder", !.row = [owner |-> u, parent |-> p]])
    /\ UNCHANGED tables

InsertFolder(r) ==
    /\ At(r, "folder")
    /\ folders' = IF FolderThere(req[r].row.parent) THEN Append(folders, req[r].row) ELSE folders
    /\ Return(r)
    /\ UNCHANGED documents /\ LibraryUnchanged

\* deleteFolder: the folders below it go with it, their documents stay
\* without a folder.
DeleteFolder(r) ==
    /\ \E f \in DOMAIN folders :
          Row(folders, f) /\ Enter(r, "deleteFolder", [Fresh EXCEPT !.pc = "folder.delete", !.id = f])
    /\ UNCHANGED tables

DeleteFolderRow(r) ==
    /\ At(r, "folder.delete")
    /\ LET deleted == Below(req[r].id)
       IN  /\ folders' = [f \in DOMAIN folders |-> IF f \in deleted THEN Gone ELSE folders[f]]
           /\ documents' = [d \in DOMAIN documents |->
                IF documents[d] # Gone /\ documents[d].folder \in deleted
                THEN [documents[d] EXCEPT !.folder = 0] ELSE documents[d]]
    /\ Return(r) /\ LibraryUnchanged

-----------------------------------------------------------------------------
(* createDocument is given a link to a file; uploadDocumentToFolder takes   *)
(* one of the user's own folders, puts the file in the storage bucket and   *)
(* then inserts; uploadDocument and saveSchoolDocument have no folder.      *)

CreateDocument(r) ==
    /\ \E f \in DOMAIN folders : \E link \in files \cup {"elsewhere"} :
          /\ Row(folders, f)
          /\ Enter(r, "createDocument",
                [Fresh EXCEPT !.pc = "document", !.row = [folder |-> f, student |-> 0, file |-> link]])
    /\ UNCHANGED tables

UploadDocumentToFolder(r) ==
    /\ \E u \in User : \E f \in DOMAIN folders :
          /\ Row(folders, f)
          /\ Enter(r, "uploadDocumentToFolder", IF folders[f].owner # u THEN [Fresh EXCEPT !.pc = "over"]
                ELSE [Fresh EXCEPT !.pc = "upload", !.row = [folder |-> f, student |-> 0, file |-> r]])
    /\ UNCHANGED tables

\* The two differ in the school, which only one of them saves.
UploadUnfiled(r, name) ==
    /\ Enter(r, name, [Fresh EXCEPT !.pc = "upload", !.row = [folder |-> 0, student |-> 0, file |-> r]])
    /\ UNCHANGED tables
UploadDocument(r) == UploadUnfiled(r, "uploadDocument")
SaveSchoolDocument(r) == UploadUnfiled(r, "saveSchoolDocument")

Upload(r) ==
    /\ At(r, "upload")
    /\ files' = files \cup {r}
    /\ Goto(r, "document")
    /\ UNCHANGED <<learners, boards, folders, documents, trashed>>

InsertDocument(r) ==
    /\ At(r, "document")
    /\ IF FolderThere(req[r].row.folder) THEN Insert(req[r].row) ELSE UNCHANGED documents
    /\ Return(r)
    /\ UNCHANGED folders /\ LibraryUnchanged

\* deleteDocument leaves the file: copies of the document link to it.
DeleteDocument(r) ==
    /\ \E d \in DOMAIN documents :
          Row(documents, d) /\ Enter(r, "deleteDocument", [Fresh EXCEPT !.pc = "document.delete", !.id = d])
    /\ UNCHANGED tables

\* Mutant of DeleteDocumentRow: the file is deleted with the document.
DeleteDocumentRowAndFile(r) ==
    /\ At(r, "document.delete")
    /\ files' = IF Row(documents, req[r].id) THEN files \ {documents[req[r].id].file} ELSE files
    /\ documents' = [documents EXCEPT ![req[r].id] = Gone]
    /\ Return(r)
    /\ UNCHANGED <<learners, boards, folders, trashed>>
DeleteDocumentRow(r) ==
    /\ At(r, "document.delete")
    /\ documents' = [documents EXCEPT ![req[r].id] = Gone]
    /\ Return(r)
    /\ UNCHANGED folders /\ LibraryUnchanged

-----------------------------------------------------------------------------
(* assignDocumentToStudents: a copy of the document, as it was found, for   *)
(* each student, all of whom must exist; a copy that is not saved is        *)
(* skipped.                                                                 *)

AssignDocumentToStudents(r) ==
    /\ \E d \in DOMAIN documents :
          /\ Row(documents, d)
          /\ Enter(r, "assignDocumentToStudents", [Fresh EXCEPT !.pc = "assign.students", !.row = documents[d]])
    /\ UNCHANGED tables

AssignStudents(r) ==
    /\ At(r, "assign.students")
    /\ \E ids \in (SUBSET DOMAIN learners) \ {{}} :
          IF \E id \in ids : ~ Row(learners, id) THEN Return(r)
          ELSE req' = [req EXCEPT ![r].pc = "assign.save", ![r].rest = Ordered(ids)]
    /\ UNCHANGED tables

AssignSave(r) ==
    /\ At(r, "assign.save")
    /\ \/ /\ FolderThere(req[r].row.folder)
          /\ Insert([req[r].row EXCEPT !.student = Head(req[r].rest)])
       \/ UNCHANGED documents
    /\ IF Len(req[r].rest) = 1 THEN Return(r) ELSE req' = [req EXCEPT ![r].rest = Tail(@)]
    /\ UNCHANGED folders /\ LibraryUnchanged

-----------------------------------------------------------------------------
(* moveToTrash is answered at once and goes on by itself; without a row of  *)
(* that id it ends in a TypeError that nobody catches.                      *)

MoveToTrash(r) ==
    /\ \E l \in Log \cup {None} : Enter(r, "moveToTrash", [Fresh EXCEPT !.pc = "trash.find", !.row = l])
    /\ UNCHANGED tables

TrashFind(r) ==
    /\ At(r, "trash.find")
    /\ IF req[r].row = None THEN ProcessDies ELSE Goto(r, "trash.save")
    /\ UNCHANGED tables

TrashSave(r) ==
    /\ At(r, "trash.save")
    /\ trashed' = trashed \cup {req[r].row}
    /\ Return(r)
    /\ UNCHANGED <<learners, boards, folders, documents, files>>

LibraryCall(r) ==
    \/ CreateFolder(r) \/ DeleteFolder(r) \/ CreateDocument(r) \/ UploadDocumentToFolder(r)
    \/ UploadDocument(r) \/ SaveSchoolDocument(r) \/ DeleteDocument(r)
    \/ AssignDocumentToStudents(r) \/ MoveToTrash(r)
LibraryStep(r) ==
    \/ InsertFolder(r) \/ DeleteFolderRow(r) \/ Upload(r) \/ InsertDocument(r) \/ DeleteDocumentRow(r)
    \/ AssignStudents(r) \/ AssignSave(r) \/ TrashFind(r) \/ TrashSave(r)
=============================================================================
