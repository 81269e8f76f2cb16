------------------------------ MODULE Staffing ------------------------------
(***************************************************************************)
(* AdminService: staff are entered with createStaff, given a role and an   *)
(* account with assignRoles (one transaction for the whole batch, with the *)
(* mails inside), and lose the account with deleteUser.                    *)
(***************************************************************************)
EXTENDS Directory

NewStaff(e) == [email |-> e, status |-> "unassigned", username |-> None]

\* saveStaffEmails: all rows in one transaction; an e-mail may come again.
CreateStaff(r) ==
    /\ Enter(r, "createStaff", [Fresh EXCEPT !.pc = "done"])
    /\ \E new \in SUBSET {s \in Staff : staff[s] = None} : \E e \in [new -> Email] :
          staff' = Over([s \in new |-> NewStaff(e[s])], staff)
    /\ UNCHANGED <<users, draft, redis, history>>

-----------------------------------------------------------------------------
(* assignRoles *)

AssignRoles(r) ==
    /\ \E b \in Batches : Enter(r, "assignRoles", [Fresh EXCEPT !.pc = "assign.find", !.rest = b])
    /\ UNCHANGED <<tables, redis, history>>

Next1(r) == Head(req[r].rest)

\* Unknown staff are passed over.
AssignSkip(r) ==
    /\ At(r, "assign.find") /\ req[r].rest # <<>>
    /\ SeenStaff(r)[Next1(r)[1]] = None
    /\ req' = [req EXCEPT ![r].rest = Tail(@)]
    /\ UNCHANGED <<tables, redis, history>>

\* The staff row and the role are found, and an account is made up of them
\* in memory: it has the staff row's id, e-mail and user name.
AssignFind(r) ==
    /\ At(r, "assign.find") /\ req[r].rest # <<>>
    /\ LET s == Next1(r)[1]
           row == SeenStaff(r)[s] IN
       /\ row # None
       /\ req' = [req EXCEPT ![r] = [@ EXCEPT !.pc = "assign.reload", !.id = s,
                    !.entity = [email |-> row.email, role |-> Next1(r)[2], username |-> row.username,
                                password |-> None, changed |-> FALSE]]]
    /\ UNCHANGED <<tables, redis, history>>

\* save(): the SELECT.  Only the columns the entity has are compared.
Reloaded(r, entity, columns, flush, unchanged) ==
    LET row == SeenUsers(r)[req[r].id]
        dirty == IF row = None THEN {} ELSE Dirty(entity, row) \cap columns
    IN req' = [req EXCEPT ![r] = [@ EXCEPT
                 !.entity = entity, !.insert = (row = None), !.dirty = dirty,
                 !.pc = IF row = None \/ dirty # {} THEN flush ELSE unchanged]]

\* updateUserRole
AssignReload(r) ==
    /\ At(r, "assign.reload")
    /\ Reloaded(r, req[r].entity, {"role", "username"}, "assign.role", "assign.name")
    /\ UNCHANGED <<tables, redis, history>>

\* A user name somebody already has gets a random number.  Then createStaff
\* saves the whole account.
AssignName(r) ==
    /\ At(r, "assign.name")
    /\ LET role == req[r].entity.role
           own == SeenUsers(r)[req[r].id]
           again == own # None /\ own.username = <<role, FALSE>>
           password == <<r, Len(req[r].rest)>>
       IN Reloaded(r, [req[r].entity EXCEPT !.username = <<role, again>>, !.password = password],
                   {"role", "username", "password", "changed"}, "assign.account", "assign.mail")
    /\ UNCHANGED <<tables, redis, history>>

Flushing == [p \in {"assign.role", "assign.account"} |->
                IF p = "assign.role" THEN "assign.name" ELSE "assign.mail"]

\* Mutant of AssignInsert: saved with the repository, not the transaction.
AssignInsertAlone(r) ==
    /\ req[r].pc \in DOMAIN Flushing /\ req[r].insert
    /\ LET a == req[r].id  e == req[r].entity.email IN
       /\ InsertFree(r, a, e) /\ ~ Taken(r, a, e)
       /\ users' = [users EXCEPT ![a] = req[r].entity]
    /\ Goto(r, Flushing[req[r].pc])
    /\ UNCHANGED <<staff, draft, redis, history>>
AssignInsert(r) ==
    /\ req[r].pc \in DOMAIN Flushing /\ req[r].insert
    /\ LET a == req[r].id  e == req[r].entity.email IN
       /\ InsertFree(r, a, e) /\ ~ Taken(r, a, e)
       /\ WriteUser(r, a, req[r].entity)
    /\ Goto(r, Flushing[req[r].pc])
    /\ UNCHANGED <<staff, users, redis, history>>

\* The e-mail, or since the SELECT the id, is in the table: the batch fails.
AssignConflict(r) ==
    /\ req[r].pc \in DOMAIN Flushing /\ req[r].insert
    /\ InsertFree(r, req[r].id, req[r].entity.email) /\ Taken(r, req[r].id, req[r].entity.email)
    /\ draft' = [draft EXCEPT ![r] = NoDraft]
    /\ Return(r)
    /\ UNCHANGED <<staff, users, redis, history>>

\* Mutant of AssignUpdate: saved with the repository, not the transaction.
AssignUpdateAlone(r) ==
    /\ req[r].pc \in DOMAIN Flushing /\ ~ req[r].insert
    /\ LET a == req[r].id  row == users[a] IN
       /\ UserFree(r, a)
       /\ users' = IF row = None THEN users
                   ELSE [users EXCEPT ![a] = WriteBack(row, req[r].entity, req[r].dirty)]
    /\ Goto(r, Flushing[req[r].pc])
    /\ UNCHANGED <<staff, draft, redis, history>>
\* UPDATE users SET <the changed columns> WHERE id: there may be none left.
AssignUpdate(r) ==
    /\ req[r].pc \in DOMAIN Flushing /\ ~ req[r].insert
    /\ LET a == req[r].id  row == SeenUsers(r)[a] IN
       /\ UserFree(r, a)
       /\ IF row = None
          THEN missed' = missed \cup {a} /\ UNCHANGED draft
          ELSE WriteUser(r, a, WriteBack(row, req[r].entity, req[r].dirty)) /\ UNCHANGED missed
    /\ Goto(r, Flushing[req[r].pc])
    /\ UNCHANGED <<staff, users, redis, known, mailed, spent>>

\* The user name and the password are mailed before the transaction ends.
AssignMail(r) ==
    /\ At(r, "assign.mail")
    /\ known' = known \cup {req[r].entity.password}
    /\ Goto(r, "assign.mark")
    /\ UNCHANGED <<tables, redis, mailed, spent, missed>>

\* Mutants of AssignMark: the user name is left out; the row is updated with
\* the repository, not the transaction.
AssignMarkStatusOnly(r) ==
    /\ At(r, "assign.mark") /\ StaffFree(r, req[r].id)
    /\ WriteStaff(r, req[r].id, [SeenStaff(r)[req[r].id] EXCEPT !.status = "assigned"])
    /\ req' = [req EXCEPT ![r] = [Fresh EXCEPT !.call = "assignRoles", !.pc = "assign.find",
                                               !.rest = Tail(req[r].rest)]]
    /\ UNCHANGED <<staff, users, redis, history>>
AssignMarkAlone(r) ==
    /\ At(r, "assign.mark") /\ StaffFree(r, req[r].id)
    /\ staff' = [staff EXCEPT ![req[r].id].status = "assigned",
                              ![req[r].id].username = req[r].entity.username]
    /\ req' = [req EXCEPT ![r] = [Fresh EXCEPT !.call = "assignRoles", !.pc = "assign.find",
                                               !.rest = Tail(req[r].rest)]]
    /\ UNCHANGED <<users, draft, redis, history>>
\* UPDATE staff SET status, username; then the next assignment.
AssignMark(r) ==
    /\ At(r, "assign.mark")
    /\ LET s == req[r].id IN
       /\ StaffFree(r, s)
       /\ WriteStaff(r, s, [SeenStaff(r)[s] EXCEPT !.status = "assigned",
                                                  !.username = req[r].entity.username])
    /\ req' = [req EXCEPT ![r] = [Fresh EXCEPT !.call = "assignRoles", !.pc = "assign.find",
                                               !.rest = Tail(req[r].rest)]]
    /\ UNCHANGED <<staff, users, redis, history>>

\* Mutant of AssignCommit: the transaction is not ended.
AssignCommitForgotten(r) ==
    /\ At(r, "assign.find") /\ req[r].rest = <<>>
    /\ Return(r)
    /\ UNCHANGED <<tables, redis, history>>
AssignCommit(r) ==
    /\ At(r, "assign.find") /\ req[r].rest = <<>>
    /\ Commit(r)
    /\ UNCHANGED <<redis, history>>

-----------------------------------------------------------------------------
(* deleteUser: the staff row, found by the account's e-mail, is marked; the *)
(* account is removed.                                                      *)

DeleteUser(r) ==
    /\ \E a \in Account :
          Enter(r, "deleteUser", IF users[a] = None THEN [Fresh EXCEPT !.pc = "done"]
             ELSE [Fresh EXCEPT !.pc = "delete.staff", !.id = a, !.entity = users[a]])
    /\ UNCHANGED <<tables, redis, history>>

DeleteFindStaff(r) ==
    /\ At(r, "delete.staff")
    /\ LET found == {s \in Staff : staff[s] # None /\ staff[s].email = req[r].entity.email} IN
       \/ /\ found = {}
          /\ Goto(r, "delete.remove")
       \/ \E s \in found :
             req' = [req EXCEPT ![r] = [@ EXCEPT !.pc = "delete.reload", !.staff = s,
                        !.entity = [staff[s] EXCEPT !.status = "unassigned"]]]
    /\ UNCHANGED <<tables, redis, history>>

DeleteReload(r) ==
    /\ At(r, "delete.reload")
    /\ LET dirty == Dirty(req[r].entity, staff[req[r].staff]) IN
          req' = [req EXCEPT ![r] = [@ EXCEPT !.dirty = dirty,
                    !.pc = IF dirty = {} THEN "delete.remove" ELSE "delete.mark"]]
    /\ UNCHANGED <<tables, redis, history>>

DeleteMark(r) ==
    /\ At(r, "delete.mark")
    /\ LET s == req[r].staff IN
       /\ StaffFree(r, s)
       /\ WriteStaff(r, s, WriteBack(staff[s], req[r].entity, req[r].dirty))
    /\ Goto(r, "delete.remove")
    /\ UNCHANGED <<staff, users, redis, history>>

\* The transaction marks the staff row of the account's id: a save() may have
\* found nothing to write, or only an older user name.
Marked(r) ==
    LET marks == draft[r].staff IN
    req[r].id \in DOMAIN marks /\ marks[req[r].id].status = "unassigned"

\* DELETE FROM users, and the commit.
DeleteRemove(r) ==
    /\ At(r, "delete.remove")
    /\ UserFree(r, req[r].id)
    /\ staff' = SeenStaff(r)
    /\ users' = [users EXCEPT ![req[r].id] = None]
    /\ missed' = IF Marked(r) THEN missed ELSE missed \cup {req[r].id}
    /\ draft' = [draft EXCEPT ![r] = NoDraft]
    /\ Return(r)
    /\ UNCHANGED <<redis, known, mailed, spent>>

-----------------------------------------------------------------------------
StaffCall(r) == CreateStaff(r) \/ AssignRoles(r) \/ DeleteUser(r)

StaffStep(r) ==
    \/ AssignSkip(r) \/ AssignFind(r) \/ AssignReload(r) \/ AssignName(r)
    \/ AssignInsert(r) \/ AssignConflict(r) \/ AssignUpdate(r)
    \/ AssignMail(r) \/ AssignMark(r) \/ AssignCommit(r)
    \/ DeleteFindStaff(r) \/ DeleteReload(r) \/ DeleteMark(r) \/ DeleteRemove(r)
=============================================================================
