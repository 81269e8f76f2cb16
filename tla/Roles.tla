------------------------------- MODULE Roles -------------------------------
(***************************************************************************)
(* AdminService.createRole: the administrator of a school creates a role   *)
(* and its permissions in one transaction.  The permissions are read on    *)
(* another connection while the transaction keeps its own.  Ids that are   *)
(* no permission's are passed over, so that what is granted may be none.   *)
(***************************************************************************)
EXTENDS Onboarding

\* The caller is the administrator of a school.
CreateRole(r) ==
    \E s \in Request, title \in Title :
       /\ account[s] = "kept"
       /\ Calls(r, "createRole", [school |-> s, title |-> title], "find.title")

RoleFound(r) ==
    \E s \in Request : role[s] = "kept" /\ call[s] = call[r]

FindTitle(r) ==
    /\ At(r, "find.title")
    /\ FreeConnection
    /\ \/ ~RoleFound(r) /\ Passes(r, "find.title", "role.connect")
       \/ RoleFound(r) /\ Throws(r)

RoleConnect(r) == Connect(r, "role.connect", "insert.role")

\* Mutant of InsertRole: the role is saved outside the transaction.
InsertRoleOutside(r) ==
    /\ At(r, "insert.role")
    /\ role' = [role EXCEPT ![r] = "kept"]
    /\ Goto(r, "find.permissions")
    /\ UNCHANGED <<call, school, account, granted, onboarding, mail, connections>>

InsertRole(r) ==
    /\ At(r, "insert.role")
    /\ role' = [role EXCEPT ![r] = "pending"]
    /\ Goto(r, "find.permissions")
    /\ UNCHANGED <<call, school, account, granted, onboarding, mail, connections>>

FindPermissions(r) == Passes(r, "find.permissions", "grant")

\* All the permissions that were found are saved, however many they are.
Grant(r) ==
    /\ At(r, "grant")
    /\ granted' = [granted EXCEPT ![r] = "pending"]
    /\ Goto(r, "commit.role")
    /\ UNCHANGED <<call, school, account, role, onboarding, mail, connections>>

CommitRole(r) ==
    /\ At(r, "commit.role")
    /\ role' = [role EXCEPT ![r] = "kept"]
    /\ granted' = [granted EXCEPT ![r] = "kept"]
    /\ connections' = connections \ {r}
    /\ Goto(r, "done")
    /\ UNCHANGED <<call, school, account, onboarding, mail>>

RoleStep(r) ==
    \/ FindTitle(r)
    \/ RoleConnect(r)
    \/ InsertRole(r)
    \/ FindPermissions(r)
    \/ Grant(r)
    \/ CommitRole(r)
=============================================================================
