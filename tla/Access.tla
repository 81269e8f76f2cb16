------------------------------- MODULE Access -------------------------------
(***************************************************************************)
(* Staff management and sign-in together, over one users table.            *)
(***************************************************************************)
EXTENDS Staffing, Credentials

(***************************************************************************)
(* Initially a member of staff is not entered, is invited, or has an       *)
(* account; a learner has an account or not.                               *)
(***************************************************************************)
Opened(email, role, changed) ==
    [ email |-> email, role |-> role, username |-> <<role, FALSE>>,
      password |-> <<None, 0>>, changed |-> changed ]

Entered == {None} \cup {NewStaff(e) : e \in Email} \cup
           [email : Email, status : {"assigned"}, username : {<<x, FALSE>> : x \in Role}]

\* The accounts that agree with the rows of staff and with each other.
Matching(u) ==
    /\ \A s \in Staff :
          IF staff[s] = None \/ staff[s].status = "unassigned" THEN u[s] = None
          ELSE HasEmail(u[s], staff[s].email) /\ u[s].username = staff[s].username
    /\ \A l \in Learner : u[l] # None => u[l].email = l /\ u[l].role = "student"
    /\ \A a, b \in Account : a # b /\ u[a] # None => ~ HasEmail(u[b], u[a].email)

Init ==
    /\ staff \in [Staff -> Entered]
    /\ users \in {u \in [Account -> {None} \cup
                           {Opened(e, x, c) : e \in Address, x \in Role \cup {"student"},
                                              c \in BOOLEAN}] : Matching(u)}
    /\ draft = [r \in Request |-> NoDraft]
    /\ redis = [reset |-> [k \in Keys |-> None], code |-> [a \in Account |-> None]]
    /\ req = [r \in Request |-> Fresh]
    /\ known = {<<None, 0>>} /\ mailed = {} /\ spent = {} /\ missed = {}

-----------------------------------------------------------------------------
(* PostgreSQL ends one of the transactions that wait for each other.        *)

Wanted(r, q) ==
    \/ /\ req[r].pc \in {"assign.role", "assign.account"} /\ ~ req[r].insert
       /\ req[r].id \in DOMAIN draft[q].users
    \/ /\ req[r].pc \in {"assign.role", "assign.account"} /\ req[r].insert
       /\ \E b \in DOMAIN draft[q].users :
             \/ b = req[r].id
             \/ HasEmail(draft[q].users[b], req[r].entity.email)
             \/ HasEmail(users[b], req[r].entity.email)
    \/ At(r, "assign.mark") /\ req[r].id \in DOMAIN draft[q].staff
    \/ At(r, "delete.mark") /\ req[r].staff \in DOMAIN draft[q].staff
    \/ At(r, "delete.remove") /\ req[r].id \in DOMAIN draft[q].users
WaitsFor(r, q) == r # q /\ Wanted(r, q)

Deadlocked(r) ==
    \E cycle \in SUBSET Request :
       /\ r \in cycle
       /\ \A p \in cycle : /\ \E q \in cycle : WaitsFor(p, q)
                           /\ \E q \in cycle : WaitsFor(q, p)

DeadlockDetected(r) ==
    /\ Deadlocked(r)
    /\ draft' = [draft EXCEPT ![r] = NoDraft]
    /\ Return(r)
    /\ UNCHANGED <<staff, users, redis, history>>

-----------------------------------------------------------------------------
ClientCall(r) == StaffCall(r) \/ CredentialsCall(r)
HandlerStep(r) == StaffStep(r) \/ CredentialsStep(r) \/ DeadlockDetected(r)

Next == (\E r \in Request : ClientCall(r) \/ HandlerStep(r) \/ Fail(r)) \/ Expire

Spec == Init /\ [][Next]_vars

\* The event loop goes on with every handler whose query is answered, and
\* PostgreSQL looks for deadlocks.
FairSpec == Spec /\ \A r \in Request : WF_vars(HandlerStep(r))

-----------------------------------------------------------------------------
(* Properties                                                               *)

Saving   == {"assign.reload", "assign.role", "assign.name", "assign.account", "assign.mail", "assign.mark"}
Removing == {"delete.staff", "delete.reload", "delete.mark", "delete.remove"}
Updating == {"resend.update", "change.update", "reset.key", "reset.find", "reset.update",
             "login.role", "login.stamp", "2fa.code", "verify.code"}
Awaits   == Saving \cup Removing \cup Updating \cup {"assign.find", "resend.mail", "reset.mail",
             "reset.del", "2fa.mail", "verify.role"}

Local == [ call : CallNames \cup {None}, pc : {"idle", "done"} \cup Awaits,
           id : Account \cup {None}, rest : Seq(Staff \X Role), staff : Staff \cup {None},
           entity : StaffRow \cup AccountRow \cup {None}, insert : BOOLEAN,
           dirty : SUBSET {"email", "status", "role", "username", "password", "changed"},
           key : Keys \cup {None} ]

Partial(f, S, Row) == DOMAIN f \subseteq S /\ f \in [DOMAIN f -> Row]

\* The type invariant.
TypeOK ==
    /\ staff \in [Staff -> StaffRow \cup {None}]
    /\ users \in [Account -> AccountRow \cup {None}]
    /\ draft = [r \in Request |-> [staff |-> draft[r].staff, users |-> draft[r].users]]
    /\ \A r \in Request : Partial(draft[r].staff, Staff, StaffRow) /\ Partial(draft[r].users, Account, AccountRow)
    /\ redis \in [reset : [Keys -> Account \cup {None}], code : [Account -> Keys \cup {None}]]
    /\ req \in [Request -> Local]

\* An account others can see has a user name and a password: the first save
\* of assignRoles writes neither, the second writes both, and no failure,
\* deadlock or removal in between shows the first without the second.
NoHalfAccounts ==
    \A a \in Account : users[a] # None => users[a].username # None /\ users[a].password # None

\* No other row of staff and no learner has the e-mail: nothing keeps createStaff
\* from entering an address twice, and deleteUser, which looks for the e-mail of
\* the account it has loaded, finds either of the rows.
Alone(s) ==
    /\ staff[s] # None => staff[s].email \notin Learner
    /\ \A t \in Staff \ {s} :
          staff[s] # None /\ staff[t] # None => staff[t].email # staff[s].email

\* Whoever has a staff account is marked as assigned, with the account's
\* user name, whatever is assigned and removed at the same time, if the
\* address was entered once; only an assignment that missed the removal of
\* the account leaves its own user name behind.
AccountsAreAssigned ==
    \A s \in Staff : users[s] # None /\ Alone(s) =>
       /\ staff[s] # None /\ staff[s].status = "assigned"
       /\ staff[s].email = users[s].email
       /\ staff[s].username = users[s].username \/ s \in missed

\* Whoever is marked as assigned has an account, but for two cases: it was
\* removed by a deleteUser that found another row with the e-mail, or that
\* compared the row before it was assigned, and so had nothing or an older user
\* name to write; or it was removed between the SELECT
\* and the UPDATE of assignRoles, which does not notice.
AssignedHasAccount ==
    \A s \in Staff : staff[s] # None /\ staff[s].status = "assigned" =>
       users[s] # None \/ s \in missed

\* The holder of an account knows its password, unless it comes from a
\* resendLearnerCredentials whose mail is on its way or has failed: a mail
\* that fails takes back what assignRoles has done.
HolderKnowsPassword ==
    \A a \in Present :
       \/ users[a].password \in known
       \/ \E r \in Request : /\ users[a].password = <<r, 0>>
                             /\ req[r].call = "resendLearnerCredentials"

\* A key that a finished resetPassword has used is not accepted again.
SpentKeysAreGone == \A k \in spent : redis.reset[k] = None

(* What the three properties above rest on: what each transaction has        *)
(* written at each await, and whom a password or a key belongs to.          *)

\* The locals that an await uses are there.
LocalsSet(r) ==
    LET l == req[r] IN
    /\ l.pc = "idle" => l.call = None
    /\ l.pc \in Saving \cup {"assign.find"} => l.call = "assignRoles"
    /\ l.pc \in Saving =>
          l.id \in Staff /\ SeenStaff(r)[l.id] # None /\ l.entity \in AccountRow /\ l.rest # <<>>
    /\ l.pc \in {"assign.account", "assign.mail"} => l.entity.username # None /\ l.entity.password # None
    /\ l.pc \in {"delete.reload", "delete.mark"} =>
          l.staff \in Staff /\ staff[l.staff] # None /\ l.entity \in StaffRow
    /\ l.pc \in Updating => l.id \in Account
    /\ l.pc \in {"resend.update", "resend.mail"} => l.call = "resendLearnerCredentials"
    /\ l.pc \in {"reset.find", "reset.update", "reset.del"} => l.key \in mailed
    /\ l.pc \notin Saving \cup Removing \cup {"assign.find"} => draft[r] = NoDraft

Owned(p) ==
    \/ p \in known
    \/ \E q \in Request : p = <<q, 0>> /\ req[q].call = "resendLearnerCredentials"
Whole(row) == row.username # None /\ row.password # None /\ Owned(row.password)

\* A transaction's rows are whole, but for the one it is saving: between the
\* first save and the second, which writes what is missing, and until the
\* mail with its password is sent.
Written(r, a) ==
    LET l == req[r]  row == draft[r].users[a] IN
    \/ Whole(row)
    \/ l.id = a /\ l.pc = "assign.name"
    \/ l.id = a /\ l.pc = "assign.account" /\ \A c \in {"username", "password"} :
          row[c] = l.entity[c] \/ c \in l.dirty
    \/ l.id = a /\ l.pc = "assign.mail" /\ row.username # None /\ row.password = l.entity.password
DraftsWritten(r) == \A a \in DOMAIN draft[r].users : Written(r, a)

UsersWhole == \A a \in Account : users[a] # None => Whole(users[a])

\* A key is mailed, and used, after its request has stored it for good.
KeysStored ==
    /\ spent \subseteq mailed /\ mailed \subseteq {r \in Request : req[r].pc = "done"}
    /\ SpentKeysAreGone

\* At each await of a handler its locals, its rows and its keys are what the
\* next one needs.
CoreInv ==
    /\ TypeOK
    /\ \A r \in Request : LocalsSet(r) /\ DraftsWritten(r)
    /\ UsersWhole
    /\ KeysStored

(* What AccountsAreAssigned and AssignedHasAccount rest on: the two rows of  *)
(* a member of staff have one address, and a transaction that has written   *)
(* one of them knows of the other.                                          *)

HasAddressOf(s, row) == staff[s] # None /\ row.email = staff[s].email
AddressesKept ==
    /\ \A s \in Staff : users[s] # None => HasAddressOf(s, users[s])
    /\ \A l \in Learner \ Staff : users[l] # None => users[l].email = l

\* No row is written by two transactions at once.
RowsLocked ==
    \A r, q \in Request : r # q =>
       /\ DOMAIN draft[r].staff \cap DOMAIN draft[q].staff = {}
       /\ DOMAIN draft[r].users \cap DOMAIN draft[q].users = {}

DraftAddresses(r) ==
    /\ \A s \in DOMAIN draft[r].staff : HasAddressOf(s, draft[r].staff[s])
    /\ \A s \in DOMAIN draft[r].users : s \in Staff /\ HasAddressOf(s, draft[r].users[s])

\* An assignment has written both rows of every member but the one it is
\* saving, whose account has the new user name once the second save is over.
AssignmentTrue(r) ==
    LET l == req[r]  marks == draft[r].staff  accounts == draft[r].users IN
    l.pc \in Saving \cup {"assign.find"} =>
       /\ l.pc \in Saving => HasAddressOf(l.id, l.entity)
       /\ l.pc \in {"assign.role", "assign.account"} => "email" \notin l.dirty
       /\ l.pc = "assign.account" => l.insert \/ "username" \in l.dirty
       /\ l.pc \in {"assign.mail", "assign.mark"} =>
             \/ l.id \in missed
             \/ l.id \in DOMAIN accounts /\ accounts[l.id].username = l.entity.username
       /\ \A s \in DOMAIN marks :
             marks[s].status = "assigned" /\ s \in DOMAIN accounts \cup missed
       /\ \A s \in DOMAIN accounts :
             \/ l.pc \in Saving /\ s = l.id
             \/ /\ s \in DOMAIN marks
                /\ marks[s].username = accounts[s].username \/ s \in missed

\* A removal marks the row of the account it removes, or one whose address
\* somebody else has too; and it never makes a row assigned.
RemovalTrue(r) ==
    LET l == req[r]  marks == draft[r].staff IN
    l.pc \in Removing =>
       /\ l.id \in Account /\ DOMAIN draft[r].users = {}
       /\ l.pc = "delete.staff" =>
             IF l.id \in Staff THEN HasAddressOf(l.id, l.entity) ELSE l.entity.email = l.id
       /\ l.pc \in {"delete.reload", "delete.mark"} =>
             /\ HasAddressOf(l.staff, l.entity) /\ l.entity.status = "unassigned"
             /\ l.staff = l.id \/ ~ Alone(l.staff)
       /\ l.pc # "delete.remove" => DOMAIN marks = {}
       /\ \A s \in DOMAIN marks :
             /\ s = l.id \/ ~ Alone(s)
             /\ marks[s].status = "assigned" => staff[s].status = "assigned"

StaffInv ==
    /\ AddressesKept /\ RowsLocked
    /\ \A r \in Request : DraftAddresses(r) /\ AssignmentTrue(r) /\ RemovalTrue(r)
    /\ AccountsAreAssigned /\ AssignedHasAccount

\* The inductive invariant of staff management and sign-in.
AccessInv == CoreInv /\ StaffInv

\* Every request returns: nobody waits for ever for a row.
EveryCallReturns == \A r \in Request : req[r].pc \notin {"idle", "done"} ~> At(r, "done")
=============================================================================
