----------------------------- MODULE Directory -----------------------------
(***************************************************************************)
(* The shared state of staff management and sign-in: the staff and users   *)
(* tables, what the transactions in flight have written to them, the keys  *)
(* Redis holds, and the HTTP requests.  Staffing and Credentials give the  *)
(* handlers' steps over it.                                                *)
(*                                                                         *)
(* Transactions are READ COMMITTED: a request sees what is committed and   *)
(* what it has written itself, and has a lock on every row it has written  *)
(* until it commits or is rolled back.                                     *)
(***************************************************************************)
EXTENDS Orm, Naturals, Sequences, FiniteSets

CONSTANTS
    Staff,       \* ids of staff rows; a member of staff's account has that id
    Learner,     \* ids of learners' accounts, which also stand for their e-mail
    Email,       \* the e-mail addresses of staff
    Role,        \* roles of the school
    Request,     \* the requests clients make
    Batches,     \* the bodies of assignRoles that are sent
    Calls,       \* the handlers that are called in this instance
    None         \* no row, no value

CallNames == {"createStaff", "assignRoles", "deleteUser", "resendLearnerCredentials",
              "changePassword", "initiatePasswordReset", "resetPassword", "login",
              "send2faEmail", "verify2fa"}

ASSUME DirectoryAssumption ==
    /\ Calls \subseteq CallNames
    /\ Batches \subseteq Seq(Staff \X Role) \ {<<>>}
    /\ None \notin Staff \cup Learner \cup Email \cup Role \cup Request

Account == Staff \cup Learner
Address == Email \cup Learner

VARIABLES
    staff,      \* the staff table
    users,      \* the users table
    draft,      \* what each transaction has written and not committed
    redis,      \* the password reset keys and the two-factor codes in Redis
    req,        \* the requests: the handler's position and its locals
    known,      \* history: the passwords mailed to, or chosen by, their holder
    mailed,     \* history: the keys and codes mailed
    spent,      \* history: the reset keys a finished resetPassword has used
    missed      \* history: accounts that were gone when assignRoles updated them,
                \* or were removed without marking the staff row of that id

tables  == <<staff, users, draft>>
history == <<known, mailed, spent, missed>>
vars    == <<staff, users, draft, redis, req, known, mailed, spent, missed>>

-----------------------------------------------------------------------------
(* Rows.  A password is named after the request that made it up and, in     *)
(* assignRoles, the assignments that were left; <<None, 0>> is one from     *)
(* before.  A user name consists of the local part of the e-mail, the       *)
(* college and the role, so that the role and whether a random number       *)
(* follows it tell the user names of one person apart.                      *)

Password == (Request \cup {None}) \X Nat
Username == (Role \cup {"student"}) \X BOOLEAN

StaffRow == [ email : Email, status : {"assigned", "unassigned"},
              username : Username \cup {None} ]

AccountRow == [ email : Address, role : Role \cup {"student"}, username : Username \cup {None},
                password : Password \cup {None}, changed : BOOLEAN ]

\* A missing row or value is none of those there are.
ASSUME NoneAssumption ==
    None \notin StaffRow \cup AccountRow \cup Username \cup Password \cup CallNames

\* A password reset key and a code are named after the request they are for.
Keys == Request
NoDraft == [staff |-> <<>>, users |-> <<>>]

-----------------------------------------------------------------------------
(* What a request sees, and which rows others have locked.                  *)

Over(f, g) == [x \in DOMAIN g |-> IF x \in DOMAIN f THEN f[x] ELSE g[x]]
SeenStaff(r) == Over(draft[r].staff, staff)
SeenUsers(r) == Over(draft[r].users, users)

StaffFree(r, s) == \A q \in Request \ {r} : s \notin DOMAIN draft[q].staff
UserFree(r, a)  == \A q \in Request \ {r} : a \notin DOMAIN draft[q].users

\* An INSERT waits for a transaction that has written a row with its id or
\* its e-mail, and fails if such a row is there then.
HasEmail(row, e) == row # None /\ row.email = e
InsertFree(r, a, e) ==
    \A q \in Request \ {r} : \A b \in DOMAIN draft[q].users :
       b # a /\ ~ HasEmail(draft[q].users[b], e) /\ ~ HasEmail(users[b], e)
Taken(r, a, e) == \E b \in Account : /\ SeenUsers(r)[b] # None
                                     /\ b = a \/ HasEmail(SeenUsers(r)[b], e)

Put(f, k, row) == [x \in DOMAIN f \cup {k} |-> IF x = k THEN row ELSE f[x]]
WriteUser(r, a, row)  == draft' = [draft EXCEPT ![r].users = Put(@, a, row)]
WriteStaff(r, s, row) == draft' = [draft EXCEPT ![r].staff = Put(@, s, row)]

-----------------------------------------------------------------------------
(* Requests.                                                                *)

Fresh == [ call |-> None, pc |-> "idle", id |-> None, rest |-> <<>>, staff |-> None,
           entity |-> None, insert |-> FALSE, dirty |-> {}, key |-> None ]

At(r, p) == req[r].pc = p
Goto(r, p) == req' = [req EXCEPT ![r].pc = p]
Enter(r, name, locals) ==
    /\ At(r, "idle") /\ name \in Calls
    /\ req' = [req EXCEPT ![r] = [locals EXCEPT !.call = name]]
\* The handler returns or throws; what it answers is not kept.
Ended(r) == [Fresh EXCEPT !.call = req[r].call, !.pc = "done"]
Return(r) == req' = [req EXCEPT ![r] = Ended(r)]

Commit(r) ==
    /\ staff' = SeenStaff(r) /\ users' = SeenUsers(r)
    /\ draft' = [draft EXCEPT ![r] = NoDraft]
    /\ Return(r)

(* A query or the mail fails, the connection is lost, or the process dies:  *)
(* a transaction is rolled back, and what was done outside stays.           *)
Fail(r) ==
    /\ req[r].pc \notin {"idle", "done"}
    /\ draft' = [draft EXCEPT ![r] = NoDraft]
    /\ Return(r)
    /\ UNCHANGED <<staff, users, redis, history>>
=============================================================================
