----------------------------- MODULE Onboarding -----------------------------
(***************************************************************************)
(* What signing up a school, verifying it and creating its roles share:    *)
(* the tables, the onboarding keys in Redis, the mails, the transactions   *)
(* with their rows, and the pool of database connections.  The modules     *)
(* SchoolSignup, Verification and Roles give the handlers' steps, and      *)
(* Registration composes them.                                             *)
(*                                                                         *)
(* One element of Request is one HTTP request; its handler runs up to an   *)
(* await in every step.  A row, or an onboarding key, has the request that *)
(* creates it as its id: uuids are never handed out twice.                 *)
(***************************************************************************)
EXTENDS Naturals, FiniteSets

CONSTANTS
    Request,      \* the requests clients make
    College,      \* college names
    Email,        \* e-mail addresses
    Username,     \* user names, as typed
    Cleaned,      \* cleanAndTruncateText: the user name without spaces etc.
    Title,        \* role names
    PoolSize,     \* connections in the database pool
    Handlers,     \* the handlers clients call in this instance
    None          \* no call

ASSUME PoolAssumption == PoolSize \in Nat \ {0}

ASSUME CleanedAssumption ==
    /\ Cleaned \in [Username -> Username]
    /\ \A u \in Username : Cleaned[Cleaned[u]] = Cleaned[u]

VARIABLES
    pc,           \* the await each request's handler is at
    call,         \* what each request asks for
    school,       \* school rows: "pending" in their transaction, then a status
    account,      \* the admins' rows of users
    role,         \* roles
    granted,      \* role_permission: whether the permissions asked for that
                  \* there are, possibly none, have been saved for a role
    onboarding,   \* the keys of the Redis hash 'onboarding'
    outbox,       \* mails sent without awaiting the answer
    inbox,        \* mails delivered
    connections   \* the requests that keep a connection checked out

rows == <<school, account, role, granted>>
mail == <<outbox, inbox>>
vars == <<pc, call, school, account, role, granted, onboarding,
          outbox, inbox, connections>>

SignupForm == [college : College, email : Email, username : Username]
VerifyForm == [key : Request]
RoleForm   == [school : Request, title : Title]

\* A transaction of its own connection is open.
SignupTransaction == { "find.school", "find.role", "find.username",
                       "find.email", "insert.school", "insert.admin",
                       "remember", "commit" }
RoleTransaction   == { "insert.role", "find.permissions", "grant",
                       "commit.role" }
InTransaction     == SignupTransaction \cup RoleTransaction

SignupAwaits == {"connect"} \cup SignupTransaction
VerifyAwaits == {"status.load", "status.save", "verified.mail"}
RoleAwaits   == {"find.title", "role.connect"} \cup RoleTransaction
Awaits       == SignupAwaits \cup VerifyAwaits \cup RoleAwaits

Mail == {"welcome", "verified"} \X Request

TypeOK ==
    /\ pc \in [Request -> {"idle", "done"} \cup Awaits]
    /\ call \in [Request -> SignupForm \cup VerifyForm \cup RoleForm \cup {None}]
    /\ school \in [Request -> {"none", "pending", "in_progress", "verified"}]
    /\ account \in [Request -> {"none", "pending", "kept"}]
    /\ role \in [Request -> {"none", "pending", "kept"}]
    /\ granted \in [Request -> {"none", "pending", "kept"}]
    /\ onboarding \subseteq Request
    /\ outbox \subseteq Mail
    /\ inbox \subseteq Mail
    /\ connections \subseteq Request

Init ==
    /\ pc = [r \in Request |-> "idle"]
    /\ call = [r \in Request |-> None]
    /\ school = [r \in Request |-> "none"]
    /\ account = [r \in Request |-> "none"]
    /\ role = [r \in Request |-> "none"]
    /\ granted = [r \in Request |-> "none"]
    /\ onboarding = {}
    /\ outbox = {}
    /\ inbox = {}
    /\ connections = {}

-----------------------------------------------------------------------------
At(r, await) == pc[r] = await
Goto(r, await) == pc' = [pc EXCEPT ![r] = await]

\* A client's call of the handler h, for a request not used yet.
Calls(r, h, what, await) ==
    /\ h \in Handlers
    /\ At(r, "idle")
    /\ Goto(r, await)
    /\ call' = [call EXCEPT ![r] = what]
    /\ UNCHANGED <<rows, onboarding, mail, connections>>

\* Committed rows are the ones other connections can read.
Opened(s) == school[s] \in {"in_progress", "verified"}

\* A query takes a connection of the pool for its duration, so one must be
\* free; the pool's queue has no timeout.
FreeConnection == Cardinality(connections) < PoolSize

\* A query runner takes a connection and keeps it.
Connect(r, from, to) ==
    /\ At(r, from)
    /\ FreeConnection
    /\ Goto(r, to)
    /\ connections' = connections \cup {r}
    /\ UNCHANGED <<call, rows, onboarding, mail>>

\* A query outside the transaction finds nothing that stops the handler.
Passes(r, from, to) ==
    /\ At(r, from)
    /\ FreeConnection
    /\ Goto(r, to)
    /\ UNCHANGED <<call, rows, onboarding, mail, connections>>

\* The rows a transaction has written when it is rolled back.
Without(table, Aborted) ==
    [r \in Request |->
        IF r \in Aborted /\ table[r] = "pending" THEN "none" ELSE table[r]]

\* Mutant of RolledBack: the connection is released with its transaction open.
ReleasedOnly(Aborted) ==
    /\ connections' = connections \ Aborted
    /\ UNCHANGED rows

RolledBack(Aborted) ==
    /\ school'  = Without(school, Aborted)
    /\ account' = Without(account, Aborted)
    /\ role'    = Without(role, Aborted)
    /\ granted' = Without(granted, Aborted)
    /\ connections' = connections \ Aborted

\* Mutant of Throws: a rolled back transaction keeps its connection.
ThrowsUnreleased(r) ==
    /\ Goto(r, "done")
    /\ school'  = Without(school, {r})
    /\ account' = Without(account, {r})
    /\ role'    = Without(role, {r})
    /\ granted' = Without(granted, {r})
    /\ UNCHANGED <<call, onboarding, mail, connections>>

\* The handler throws: catch rolls back, finally releases the connection.
Throws(r) ==
    /\ Goto(r, "done")
    /\ RolledBack({r})
    /\ UNCHANGED <<call, onboarding, mail>>

\* Any statement, Redis call or awaited mail may fail.
Fail(r) == pc[r] \in Awaits /\ Throws(r)

\* The process dies, for instance because a mail it does not await is
\* rejected: no handler goes on, and the database rolls back.
Crash ==
    /\ pc' = [r \in Request |-> IF pc[r] = "idle" THEN "idle" ELSE "done"]
    /\ RolledBack(Request)
    /\ outbox' = {}
    /\ UNCHANGED <<call, onboarding, inbox>>
=============================================================================
