---------------------------- MODULE Registration ----------------------------
(***************************************************************************)
(* Sign-ups, verifications and role creations together, over one pool of   *)
(* connections and one Redis hash, with failures and crashes.              *)
(***************************************************************************)
EXTENDS SchoolSignup, Verification, Roles

ClientCall(r) == CreateSchool(r) \/ VerifySchool(r) \/ CreateRole(r)

HandlerStep(r) == SignupStep(r) \/ VerifyStep(r) \/ RoleStep(r)

Next ==
    \/ \E r \in Request :
          ClientCall(r) \/ HandlerStep(r) \/ Deliver(r) \/ Fail(r)
    \/ Crash

Spec == Init /\ [][Next]_vars

\* The event loop goes on with every handler whose await can be answered.
Fairness == \A r \in Request : WF_vars(HandlerStep(r))

FairSpec == Spec /\ Fairness

-----------------------------------------------------------------------------
(* Properties                                                               *)

\* No school without its administrator, no administrator without its school,
\* and nobody who cannot be verified: createSchool's transaction writes both
\* rows, and the onboarding key, outside the transaction, comes before them.
SchoolsAreComplete ==
    \A s \in Request :
       /\ Opened(s) <=> account[s] = "kept"
       /\ Opened(s) => s \in onboarding

\* Two sign-ups that pass the same lookups at the same time do not both get
\* the college name or the e-mail address.
SchoolsAreDistinct ==
    \A s, t \in Request :
       s # t /\ Opened(s) /\ Opened(t) =>
          /\ call[s].college # call[t].college
          /\ call[s].email # call[t].email

\* "your school has been successfully verified" is only ever mailed for a
\* school that is there and is verified, although onboarding keys outlive
\* sign-ups that were rolled back.
AnnouncedAreVerified ==
    \A s \in Request : <<"verified", s>> \in inbox => school[s] = "verified"

\* The requests with a transaction are the ones that keep a connection.
ConnectionsHeld == connections = {r \in Request : pc[r] \in InTransaction}

\* However a handler ends, it does not keep its connection, and no handler
\* loses the connection of another.
ConnectionsReturned ==
    /\ ConnectionsHeld
    /\ Cardinality(connections) <= PoolSize

\* Every request returns: nobody waits for ever for a connection or for
\* another sign-up's unique values.
EveryCallReturns ==
    \A r \in Request : pc[r] \in Awaits ~> At(r, "done")

-----------------------------------------------------------------------------
(* The abstract specification: what others can see.                         *)

Ledger == INSTANCE SchoolLedger WITH
    Id        <- Request,
    keys      <- onboarding,
    status    <- Without(school, Request),
    staffed   <- {s \in Request : account[s] = "kept"},
    announced <- {s \in Request : <<"verified", s>> \in inbox},
    roles     <- {r \in Request : role[r] = "kept"},
    empowered <- {r \in Request : granted[r] = "kept"}

LedgerSpec == Ledger!Spec

-----------------------------------------------------------------------------
(* The inductive invariant: what belongs to a request at each await.        *)

CallsMatch ==
    \A r \in Request :
       /\ pc[r] \in SignupAwaits \/ school[r] # "none" \/ account[r] # "none"
             => call[r] \in SignupForm
       /\ pc[r] \in VerifyAwaits => call[r] \in VerifyForm
       /\ pc[r] \in RoleAwaits => call[r] \in RoleForm

\* The rows of a transaction in flight are the ones written so far; before
\* it, and while a request is not used, there are none.
RowsMatch ==
    \A r \in Request :
       /\ school[r] = "pending" <=>
             pc[r] \in {"insert.admin", "remember", "commit"}
       /\ account[r] = "pending" <=> pc[r] \in {"remember", "commit"}
       /\ role[r] = "pending" <=>
             pc[r] \in {"find.permissions", "grant", "commit.role"}
       /\ granted[r] = "pending" <=> pc[r] = "commit.role"
       /\ pc[r] \in {"idle"} \cup Awaits =>
             ~Opened(r) /\ account[r] # "kept"
                        /\ role[r] # "kept" /\ granted[r] # "kept"

KeysMatch ==
    \A r \in Request :
       /\ pc[r] = "commit" => r \in onboarding
       /\ pc[r] \in {"status.save", "verified.mail"} => Opened(call[r].key)
       /\ pc[r] = "verified.mail" => school[call[r].key] = "verified"

\* The unique indexes see the rows of transactions in flight too.
ValuesHeld ==
    \A s, t \in Request :
       s # t =>
          /\ school[s] # "none" /\ school[t] # "none"
                => call[s].college # call[t].college
          /\ account[s] # "none" /\ account[t] # "none"
                => call[s].email # call[t].email

RolesAreWhole == \A r \in Request : role[r] = "kept" <=> granted[r] = "kept"

RegistrationInv ==
    /\ TypeOK
    /\ CallsMatch
    /\ RowsMatch
    /\ KeysMatch
    /\ ValuesHeld
    /\ RolesAreWhole
    /\ ConnectionsHeld
    /\ SchoolsAreComplete
    /\ AnnouncedAreVerified
=============================================================================
