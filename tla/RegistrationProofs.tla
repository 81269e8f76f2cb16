------------------------- MODULE RegistrationProofs -------------------------
(***************************************************************************)
(* The invariant of Registration, that it implements SchoolLedger, and     *)
(* that its connections come back to the pool.                             *)
(***************************************************************************)
EXTENDS Registration, FiniteSetTheorems, TLAPS

\* The awaits of a sign-up, and of a role's creation, before the first row.
SignupUnwritten == { "connect", "find.school", "find.role", "find.username",
                     "find.email", "insert.school" }
RoleUnwritten   == { "find.title", "role.connect", "insert.role" }

-----------------------------------------------------------------------------
(* Initial states and clients' calls.                                       *)

LEMMA InitInv == Init => RegistrationInv
  BY DEF Init, RegistrationInv, TypeOK, CallsMatch, RowsMatch, KeysMatch,
         ValuesHeld, RolesAreWhole, ConnectionsHeld, SchoolsAreComplete,
         AnnouncedAreVerified, Opened, Awaits, SignupAwaits, VerifyAwaits,
         RoleAwaits, SignupTransaction, RoleTransaction, InTransaction

\* A call that has arrived has written nothing, whatever it asks for.
LEMMA CallsInv ==
  ASSUME RegistrationInv, NEW r \in Request, NEW h, NEW what, NEW await,
         Calls(r, h, what, await),
         \/ what \in SignupForm /\ await = "connect"
         \/ what \in VerifyForm /\ await = "status.load"
         \/ what \in RoleForm /\ await = "find.title"
  PROVE  RegistrationInv'
<1> USE DEF RegistrationInv, Calls, At, Goto, rows, mail
<1>0. school[r] = "none" /\ account[r] = "none"
  BY DEF TypeOK, RowsMatch, Opened
<1>1. TypeOK'
  BY DEF TypeOK, Awaits, SignupAwaits, VerifyAwaits, RoleAwaits
<1>2. CallsMatch'
  BY <1>0 DEF TypeOK, CallsMatch, SignupAwaits, VerifyAwaits, RoleAwaits,
         SignupTransaction, RoleTransaction
<1>3. RowsMatch'
  BY DEF TypeOK, RowsMatch, Opened
<1>4. KeysMatch'
  BY DEF TypeOK, KeysMatch, Opened
<1>5. ValuesHeld'
  BY <1>0 DEF TypeOK, ValuesHeld
<1>6. ConnectionsHeld'
  BY DEF TypeOK, ConnectionsHeld, InTransaction, SignupTransaction,
         RoleTransaction
<1>7. (RolesAreWhole /\ SchoolsAreComplete /\ AnnouncedAreVerified)'
  BY DEF RolesAreWhole, SchoolsAreComplete, AnnouncedAreVerified, Opened
<1>8. QED
  BY <1>1, <1>2, <1>3, <1>4, <1>5, <1>6, <1>7

LEMMA ClientCallInv ==
  ASSUME RegistrationInv, NEW r \in Request, ClientCall(r)
  PROVE  RegistrationInv'
<1>1. CASE CreateSchool(r)
  BY <1>1, CallsInv DEF CreateSchool
<1>2. CASE VerifySchool(r)
  <2>1. PICK key \in onboarding :
           Calls(r, "verifySchool", [key |-> key], "status.load")
    BY <1>2 DEF VerifySchool
  <2>2. [key |-> key] \in VerifyForm
    BY DEF VerifyForm, RegistrationInv, TypeOK
  <2>3. QED
    BY <2>1, <2>2, CallsInv
<1>3. CASE CreateRole(r)
  <2>1. PICK s \in Request, title \in Title :
           Calls(r, "createRole", [school |-> s, title |-> title], "find.title")
    BY <1>3 DEF CreateRole
  <2>2. [school |-> s, title |-> title] \in RoleForm
    BY DEF RoleForm
  <2>3. QED
    BY <2>1, <2>2, CallsInv
<1>4. QED
  BY <1>1, <1>2, <1>3 DEF ClientCall

-----------------------------------------------------------------------------
(* Steps of a handler.                                                      *)

\* A step that only goes on to an await with the same rows.
LEMMA MovesInv ==
  ASSUME RegistrationInv, NEW r \in Request, NEW from, NEW to,
         At(r, from), Goto(r, to),
         \/ from \in SignupUnwritten /\ to \in SignupUnwritten
         \/ from \in RoleUnwritten /\ to \in RoleUnwritten
         \/ from = "find.permissions" /\ to = "grant"
         \/ from = "status.load" /\ to = "status.save" /\ Opened(call[r].key),
         UNCHANGED <<call, rows, onboarding, mail>>,
         connections' \subseteq Request,
         ConnectionsHeld'
  PROVE  RegistrationInv'
<1> USE DEF RegistrationInv, At, Goto, rows, mail, SignupUnwritten,
            RoleUnwritten
<1>1. TypeOK'
  BY DEF TypeOK, Awaits, SignupAwaits, VerifyAwaits, RoleAwaits,
         SignupTransaction, RoleTransaction
<1>2. CallsMatch'
  BY DEF TypeOK, CallsMatch, SignupAwaits, VerifyAwaits, RoleAwaits,
         SignupTransaction, RoleTransaction
<1>3. RowsMatch'
  BY DEF TypeOK, RowsMatch, Opened, Awaits, SignupAwaits, VerifyAwaits,
         RoleAwaits, SignupTransaction, RoleTransaction
<1>4. KeysMatch'
  BY DEF TypeOK, KeysMatch, Opened
<1>5. (ValuesHeld /\ RolesAreWhole /\ SchoolsAreComplete /\ AnnouncedAreVerified)'
  BY DEF ValuesHeld, RolesAreWhole, SchoolsAreComplete, AnnouncedAreVerified,
         Opened
<1>6. QED
  BY <1>1, <1>2, <1>3, <1>4, <1>5

\* A query outside the transaction leaves the connections as they are.
LEMMA PassesInv ==
  ASSUME RegistrationInv, NEW r \in Request, NEW from, NEW to,
         Passes(r, from, to),
         \/ /\ from \in SignupUnwritten \ {"connect"}
            /\ to \in SignupUnwritten \ {"connect"}
         \/ from = "find.title" /\ to = "role.connect"
         \/ from = "find.permissions" /\ to = "grant"
         \/ from = "status.load" /\ to = "status.save" /\ Opened(call[r].key)
  PROVE  RegistrationInv'
<1>1. ConnectionsHeld'
  BY DEF RegistrationInv, Passes, At, Goto, TypeOK, ConnectionsHeld,
         InTransaction, SignupTransaction, RoleTransaction, SignupUnwritten
<1>2. connections' \subseteq Request
  BY DEF RegistrationInv, TypeOK, Passes
<1>3. QED
  BY <1>1, <1>2, MovesInv DEF Passes, SignupUnwritten, RoleUnwritten

\* A query runner's connection is checked out as the transaction begins.
LEMMA ConnectInv ==
  ASSUME RegistrationInv, NEW r \in Request, NEW from, NEW to,
         Connect(r, from, to),
         \/ from = "connect" /\ to = "find.school"
         \/ from = "role.connect" /\ to = "insert.role"
  PROVE  RegistrationInv'
<1>1. ConnectionsHeld'
  BY DEF RegistrationInv, Connect, At, Goto, TypeOK, ConnectionsHeld,
         InTransaction, SignupTransaction, RoleTransaction
<1>2. connections' \subseteq Request
  BY DEF RegistrationInv, TypeOK, Connect
<1>3. QED
  BY <1>1, <1>2, MovesInv DEF Connect, SignupUnwritten, RoleUnwritten

\* What a rollback leaves: only rows in flight disappear, all of them.
LEMMA RollbackRows ==
  ASSUME TypeOK, NEW Aborted \in SUBSET Request, RolledBack(Aborted)
  PROVE  /\ school'  \in [Request -> {"none", "pending", "in_progress", "verified"}]
         /\ account' \in [Request -> {"none", "pending", "kept"}]
         /\ role'    \in [Request -> {"none", "pending", "kept"}]
         /\ granted' \in [Request -> {"none", "pending", "kept"}]
         /\ connections' \subseteq Request
         /\ \A r \in Request :
               /\ Opened(r)' <=> Opened(r)
               /\ school'[r] = "verified" <=> school[r] = "verified"
               /\ account'[r] = "kept" <=> account[r] = "kept"
               /\ role'[r] = "kept" <=> role[r] = "kept"
               /\ granted'[r] = "kept" <=> granted[r] = "kept"
               /\ school'[r] # "none" => school[r] # "none"
               /\ account'[r] # "none" => account[r] # "none"
               /\ school'[r] = "pending" <=> school[r] = "pending" /\ r \notin Aborted
               /\ account'[r] = "pending" <=> account[r] = "pending" /\ r \notin Aborted
               /\ role'[r] = "pending" <=> role[r] = "pending" /\ r \notin Aborted
               /\ granted'[r] = "pending" <=> granted[r] = "pending" /\ r \notin Aborted
  BY DEF TypeOK, RolledBack, Without, Opened

\* A handler, or the whole process, that ends early leaves no trace of its
\* transaction and gives its connection back.
LEMMA AbortInv ==
  ASSUME RegistrationInv, NEW Aborted \in SUBSET Request, RolledBack(Aborted),
         pc' \in [Request -> {"idle", "done"} \cup Awaits],
         \A r \in Request :
            \/ r \in Aborted /\ pc'[r] = "done"
            \/ pc[r] = "idle" /\ pc'[r] = "idle"
            \/ r \notin Aborted /\ pc'[r] = pc[r],
         outbox' \subseteq outbox,
         UNCHANGED <<call, onboarding, inbox>>
  PROVE  RegistrationInv'
<1> USE DEF RegistrationInv
<1> USE RollbackRows
<1>1. TypeOK'
  BY DEF TypeOK
<1>2. CallsMatch'
  BY DEF CallsMatch, SignupAwaits, VerifyAwaits, RoleAwaits,
         SignupTransaction, RoleTransaction
<1>3. RowsMatch'
  BY DEF RowsMatch, Awaits, SignupAwaits, VerifyAwaits, RoleAwaits,
         SignupTransaction, RoleTransaction
<1>4. KeysMatch'
  <2>1. \A r \in Request : pc[r] \in VerifyAwaits => call[r].key \in Request
    BY DEF CallsMatch, VerifyForm
  <2>2. QED
    BY <2>1 DEF KeysMatch, VerifyAwaits
<1>5. (ValuesHeld /\ RolesAreWhole /\ SchoolsAreComplete /\ AnnouncedAreVerified)'
  BY DEF ValuesHeld, RolesAreWhole, SchoolsAreComplete, AnnouncedAreVerified
<1>6. ConnectionsHeld'
  BY DEF TypeOK, ConnectionsHeld, RolledBack, InTransaction,
         SignupTransaction, RoleTransaction
<1>7. QED
  BY <1>1, <1>2, <1>3, <1>4, <1>5, <1>6

LEMMA ThrowsInv ==
  ASSUME RegistrationInv, NEW r \in Request, Throws(r)
  PROVE  RegistrationInv'
<1>1. /\ pc' \in [Request -> {"idle", "done"} \cup Awaits]
      /\ \A q \in Request : IF q = r THEN pc'[q] = "done" ELSE pc'[q] = pc[q]
  BY DEF RegistrationInv, TypeOK, Throws, Goto
<1>2. QED
  BY <1>1, AbortInv DEF Throws, mail

LEMMA CrashInv ==
  ASSUME RegistrationInv, Crash
  PROVE  RegistrationInv'
<1>1. /\ pc' \in [Request -> {"idle", "done"} \cup Awaits]
      /\ \A q \in Request : IF pc[q] = "idle" THEN pc'[q] = "idle"
                                             ELSE pc'[q] = "done"
  BY DEF RegistrationInv, TypeOK, Crash
<1>2. QED
  BY <1>1, AbortInv DEF Crash

LEMMA DeliverInv ==
  ASSUME RegistrationInv, NEW r \in Request, Deliver(r)
  PROVE  RegistrationInv'
  BY DEF RegistrationInv, Deliver, rows, TypeOK, Mail, CallsMatch, RowsMatch,
         KeysMatch, ValuesHeld, RolesAreWhole, ConnectionsHeld,
         SchoolsAreComplete, AnnouncedAreVerified, Opened

-----------------------------------------------------------------------------
(* Steps that write.                                                        *)

LEMMA InsertSchoolInv ==
  ASSUME RegistrationInv, NEW r \in Request, InsertSchool(r)
  PROVE  RegistrationInv'
<1> USE DEF RegistrationInv, InsertSchool, At, Goto, mail
<1>0. /\ call[r] \in SignupForm
      /\ school[r] = "none" /\ account[r] = "none"
  BY DEF TypeOK, CallsMatch, RowsMatch, SignupAwaits, SignupTransaction,
         Awaits, Opened
<1>1. TypeOK'
  BY DEF TypeOK, Awaits, SignupAwaits, SignupTransaction
<1>2. CallsMatch'
  BY <1>0 DEF TypeOK, CallsMatch, SignupAwaits, VerifyAwaits, RoleAwaits,
         SignupTransaction, RoleTransaction
<1>3. RowsMatch'
  BY <1>0 DEF TypeOK, RowsMatch, Opened, Awaits, SignupAwaits,
         SignupTransaction
<1>4. KeysMatch'
  BY <1>0 DEF TypeOK, KeysMatch, Opened
<1>5. ValuesHeld'
  BY <1>0 DEF TypeOK, ValuesHeld
<1>6. ConnectionsHeld'
  BY DEF TypeOK, ConnectionsHeld, InTransaction, SignupTransaction
<1>7. (RolesAreWhole /\ SchoolsAreComplete /\ AnnouncedAreVerified)'
  BY <1>0 DEF TypeOK, RolesAreWhole, SchoolsAreComplete,
         AnnouncedAreVerified, Opened
<1>8. QED
  BY <1>1, <1>2, <1>3, <1>4, <1>5, <1>6, <1>7

LEMMA InsertAdminInv ==
  ASSUME RegistrationInv, NEW r \in Request, InsertAdmin(r)
  PROVE  RegistrationInv'
<1> USE DEF RegistrationInv, InsertAdmin, At, Goto, mail
<1>0. call[r] \in SignupForm /\ account[r] = "none"
  BY DEF TypeOK, CallsMatch, RowsMatch, SignupAwaits, SignupTransaction, Awaits
<1>1. TypeOK'
  BY DEF TypeOK, Awaits, SignupAwaits, SignupTransaction
<1>2. CallsMatch'
  BY <1>0 DEF TypeOK, CallsMatch, SignupAwaits, VerifyAwaits, RoleAwaits,
         SignupTransaction, RoleTransaction
<1>3. RowsMatch'
  BY <1>0 DEF TypeOK, RowsMatch, Opened, Awaits, SignupAwaits,
         SignupTransaction
<1>4. (KeysMatch /\ RolesAreWhole /\ AnnouncedAreVerified)'
  BY DEF TypeOK, KeysMatch, RolesAreWhole, AnnouncedAreVerified, Opened
<1>5. ValuesHeld'
  BY <1>0 DEF TypeOK, ValuesHeld
<1>6. ConnectionsHeld'
  BY DEF TypeOK, ConnectionsHeld, InTransaction, SignupTransaction
<1>7. SchoolsAreComplete'
  BY <1>0 DEF TypeOK, SchoolsAreComplete, Opened
<1>8. QED
  BY <1>1, <1>2, <1>3, <1>4, <1>5, <1>6, <1>7

LEMMA RememberInv ==
  ASSUME RegistrationInv, NEW r \in Request, Remember(r)
  PROVE  RegistrationInv'
<1> USE DEF RegistrationInv, Remember, At, Goto, rows
<1>1. TypeOK'
  BY DEF TypeOK, Mail, Awaits, SignupAwaits, SignupTransaction
<1>2. CallsMatch'
  BY DEF TypeOK, CallsMatch, SignupAwaits, VerifyAwaits, RoleAwaits,
         SignupTransaction, RoleTransaction
<1>3. RowsMatch'
  BY DEF TypeOK, RowsMatch, Opened, Awaits, SignupAwaits, SignupTransaction
<1>4. (KeysMatch /\ ValuesHeld /\ RolesAreWhole /\ SchoolsAreComplete
          /\ AnnouncedAreVerified)'
  BY DEF TypeOK, KeysMatch, ValuesHeld, RolesAreWhole, SchoolsAreComplete,
         AnnouncedAreVerified, Opened
<1>5. ConnectionsHeld'
  BY DEF TypeOK, ConnectionsHeld, InTransaction, SignupTransaction
<1>6. QED
  BY <1>1, <1>2, <1>3, <1>4, <1>5

\* The commit makes the school and its administrator visible at once; the
\* key is there already.
LEMMA CommitSchoolInv ==
  ASSUME RegistrationInv, NEW r \in Request, CommitSchool(r)
  PROVE  RegistrationInv'
<1> USE DEF RegistrationInv, CommitSchool, At, Goto, mail
<1>0. /\ school[r] = "pending" /\ account[r] = "pending"
      /\ r \in onboarding
  BY DEF RowsMatch, KeysMatch
<1>1. TypeOK'
  BY DEF TypeOK
<1>2. CallsMatch'
  BY <1>0 DEF TypeOK, CallsMatch, SignupAwaits, VerifyAwaits, RoleAwaits,
         SignupTransaction, RoleTransaction
<1>3. RowsMatch'
  BY <1>0 DEF TypeOK, RowsMatch, Opened, Awaits, SignupAwaits, VerifyAwaits,
         RoleAwaits, SignupTransaction, RoleTransaction
<1>4. KeysMatch'
  BY <1>0 DEF TypeOK, KeysMatch, Opened
<1>5. ValuesHeld'
  BY <1>0 DEF TypeOK, ValuesHeld
<1>6. ConnectionsHeld'
  BY DEF TypeOK, ConnectionsHeld, InTransaction, SignupTransaction,
         RoleTransaction
<1>7. (RolesAreWhole /\ SchoolsAreComplete /\ AnnouncedAreVerified)'
  BY <1>0 DEF TypeOK, RolesAreWhole, SchoolsAreComplete,
         AnnouncedAreVerified, Opened
<1>8. QED
  BY <1>1, <1>2, <1>3, <1>4, <1>5, <1>6, <1>7

\* Only a committed school is marked verified: a key of a sign-up that was
\* rolled back has led nowhere at status.load.
LEMMA SaveStatusInv ==
  ASSUME RegistrationInv, NEW r \in Request, SaveStatus(r)
  PROVE  RegistrationInv'
<1> USE DEF RegistrationInv, SaveStatus, At, Goto, mail
<1>0. /\ call[r].key \in Request
      /\ Opened(call[r].key)
  BY DEF CallsMatch, VerifyAwaits, VerifyForm, KeysMatch
<1>1. TypeOK'
  BY <1>0 DEF TypeOK, Awaits, VerifyAwaits
<1>2. CallsMatch'
  BY <1>0 DEF TypeOK, CallsMatch, SignupAwaits, VerifyAwaits, RoleAwaits,
         SignupTransaction, RoleTransaction, Opened
<1>3. RowsMatch'
  BY <1>0 DEF TypeOK, RowsMatch, Opened, Awaits, VerifyAwaits
<1>4. KeysMatch'
  <2>1. \A q \in Request : pc[q] \in VerifyAwaits => call[q].key \in Request
    BY DEF CallsMatch, VerifyForm
  <2>2. QED
    BY <1>0, <2>1 DEF TypeOK, KeysMatch, Opened, VerifyAwaits
<1>5. ValuesHeld'
  BY <1>0 DEF TypeOK, ValuesHeld, Opened
<1>6. ConnectionsHeld'
  BY DEF TypeOK, ConnectionsHeld, InTransaction, SignupTransaction,
         RoleTransaction
<1>7. (RolesAreWhole /\ SchoolsAreComplete /\ AnnouncedAreVerified)'
  BY <1>0 DEF TypeOK, RolesAreWhole, SchoolsAreComplete,
         AnnouncedAreVerified, Opened
<1>8. QED
  BY <1>1, <1>2, <1>3, <1>4, <1>5, <1>6, <1>7

LEMMA VerifiedMailInv ==
  ASSUME RegistrationInv, NEW r \in Request, VerifiedMail(r)
  PROVE  RegistrationInv'
<1> USE DEF RegistrationInv, VerifiedMail, At, Goto, rows
<1>0. call[r].key \in Request /\ school[call[r].key] = "verified"
  BY DEF CallsMatch, VerifyAwaits, VerifyForm, KeysMatch
<1>1. TypeOK'
  BY <1>0 DEF TypeOK, Mail
<1>2. CallsMatch'
  BY DEF TypeOK, CallsMatch, SignupAwaits, VerifyAwaits, RoleAwaits,
         SignupTransaction, RoleTransaction
<1>3. RowsMatch'
  BY DEF TypeOK, RowsMatch, Opened, Awaits, SignupAwaits, VerifyAwaits,
         RoleAwaits, SignupTransaction, RoleTransaction
<1>4. (KeysMatch /\ ValuesHeld /\ RolesAreWhole /\ SchoolsAreComplete)'
  BY DEF TypeOK, KeysMatch, ValuesHeld, RolesAreWhole, SchoolsAreComplete,
         Opened
<1>5. AnnouncedAreVerified'
  BY <1>0 DEF AnnouncedAreVerified
<1>6. ConnectionsHeld'
  BY DEF TypeOK, ConnectionsHeld, InTransaction, SignupTransaction,
         RoleTransaction
<1>7. QED
  BY <1>1, <1>2, <1>3, <1>4, <1>5, <1>6

\* Writing the role or its permissions touches nothing of a school's.
LEMMA RoleWriteInv ==
  ASSUME RegistrationInv, NEW r \in Request,
         InsertRole(r) \/ Grant(r) \/ CommitRole(r)
  PROVE  RegistrationInv'
<1> USE DEF RegistrationInv, InsertRole, Grant, CommitRole, At, Goto, mail
<1>1. TypeOK'
  BY DEF TypeOK, Awaits, RoleAwaits, RoleTransaction
<1>2. CallsMatch'
  BY DEF TypeOK, CallsMatch, SignupAwaits, VerifyAwaits, RoleAwaits,
         SignupTransaction, RoleTransaction
<1>3. RowsMatch'
  BY DEF TypeOK, RowsMatch, Opened, Awaits, SignupAwaits, VerifyAwaits,
         RoleAwaits, SignupTransaction, RoleTransaction
<1>4. (KeysMatch /\ ValuesHeld /\ SchoolsAreComplete /\ AnnouncedAreVerified)'
  BY DEF TypeOK, KeysMatch, ValuesHeld, SchoolsAreComplete,
         AnnouncedAreVerified, Opened
<1>5. RolesAreWhole'
  BY DEF TypeOK, RolesAreWhole, RowsMatch, Awaits, RoleAwaits, RoleTransaction
<1>6. ConnectionsHeld'
  BY DEF TypeOK, ConnectionsHeld, InTransaction, SignupTransaction,
         RoleTransaction
<1>7. QED
  BY <1>1, <1>2, <1>3, <1>4, <1>5, <1>6

-----------------------------------------------------------------------------
(* The invariant.                                                           *)

LEMMA SignupStepInv ==
  ASSUME RegistrationInv, NEW r \in Request, SignupStep(r)
  PROVE  RegistrationInv'
<1>1. ASSUME NEW from, NEW found, NEW to,
             Lookup(r, from, found, to),
             from \in SignupUnwritten \ {"connect"},
             to \in SignupUnwritten \ {"connect"}
      PROVE  RegistrationInv'
  BY <1>1, PassesInv, ThrowsInv DEF Lookup
<1>2. CASE SignupConnect(r)
  BY <1>2, ConnectInv DEF SignupConnect
<1>3. CASE FindSchool(r) \/ FindUsername(r) \/ FindEmail(r)
  BY <1>1, <1>3 DEF FindSchool, FindUsername, FindEmail, SignupUnwritten
<1>4. CASE FindRole(r)
  BY <1>4, PassesInv DEF FindRole, SignupUnwritten
<1>5. CASE SchoolConflict(r) \/ AdminConflict(r)
  BY <1>5, ThrowsInv DEF SchoolConflict, AdminConflict
<1>6. QED
  BY <1>2, <1>3, <1>4, <1>5, InsertSchoolInv, InsertAdminInv, RememberInv,
     CommitSchoolInv DEF SignupStep

LEMMA VerifyStepInv ==
  ASSUME RegistrationInv, NEW r \in Request, VerifyStep(r)
  PROVE  RegistrationInv'
<1>1. CASE LoadSchool(r)
  BY <1>1, PassesInv, ThrowsInv DEF LoadSchool
<1>2. QED
  BY <1>1, SaveStatusInv, VerifiedMailInv DEF VerifyStep

LEMMA RoleStepInv ==
  ASSUME RegistrationInv, NEW r \in Request, RoleStep(r)
  PROVE  RegistrationInv'
<1>1. CASE FindTitle(r)
  BY <1>1, PassesInv, ThrowsInv DEF FindTitle
<1>2. CASE RoleConnect(r)
  BY <1>2, ConnectInv DEF RoleConnect
<1>3. CASE FindPermissions(r)
  BY <1>3, PassesInv DEF FindPermissions
<1>4. QED
  BY <1>1, <1>2, <1>3, RoleWriteInv DEF RoleStep

LEMMA StepInv == RegistrationInv /\ [Next]_vars => RegistrationInv'
<1> SUFFICES ASSUME RegistrationInv, [Next]_vars PROVE RegistrationInv'
  OBVIOUS
<1>1. CASE \E r \in Request : ClientCall(r)
  BY <1>1, ClientCallInv
<1>2. CASE \E r \in Request : HandlerStep(r)
  BY <1>2, SignupStepInv, VerifyStepInv, RoleStepInv DEF HandlerStep
<1>3. CASE \E r \in Request : Deliver(r)
  BY <1>3, DeliverInv
<1>4. CASE \E r \in Request : Fail(r)
  BY <1>4, ThrowsInv DEF Fail
<1>5. CASE Crash
  BY <1>5, CrashInv
<1>6. CASE UNCHANGED vars
  BY <1>6 DEF vars, rows, mail, RegistrationInv, TypeOK, CallsMatch,
         RowsMatch, KeysMatch, ValuesHeld, RolesAreWhole, ConnectionsHeld,
         SchoolsAreComplete, AnnouncedAreVerified, Opened
<1>7. QED
  BY <1>1, <1>2, <1>3, <1>4, <1>5, <1>6 DEF Next

\* The inductive invariant holds for all sign-ups, verifications and role
\* creations, with any number of requests and any size of the pool.
THEOREM Registered == Spec => []RegistrationInv
<1>1. QED
  BY InitInv, StepInv, PTL DEF Spec

\* createSchool's transaction and its key: schools come with administrators.
THEOREM SchoolsComplete == Spec => []SchoolsAreComplete
<1>1. RegistrationInv => SchoolsAreComplete
  BY DEF RegistrationInv
<1>2. QED
  BY <1>1, Registered, PTL

\* verifySchool announces only verified schools.
THEOREM AnnouncementsTrue == Spec => []AnnouncedAreVerified
<1>1. RegistrationInv => AnnouncedAreVerified
  BY DEF RegistrationInv
<1>2. QED
  BY <1>1, Registered, PTL

\* No two schools share a college name or an administrator's e-mail.
THEOREM SchoolsDistinct == Spec => []SchoolsAreDistinct
<1>1. RegistrationInv => SchoolsAreDistinct
  BY DEF RegistrationInv, ValuesHeld, SchoolsAreComplete, SchoolsAreDistinct,
         Opened
<1>2. QED
  BY <1>1, Registered, PTL

-----------------------------------------------------------------------------
(* The pool of connections.                                                 *)

\* The connections checked out are finitely many, and no more than there are.
PoolBounded == IsFiniteSet(connections) /\ Cardinality(connections) <= PoolSize

\* Giving connections back keeps them within the pool.
LEMMA FewerConnections ==
  ASSUME PoolBounded, connections' \subseteq connections
  PROVE  PoolBounded'
<1>1. IsFiniteSet(connections') /\ Cardinality(connections') <= Cardinality(connections)
  BY FS_Subset, FS_CardinalityType DEF PoolBounded
<1>2. Cardinality(connections) \in Nat /\ Cardinality(connections') \in Nat
  BY <1>1, FS_CardinalityType DEF PoolBounded
<1>3. QED
  BY <1>1, <1>2, PoolAssumption DEF PoolBounded

\* Connect takes one only while one is free.
LEMMA OneMoreConnection ==
  ASSUME PoolBounded, NEW r, NEW from, NEW to, Connect(r, from, to)
  PROVE  PoolBounded'
<1>1. connections' = connections \cup {r} /\ Cardinality(connections) < PoolSize
  BY DEF Connect, FreeConnection
<1>2. /\ IsFiniteSet(connections')
      /\ \/ Cardinality(connections') = Cardinality(connections)
         \/ Cardinality(connections') = Cardinality(connections) + 1
  BY <1>1, FS_AddElement DEF PoolBounded
<1>3. Cardinality(connections) \in Nat
  BY FS_CardinalityType DEF PoolBounded
<1>4. QED
  BY <1>1, <1>2, <1>3, PoolAssumption DEF PoolBounded

LEMMA PoolStep == PoolBounded /\ [Next]_vars => PoolBounded'
<1> SUFFICES ASSUME PoolBounded, [Next]_vars PROVE PoolBounded'
  OBVIOUS
<1>1. ASSUME NEW r \in Request, ClientCall(r)
      PROVE  connections' \subseteq connections
  BY <1>1 DEF ClientCall, CreateSchool, VerifySchool, CreateRole, Calls
<1>2. ASSUME NEW r \in Request, SignupStep(r), ~ SignupConnect(r)
      PROVE  connections' \subseteq connections
  BY <1>2 DEF SignupStep, FindSchool, FindRole, FindUsername, FindEmail, Lookup,
     Passes, InsertSchool, SchoolConflict, InsertAdmin, AdminConflict, Remember,
     CommitSchool, Throws, RolledBack
<1>3. ASSUME NEW r \in Request, VerifyStep(r)
      PROVE  connections' \subseteq connections
  BY <1>3 DEF VerifyStep, LoadSchool, SaveStatus, VerifiedMail, Passes, Throws,
     RolledBack
<1>4. ASSUME NEW r \in Request, RoleStep(r), ~ RoleConnect(r)
      PROVE  connections' \subseteq connections
  BY <1>4 DEF RoleStep, FindTitle, FindPermissions, InsertRole, Grant, CommitRole,
     Passes, Throws, RolledBack
<1>5. ASSUME NEW r \in Request, Deliver(r) \/ Fail(r)
      PROVE  connections' \subseteq connections
  BY <1>5 DEF Deliver, Fail, Throws, RolledBack
<1>6. Crash \/ UNCHANGED vars => connections' \subseteq connections
  BY DEF Crash, RolledBack, vars
<1>7. ASSUME NEW r \in Request, SignupConnect(r) \/ RoleConnect(r)
      PROVE  PoolBounded'
  BY <1>7, OneMoreConnection DEF SignupConnect, RoleConnect
<1>8. QED
  BY <1>1, <1>2, <1>3, <1>4, <1>5, <1>6, <1>7, FewerConnections
     DEF Next, HandlerStep

\* Whatever fails or crashes, a handler gives its connection back when it ends,
\* it loses it no earlier, and the pool is never overdrawn.
THEOREM ConnectionsComeBack == Spec => []ConnectionsReturned
<1>1. Init => PoolBounded
  BY FS_EmptySet, PoolAssumption DEF Init, PoolBounded
<1>2. RegistrationInv /\ PoolBounded => ConnectionsReturned
  BY DEF RegistrationInv, PoolBounded, ConnectionsReturned
<1>3. QED
  BY <1>1, <1>2, PoolStep, Registered, PTL DEF Spec

\* Every table, key, mail and connection keeps its type.
THEOREM RegistrationTypes == Spec => []TypeOK
<1>1. RegistrationInv => TypeOK
  BY DEF RegistrationInv
<1>2. QED
  BY <1>1, Registered, PTL

-----------------------------------------------------------------------------
(* The implementation of SchoolLedger.                                      *)

\* The ledger is what is committed: rows in flight are not in it.
SameLedger == UNCHANGED Ledger!ledger

LEMMA Invisible ==
  ASSUME TypeOK, TypeOK',
         \A r \in Request :
            /\ Opened(r)' <=> Opened(r)
            /\ school'[r] = "verified" <=> school[r] = "verified"
            /\ account'[r] = "kept" <=> account[r] = "kept"
            /\ role'[r] = "kept" <=> role[r] = "kept"
            /\ granted'[r] = "kept" <=> granted[r] = "kept",
         UNCHANGED <<onboarding, inbox>>
  PROVE  SameLedger
<1>1. Without(school, Request)' = Without(school, Request)
  BY DEF TypeOK, Without, Opened
<1>2. QED
  BY <1>1 DEF SameLedger, Ledger!ledger

LEMMA UnchangedRows ==
  ASSUME UNCHANGED <<rows, onboarding, inbox>>
  PROVE  SameLedger
  BY DEF SameLedger, Ledger!ledger, rows, Without

LEMMA AbortIsInvisible ==
  ASSUME TypeOK, TypeOK', NEW Aborted \in SUBSET Request,
         RolledBack(Aborted), UNCHANGED <<onboarding, inbox>>
  PROVE  SameLedger
  BY RollbackRows, Invisible

LEMMA ThrowsIsInvisible ==
  ASSUME TypeOK, TypeOK', NEW r \in Request, Throws(r)
  PROVE  SameLedger
  BY AbortIsInvisible DEF Throws, mail

LEMMA InsertIsInvisible ==
  ASSUME RegistrationInv, TypeOK', NEW r \in Request,
         InsertSchool(r) \/ InsertAdmin(r) \/ InsertRole(r) \/ Grant(r)
  PROVE  SameLedger
<1>1. pc[r] \in Awaits /\ pc[r] \in {"insert.school", "insert.admin",
                                      "insert.role", "grant"}
  BY DEF InsertSchool, InsertAdmin, InsertRole, Grant, At, Awaits,
         SignupAwaits, SignupTransaction, RoleAwaits, RoleTransaction
<1>2. ~Opened(r) /\ account[r] # "kept" /\ role[r] # "kept" /\ granted[r] # "kept"
  BY <1>1 DEF RegistrationInv, RowsMatch
<1>3. QED
  BY <1>2, Invisible DEF RegistrationInv, TypeOK, Opened, InsertSchool,
     InsertAdmin, InsertRole, Grant, mail

\* The commit of a sign-up opens the school in the ledger.
LEMMA CommitSchoolOpens ==
  ASSUME RegistrationInv, NEW r \in Request, CommitSchool(r)
  PROVE  Ledger!Open(r)
<1>1. school[r] = "pending" /\ r \in onboarding
  BY DEF CommitSchool, At, RegistrationInv, RowsMatch, KeysMatch
<1>2. Without(school, Request)'
         = [Without(school, Request) EXCEPT ![r] = "in_progress"]
  BY <1>1 DEF CommitSchool, RegistrationInv, TypeOK, Without
<1>3. Without(school, Request)[r] = "none"
  BY <1>1 DEF Without
<1>4. {s \in Request : account[s] = "kept"}'
         = {s \in Request : account[s] = "kept"} \cup {r}
  BY DEF CommitSchool, RegistrationInv, TypeOK
<1>5. QED
  BY <1>1, <1>2, <1>3, <1>4 DEF Ledger!Open, CommitSchool, mail

LEMMA SaveStatusVerifies ==
  ASSUME RegistrationInv, NEW r \in Request, SaveStatus(r)
  PROVE  Ledger!Verify(call[r].key) \/ SameLedger
<1> DEFINE k == call[r].key
<1>1. k \in Request /\ Opened(k)
  BY DEF SaveStatus, At, RegistrationInv, CallsMatch, VerifyAwaits,
         VerifyForm, KeysMatch
<1>2. Without(school, Request)'
         = [Without(school, Request) EXCEPT ![k] = "verified"]
  BY <1>1 DEF SaveStatus, RegistrationInv, TypeOK, Without
<1>3. CASE school[k] = "in_progress"
  <2>1. Without(school, Request)[k] = "in_progress"
    BY <1>1, <1>3 DEF Without
  <2>2. QED
    BY <1>2, <2>1 DEF Ledger!Verify, SaveStatus, mail
<1>4. CASE school[k] = "verified"
  <2>1. school' = school
    BY <1>1, <1>4 DEF SaveStatus, RegistrationInv, TypeOK
  <2>2. QED
    BY <2>1, UnchangedRows DEF SaveStatus, rows, mail
<1>5. QED
  BY <1>1, <1>3, <1>4 DEF Opened

LEMMA VerifiedMailAnnounces ==
  ASSUME RegistrationInv, NEW r \in Request, VerifiedMail(r)
  PROVE  \E k \in Request : Ledger!Announce(k)
<1>1. PICK k \in Request : k = call[r].key /\ school[k] = "verified"
  BY DEF VerifiedMail, At, RegistrationInv, CallsMatch, VerifyAwaits,
         VerifyForm, KeysMatch
<1>2. Without(school, Request)[k] = "verified"
  BY <1>1 DEF Without
<1>3. {s \in Request : <<"verified", s>> \in inbox}'
         = {s \in Request : <<"verified", s>> \in inbox} \cup {k}
  BY <1>1 DEF VerifiedMail
<1>4. QED
  BY <1>1, <1>2, <1>3 DEF Ledger!Announce, VerifiedMail, rows, Without

LEMMA CommitRoleAdds ==
  ASSUME RegistrationInv, NEW r \in Request, CommitRole(r)
  PROVE  Ledger!AddRole(r)
<1>1. /\ {s \in Request : role[s] = "kept"}'
            = {s \in Request : role[s] = "kept"} \cup {r}
      /\ {s \in Request : granted[s] = "kept"}'
            = {s \in Request : granted[s] = "kept"} \cup {r}
  BY DEF CommitRole, RegistrationInv, TypeOK
<1>2. QED
  BY <1>1 DEF Ledger!AddRole, CommitRole, mail, Without

LEMMA DeliverIsInvisible ==
  ASSUME NEW r \in Request, Deliver(r)
  PROVE  SameLedger
<1>1. {s \in Request : <<"verified", s>> \in inbox}'
         = {s \in Request : <<"verified", s>> \in inbox}
  BY DEF Deliver
<1>2. QED
  BY <1>1 DEF SameLedger, Ledger!ledger, Deliver, rows, Without

LEMMA SignupStepImplements ==
  ASSUME RegistrationInv, TypeOK', NEW r \in Request, SignupStep(r)
  PROVE  [Ledger!Next]_(Ledger!ledger)
<1> USE DEF RegistrationInv
<1>1. CASE SignupConnect(r) \/ FindRole(r)
  BY <1>1, UnchangedRows DEF SignupConnect, FindRole, Connect, Passes, mail,
         SameLedger
<1>2. CASE FindSchool(r) \/ FindUsername(r) \/ FindEmail(r)
  <2>1. UNCHANGED <<rows, onboarding, inbox>> \/ Throws(r)
    BY <1>2 DEF FindSchool, FindUsername, FindEmail, Lookup, Passes, mail
  <2>2. QED
    BY <2>1, UnchangedRows, ThrowsIsInvisible DEF SameLedger
<1>3. CASE SchoolConflict(r) \/ AdminConflict(r)
  BY <1>3, ThrowsIsInvisible DEF SchoolConflict, AdminConflict, SameLedger
<1>4. CASE InsertSchool(r) \/ InsertAdmin(r)
  BY <1>4, InsertIsInvisible DEF SameLedger
<1>5. CASE Remember(r)
  <2>1. Ledger!HandOutKey(r)
    BY <1>5 DEF Remember, rows, Ledger!HandOutKey, Without
  <2>2. QED
    BY <2>1 DEF Ledger!Next
<1>6. CASE CommitSchool(r)
  BY <1>6, CommitSchoolOpens DEF Ledger!Next
<1>7. QED
  BY <1>1, <1>2, <1>3, <1>4, <1>5, <1>6 DEF SignupStep

LEMMA VerifyStepImplements ==
  ASSUME RegistrationInv, TypeOK', NEW r \in Request, VerifyStep(r)
  PROVE  [Ledger!Next]_(Ledger!ledger)
<1> USE DEF RegistrationInv
<1>1. pc[r] \in VerifyAwaits
  BY DEF VerifyStep, LoadSchool, SaveStatus, VerifiedMail, At, VerifyAwaits
<1>2. call[r].key \in Request
  BY <1>1 DEF CallsMatch, VerifyForm
<1>3. CASE LoadSchool(r)
  <2>1. UNCHANGED <<rows, onboarding, inbox>> \/ Throws(r)
    BY <1>3 DEF LoadSchool, Passes, mail
  <2>2. QED
    BY <2>1, UnchangedRows, ThrowsIsInvisible DEF SameLedger
<1>4. CASE SaveStatus(r)
  BY <1>2, <1>4, SaveStatusVerifies DEF SameLedger, Ledger!Next
<1>5. CASE VerifiedMail(r)
  BY <1>5, VerifiedMailAnnounces DEF Ledger!Next
<1>6. QED
  BY <1>3, <1>4, <1>5 DEF VerifyStep

LEMMA RoleStepImplements ==
  ASSUME RegistrationInv, TypeOK', NEW r \in Request, RoleStep(r)
  PROVE  [Ledger!Next]_(Ledger!ledger)
<1> USE DEF RegistrationInv
<1>1. CASE FindTitle(r) \/ RoleConnect(r) \/ FindPermissions(r)
  <2>1. UNCHANGED <<rows, onboarding, inbox>> \/ Throws(r)
    BY <1>1 DEF FindTitle, RoleConnect, FindPermissions, Connect, Passes, mail
  <2>2. QED
    BY <2>1, UnchangedRows, ThrowsIsInvisible DEF SameLedger
<1>2. CASE InsertRole(r) \/ Grant(r)
  BY <1>2, InsertIsInvisible DEF SameLedger
<1>3. CASE CommitRole(r)
  BY <1>3, CommitRoleAdds DEF Ledger!Next
<1>4. QED
  BY <1>1, <1>2, <1>3 DEF RoleStep

LEMMA StepImplements ==
  RegistrationInv /\ RegistrationInv' /\ [Next]_vars
     => [Ledger!Next]_(Ledger!ledger)
<1> SUFFICES ASSUME RegistrationInv, RegistrationInv', [Next]_vars
             PROVE  [Ledger!Next]_(Ledger!ledger)
  OBVIOUS
<1>0. TypeOK /\ TypeOK'
  BY DEF RegistrationInv
<1>1. CASE \E r \in Request : ClientCall(r)
  BY <1>1, UnchangedRows DEF ClientCall, CreateSchool, VerifySchool,
     CreateRole, Calls, mail, SameLedger
<1>2. CASE \E r \in Request : HandlerStep(r)
  BY <1>0, <1>2, SignupStepImplements, VerifyStepImplements,
     RoleStepImplements DEF HandlerStep
<1>3. CASE \E r \in Request : Deliver(r)
  BY <1>3, DeliverIsInvisible DEF SameLedger
<1>4. CASE \E r \in Request : Fail(r)
  BY <1>0, <1>4, ThrowsIsInvisible DEF Fail, SameLedger
<1>5. CASE Crash
  BY <1>0, <1>5, AbortIsInvisible DEF Crash, SameLedger
<1>6. CASE UNCHANGED vars
  BY <1>6, UnchangedRows DEF vars, rows, SameLedger
<1>7. QED
  BY <1>1, <1>2, <1>3, <1>4, <1>5, <1>6 DEF Next

\* Whatever fails or crashes, others see schools appear with administrator
\* and key, verified after that, and roles appear with their permissions.
THEOREM LedgerImplemented == Spec => LedgerSpec
<1>1. Init => Ledger!Init
  BY DEF Init, Ledger!Init, Without
<1>2. QED
  BY <1>1, Registered, StepImplements, PTL DEF Spec, LedgerSpec, Ledger!Spec
=============================================================================
