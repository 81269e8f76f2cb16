---------------------------- MODULE AccessProofs ----------------------------
(***************************************************************************)
(* The invariant of Access, for any number of staff, learners, requests    *)
(* and batches: CoreInv about accounts, their passwords and the reset      *)
(* keys, and then StaffInv about the two rows of a member of staff.        *)
(***************************************************************************)
EXTENDS Access, TLAPS

-----------------------------------------------------------------------------
(* Rows, drafts and locals.                                                 *)

LEMMA NoDraftFacts ==
  /\ DOMAIN NoDraft.staff = {} /\ DOMAIN NoDraft.users = {}
  /\ Partial(NoDraft.staff, Staff, StaffRow) /\ Partial(NoDraft.users, Account, AccountRow)
  BY DEF NoDraft, Partial

LEMMA FreshFacts == Fresh \in Local
<1>1. <<>> \in Seq(Staff \X Role)
  OBVIOUS
<1>2. QED
  BY <1>1 DEF Fresh, Local

LEMMA PutFacts ==
  ASSUME NEW S, NEW Row, NEW f, Partial(f, S, Row), NEW k \in S, NEW row \in Row
  PROVE  /\ Partial(Put(f, k, row), S, Row)
         /\ DOMAIN Put(f, k, row) = DOMAIN f \cup {k}
         /\ Put(f, k, row)[k] = row
         /\ \A x \in DOMAIN f \ {k} : Put(f, k, row)[x] = f[x]
  BY DEF Partial, Put

LEMMA WriteBackAccount ==
  ASSUME NEW row \in AccountRow, NEW entity \in AccountRow, NEW columns
  PROVE  /\ WriteBack(row, entity, columns) \in AccountRow
         /\ \A c \in {"username", "password"} :
              WriteBack(row, entity, columns)[c] = IF c \in columns THEN entity[c] ELSE row[c]
  BY DEF WriteBack, AccountRow

LEMMA WriteBackStaff ==
  ASSUME NEW row \in StaffRow, NEW entity \in StaffRow, NEW columns
  PROVE  WriteBack(row, entity, columns) \in StaffRow
  BY DEF WriteBack, StaffRow

\* What a transaction sees are rows.
LEMMA SeenFacts ==
  ASSUME TypeOK, NEW r \in Request
  PROVE  /\ SeenStaff(r) \in [Staff -> StaffRow \cup {None}]
         /\ SeenUsers(r) \in [Account -> AccountRow \cup {None}]
         /\ \A s \in Staff : staff[s] # None => SeenStaff(r)[s] \in StaffRow
         /\ \A a \in Account : SeenUsers(r)[a] =
              IF a \in DOMAIN draft[r].users THEN draft[r].users[a] ELSE users[a]
         /\ \A a \in DOMAIN draft[r].users : draft[r].users[a] \in AccountRow
  BY DEF TypeOK, SeenStaff, SeenUsers, Over, Partial

-----------------------------------------------------------------------------
(* Initial states.                                                          *)

LEMMA OpenedFacts ==
  ASSUME NEW e \in Address, NEW x \in Role \cup {"student"}, NEW c \in BOOLEAN
  PROVE  /\ Opened(e, x, c) \in AccountRow
         /\ Opened(e, x, c).username # None
         /\ Opened(e, x, c).password = <<None, 0>>
<1>1. <<x, FALSE>> \in Username /\ <<None, 0>> \in Password
  BY DEF Username, Password
<1>2. QED
  BY <1>1, NoneAssumption DEF Opened, AccountRow

LEMMA UsersStart ==
  ASSUME Init
  PROVE  users \in [Account -> AccountRow \cup {None}] /\ UsersWhole
<1> DEFINE Accounts == {Opened(e, x, c) : e \in Address, x \in Role \cup {"student"}, c \in BOOLEAN}
<1>1. users \in [Account -> {None} \cup Accounts]
  BY DEF Init
<1>2. \A row \in Accounts : row \in AccountRow /\ row.username # None /\ row.password = <<None, 0>>
  BY OpenedFacts
<1>3. <<None, 0>> # None
  BY NoneAssumption DEF Password
<1>4. known = {<<None, 0>>}
  BY DEF Init
<1> HIDE DEF Accounts
<1>5. QED
  BY <1>1, <1>2, <1>3, <1>4 DEF UsersWhole, Whole, Owned

LEMMA InitInv == Init => CoreInv
<1> SUFFICES ASSUME Init PROVE CoreInv
  OBVIOUS
<1>1. TypeOK
  <2>1. staff \in [Staff -> StaffRow \cup {None}]
    <3>1. \A x \in Role : <<x, FALSE>> \in Username
      BY DEF Username
    <3>2. \A e \in Email : NewStaff(e) \in StaffRow
      BY DEF NewStaff, StaffRow
    <3>3. [email : Email, status : {"assigned"}, username : {<<x, FALSE>> : x \in Role}] \subseteq StaffRow
      BY <3>1 DEF StaffRow
    <3>4. Entered \subseteq StaffRow \cup {None}
      BY <3>2, <3>3 DEF Entered
    <3>5. QED
      BY <3>4 DEF Init
  <2>2. users \in [Account -> AccountRow \cup {None}] /\ UsersWhole
    BY UsersStart
  <2>3. req \in [Request -> Local]
    BY FreshFacts DEF Init
  <2>4. draft = [r \in Request |-> [staff |-> draft[r].staff, users |-> draft[r].users]]
    BY DEF Init, NoDraft
  <2>5. redis \in [reset : [Keys -> Account \cup {None}], code : [Account -> Keys \cup {None}]]
    BY DEF Init
  <2>6. \A r \in Request : draft[r] = NoDraft
    BY DEF Init
  <2>7. QED
    BY <2>1, <2>2, <2>3, <2>4, <2>5, <2>6, NoDraftFacts DEF TypeOK
<1>2. ASSUME NEW r \in Request PROVE LocalsSet(r) /\ DraftsWritten(r)
  <2>1. req[r] = Fresh /\ draft[r] = NoDraft
    BY DEF Init
  <2>2. QED
    BY <2>1, NoDraftFacts DEF LocalsSet, DraftsWritten, Fresh, Saving, Removing, Updating
<1>3. UsersWhole
  BY UsersStart
<1>4. KeysStored
  BY DEF Init, KeysStored, SpentKeysAreGone
<1>5. QED
  BY <1>1, <1>2, <1>3, <1>4 DEF CoreInv

-----------------------------------------------------------------------------
(* Steps of one request.                                                    *)

\* What is left to show of a step of request r: another request's locals
\* and rows stay as good as they were, whatever r does to the tables.
LEMMA StepInv ==
  ASSUME CoreInv, NEW r \in Request, req[r].pc # "done", TypeOK',
         \A q \in Request \ {r} : req'[q] = req[q] /\ draft'[q] = draft[q],
         \A s \in Staff : staff[s] # None => staff'[s] # None,
         known \subseteq known',
         req[r].call = "resendLearnerCredentials" => req'[r].call = "resendLearnerCredentials",
         LocalsSet(r)', DraftsWritten(r)',
         \A a \in Account : users'[a] # None => users'[a] = users[a] \/ Whole(users[a])',
         mailed' = mailed \/ (mailed' = mailed \cup {r} /\ req'[r].pc = "done"),
         spent' = spent \/ \E k \in mailed : spent' = spent \cup {k} /\ redis'.reset[k] = None,
         \A k \in Keys : redis'.reset[k] \in {redis.reset[k], None} \/ k = r
  PROVE  CoreInv'
<1>1. \A p : Owned(p) => Owned(p)'
  BY DEF CoreInv, TypeOK, Owned
<1>2. mailed \subseteq mailed'
  OBVIOUS
<1>3. ASSUME NEW q \in Request \ {r} PROVE LocalsSet(q)' /\ DraftsWritten(q)'
  <2>1. LocalsSet(q) /\ DraftsWritten(q)
    BY DEF CoreInv
  <2>2. LocalsSet(q)'
    <3>1. \A s \in Staff : SeenStaff(q)[s] # None => SeenStaff(q)'[s] # None
      BY DEF CoreInv, TypeOK, SeenStaff, Over
    <3>2. QED
      BY <1>2, <2>1, <3>1 DEF LocalsSet
  <2>3. DraftsWritten(q)'
    BY <1>1, <2>1 DEF DraftsWritten, Written, Whole
  <2>4. QED
    BY <2>2, <2>3
<1>4. UsersWhole'
  BY <1>1 DEF CoreInv, UsersWhole, Whole
<1>5. KeysStored'
  BY DEF CoreInv, KeysStored, SpentKeysAreGone, TypeOK, Keys
<1>6. QED
  BY <1>1, <1>3, <1>4, <1>5 DEF CoreInv

LEMMA EnterFacts ==
  ASSUME TypeOK, NEW r \in Request, NEW name, NEW l \in Local, Enter(r, name, l)
  PROVE  /\ req[r].pc = "idle" /\ name \in CallNames
         /\ req' \in [Request -> Local]
         /\ req'[r] = [l EXCEPT !.call = name]
         /\ \A q \in Request \ {r} : req'[q] = req[q]
<1>1. name \in CallNames
  BY DirectoryAssumption DEF Enter
<1>2. [l EXCEPT !.call = name] \in Local
  BY <1>1 DEF Local
<1>3. QED
  BY <1>1, <1>2 DEF TypeOK, Enter, At

LEMMA GotoFacts ==
  ASSUME TypeOK, NEW r \in Request, NEW p \in {"idle", "done"} \cup Awaits, Goto(r, p)
  PROVE  /\ req' \in [Request -> Local]
         /\ req'[r] = [req[r] EXCEPT !.pc = p]
         /\ \A q \in Request \ {r} : req'[q] = req[q]
<1>1. ASSUME NEW l \in Local PROVE [l EXCEPT !.pc = p] \in Local
  BY DEF Local
<1>2. QED
  BY <1>1 DEF TypeOK, Goto

LEMMA ReturnFacts ==
  ASSUME TypeOK, NEW r \in Request, Return(r)
  PROVE  /\ req' \in [Request -> Local]
         /\ req'[r].pc = "done" /\ req'[r].call = req[r].call
         /\ \A q \in Request \ {r} : req'[q] = req[q]
<1>1. /\ Ended(r) \in Local
      /\ Ended(r).pc = "done" /\ Ended(r).call = req[r].call
  <2>1. ASSUME NEW l \in Local, NEW name \in CallNames \cup {None}
        PROVE  LET new == [l EXCEPT !.call = name, !.pc = "done"]
               IN  new \in Local /\ new.pc = "done" /\ new.call = name
    BY DEF Local
  <2>2. req[r].call \in CallNames \cup {None}
    BY DEF TypeOK, Local
  <2>3. QED
    BY <2>1, <2>2, FreshFacts DEF Ended
<1>2. QED
  BY <1>1 DEF TypeOK, Return

\* A request that has returned and has no transaction needs nothing.
LEMMA DoneFacts ==
  ASSUME NEW r \in Request, req'[r].pc = "done", draft'[r] = NoDraft
  PROVE  LocalsSet(r)' /\ DraftsWritten(r)'
  BY NoDraftFacts DEF LocalsSet, DraftsWritten, Saving, Removing, Updating

\* A step that changes nothing but the request's own locals.
LEMMA MoveInv ==
  ASSUME CoreInv, NEW r \in Request, req[r].pc # "done",
         UNCHANGED <<tables, redis, history>>, req' \in [Request -> Local],
         \A q \in Request \ {r} : req'[q] = req[q],
         req[r].call = "resendLearnerCredentials" => req'[r].call = "resendLearnerCredentials",
         LocalsSet(r)', DraftsWritten(r)'
  PROVE  CoreInv'
<1>1. TypeOK'
  BY DEF CoreInv, TypeOK, tables
<1>2. QED
  BY <1>1, StepInv DEF tables, history

LEMMA RollbackFacts ==
  ASSUME TypeOK, NEW r \in Request, draft' = [draft EXCEPT ![r] = NoDraft]
  PROVE  /\ draft' = [q \in Request |-> [staff |-> draft'[q].staff, users |-> draft'[q].users]]
         /\ draft'[r] = NoDraft /\ \A q \in Request \ {r} : draft'[q] = draft[q]
         /\ \A q \in Request : /\ Partial(draft'[q].staff, Staff, StaffRow)
                              /\ Partial(draft'[q].users, Account, AccountRow)
<1>1. NoDraft = [staff |-> NoDraft.staff, users |-> NoDraft.users]
  BY DEF NoDraft
<1>2. draft'[r] = NoDraft /\ \A q \in Request \ {r} : draft'[q] = draft[q]
  BY DEF TypeOK
<1>3. draft' = [q \in Request |-> [staff |-> draft'[q].staff, users |-> draft'[q].users]]
  BY <1>1 DEF TypeOK
<1>4. QED
  BY <1>2, <1>3, NoDraftFacts DEF TypeOK

\* The handler ends, and its transaction is rolled back or has written nothing.
LEMMA ReturnInv ==
  ASSUME CoreInv, NEW r \in Request, req[r].pc # "done", Return(r),
         draft' = [draft EXCEPT ![r] = NoDraft],
         UNCHANGED <<staff, users, redis, history>>
  PROVE  CoreInv'
<1>1. TypeOK /\ TypeOK'
  <2>1. TypeOK
    BY DEF CoreInv
  <2>2. req' \in [Request -> Local]
    BY <2>1, ReturnFacts
  <2>3. QED
    BY <2>1, <2>2, RollbackFacts DEF TypeOK
<1>2. draft'[r] = NoDraft /\ \A q \in Request \ {r} : draft'[q] = draft[q]
  BY <1>1, RollbackFacts
<1>3. LocalsSet(r)' /\ DraftsWritten(r)'
  BY <1>1, <1>2, ReturnFacts, DoneFacts
<1>4. QED
  BY <1>1, <1>2, <1>3, ReturnFacts, StepInv DEF history

\* A call: the request has no transaction yet.
LEMMA CallInv ==
  ASSUME CoreInv, NEW r \in Request, NEW name, NEW l \in Local, Enter(r, name, l),
         UNCHANGED <<tables, redis, history>>,
         \/ l.pc \in {"done", "delete.staff"} \/ (l.pc = "assign.find" /\ name = "assignRoles")
         \/ /\ l.pc \in Updating \ {"reset.update"} /\ l.id \in Account
            /\ l.pc = "resend.update" => name = "resendLearnerCredentials"
            /\ l.pc = "reset.find" => l.key \in mailed
  PROVE  CoreInv'
<1>1. TypeOK
  BY DEF CoreInv
<1>2. /\ req[r].pc = "idle" /\ name \in CallNames
      /\ req' \in [Request -> Local]
      /\ req'[r] = [l EXCEPT !.call = name]
      /\ \A q \in Request \ {r} : req'[q] = req[q]
  BY <1>1, EnterFacts
<1>3. /\ req'[r].pc = l.pc /\ req'[r].call = name /\ req'[r].id = l.id /\ req'[r].key = l.key
  BY <1>2 DEF Local
<1>4. LocalsSet(r)
  BY DEF CoreInv
<1>5. draft[r] = NoDraft /\ draft'[r] = NoDraft /\ req[r].call = None
  BY <1>2, <1>4 DEF LocalsSet, Saving, Removing, tables
<1>6. LocalsSet(r)'
  BY <1>3, <1>5 DEF LocalsSet, Saving, Removing, Updating, history
<1>7. DraftsWritten(r)'
  BY <1>5, NoDraftFacts DEF DraftsWritten
<1>8. None # "resendLearnerCredentials"
  BY NoneAssumption DEF CallNames
<1>9. QED
  BY <1>2, <1>5, <1>6, <1>7, <1>8, MoveInv

\* The locals of a call: an await, the account and the key.
LEMMA PcFacts ==
  ASSUME NEW l \in Local, NEW p \in {"idle", "done"} \cup Awaits
  PROVE  [l EXCEPT !.pc = p] \in Local /\ [l EXCEPT !.pc = p].pc = p
  BY DEF Local

LEMMA PcIdFacts ==
  ASSUME NEW p \in {"idle", "done"} \cup Awaits, NEW a \in Account
  PROVE  LET new == [Fresh EXCEPT !.pc = p, !.id = a] IN new \in Local /\ new.pc = p /\ new.id = a
<1>1. ASSUME NEW l \in Local
      PROVE  LET new == [l EXCEPT !.pc = p, !.id = a] IN new \in Local /\ new.pc = p /\ new.id = a
  BY DEF Local
<1>2. QED
  BY <1>1, FreshFacts

KeyEntry(p, a, k) == [Fresh EXCEPT !.pc = p, !.id = a, !.key = k]
LEMMA PcIdKeyFacts ==
  ASSUME NEW p \in {"idle", "done"} \cup Awaits, NEW a \in Account, NEW k \in Keys
  PROVE  /\ KeyEntry(p, a, k) \in Local
         /\ KeyEntry(p, a, k).pc = p /\ KeyEntry(p, a, k).id = a /\ KeyEntry(p, a, k).key = k
<1>1. ASSUME NEW l \in Local
      PROVE  LET new == [l EXCEPT !.pc = p, !.id = a, !.key = k]
             IN  new \in Local /\ new.pc = p /\ new.id = a /\ new.key = k
  BY DEF Local
<1>2. QED
  BY <1>1, FreshFacts DEF KeyEntry

LEMMA CredentialsCallInv ==
  ASSUME CoreInv, NEW r \in Request, CredentialsCall(r)
  PROVE  CoreInv'
<1> DEFINE Entry(p, a) == [Fresh EXCEPT !.pc = p, !.id = a]
<1>1. UNCHANGED <<tables, redis, history>>
  BY DEF CredentialsCall, ResendLearnerCredentials, ChangePassword, InitiatePasswordReset,
         ResetPassword, Login, Send2faEmail, Verify2fa
<1>2. ASSUME NEW name, Enter(r, name, [Fresh EXCEPT !.pc = "done"]) PROVE CoreInv'
  BY <1>1, <1>2, FreshFacts, PcFacts, CallInv
<1>3. ASSUME NEW name, NEW a \in Account,
             NEW p \in {"resend.update", "change.update", "reset.key", "login.role", "2fa.code"},
             p = "resend.update" => name = "resendLearnerCredentials",
             Enter(r, name, Entry(p, a))
      PROVE CoreInv'
  <2>1. Entry(p, a) \in Local /\ Entry(p, a).pc = p /\ Entry(p, a).id = a
    <3>1. p \in {"idle", "done"} \cup Awaits
      BY DEF Awaits, Updating
    <3>2. QED
      BY <3>1, PcIdFacts
  <2> HIDE DEF Entry
  <2>2. QED
    BY <1>1, <1>3, <2>1, CallInv DEF Updating
<1>4. ASSUME NEW name, NEW a \in Account, NEW k \in Keys, k \in mailed,
             NEW p \in {"reset.find", "verify.code"},
             Enter(r, name, KeyEntry(p, a, k))
      PROVE CoreInv'
  <2>1. p \in {"idle", "done"} \cup Awaits
    BY DEF Awaits, Updating
  <2>2. KeyEntry(p, a, k) \in Local /\ KeyEntry(p, a, k).pc = p
        /\ KeyEntry(p, a, k).id = a /\ KeyEntry(p, a, k).key = k
    BY <2>1, PcIdKeyFacts
  <2>3. QED
    BY <1>1, <1>4, <2>2, CallInv DEF Updating
<1>5. Present \subseteq Account /\ mailed \subseteq Keys
  BY DEF Present, CoreInv, KeysStored, Keys
<1>6. CASE ResendLearnerCredentials(r)
  BY <1>3, <1>5, <1>6 DEF ResendLearnerCredentials
<1>7. CASE ChangePassword(r)
  BY <1>2, <1>3, <1>5, <1>7 DEF ChangePassword
<1>8. CASE InitiatePasswordReset(r)
  BY <1>3, <1>5, <1>8 DEF InitiatePasswordReset
<1>9. CASE ResetPassword(r)
  <2>1. \A k \in mailed : redis.reset[k] # None => redis.reset[k] \in Account
    BY DEF CoreInv, TypeOK, KeysStored, Keys
  <2>2. QED
    BY <1>2, <1>4, <1>5, <1>9, <2>1 DEF ResetPassword, KeyEntry
<1>10. CASE Login(r)
  BY <1>2, <1>3, <1>5, <1>10 DEF Login
<1>11. CASE Send2faEmail(r)
  BY <1>3, <1>5, <1>11 DEF Send2faEmail
<1>12. CASE Verify2fa(r)
  BY <1>4, <1>5, <1>12 DEF Verify2fa, KeyEntry
<1>13. QED
  BY <1>6, <1>7, <1>8, <1>9, <1>10, <1>11, <1>12 DEF CredentialsCall

-----------------------------------------------------------------------------
(* Sign-in and passwords.                                                   *)

\* A step that goes on, or ends, without a transaction.
LEMMA AloneFacts ==
  ASSUME CoreInv, NEW r \in Request,
         req[r].pc \notin Saving \cup Removing \cup {"assign.find"}, UNCHANGED draft
  PROVE  draft[r] = NoDraft /\ draft'[r] = NoDraft /\ DraftsWritten(r)'
<1>1. LocalsSet(r)
  BY DEF CoreInv
<1>2. draft[r] = NoDraft /\ draft'[r] = NoDraft
  BY <1>1 DEF LocalsSet
<1>3. QED
  BY <1>2, NoDraftFacts DEF DraftsWritten

\* An UPDATE of an account that writes a row with a user name and with a
\* password its holder is given.
LEMMA UpdateInv ==
  ASSUME CoreInv, NEW r \in Request, req[r].pc \in Updating, NEW row, Update(r, row),
         users[req[r].id] # None => row \in AccountRow /\ Whole(row)',
         req' \in [Request -> Local], \A q \in Request \ {r} : req'[q] = req[q],
         req[r].call = "resendLearnerCredentials" => req'[r].call = "resendLearnerCredentials",
         LocalsSet(r)', known \subseteq known', UNCHANGED <<redis, mailed, spent>>
  PROVE  CoreInv'
<1> DEFINE a == req[r].id
<1>1. TypeOK /\ LocalsSet(r)
  BY DEF CoreInv
<1>2. a \in Account
  BY <1>1 DEF LocalsSet
<1>3. UNCHANGED <<staff, draft>>
  BY DEF Update
<1>4. /\ \A b \in Account : users'[b] = IF b = a /\ users[a] # None THEN row ELSE users[b]
      /\ users' \in [Account -> AccountRow \cup {None}]
  BY <1>1, <1>2 DEF Update, TypeOK
<1>5. TypeOK'
  BY <1>1, <1>3, <1>4 DEF TypeOK
<1>6. DraftsWritten(r)'
  BY <1>3, AloneFacts DEF Updating, Saving, Removing
<1>7. \A b \in Account : users'[b] # None => users'[b] = users[b] \/ Whole(users[b])'
  BY <1>4
<1>8. req[r].pc # "done"
  BY DEF Updating
<1>9. QED
  BY <1>3, <1>5, <1>6, <1>7, <1>8, StepInv

\* The passwords a request makes up.
LEMMA PasswordFacts ==
  ASSUME NEW r \in Request, NEW n \in Nat
  PROVE  <<r, n>> \in Password /\ <<r, n>> # None
  BY NoneAssumption DEF Password

LEMMA AccountFacts ==
  ASSUME NEW row \in AccountRow, NEW p \in Password, NEW c \in BOOLEAN
  PROVE  /\ [row EXCEPT !.password = p] \in AccountRow
         /\ [row EXCEPT !.password = p].password = p
         /\ [row EXCEPT !.password = p].username = row.username
         /\ [row EXCEPT !.password = p, !.changed = c] \in AccountRow
         /\ [row EXCEPT !.password = p, !.changed = c].password = p
         /\ [row EXCEPT !.password = p, !.changed = c].username = row.username
  BY DEF AccountRow

\* A handler that only updates returns or goes on without new locals.
LEMMA NextFacts ==
  ASSUME CoreInv, NEW r \in Request, NEW p \in Awaits, Goto(r, p), UNCHANGED <<draft, mailed>>,
         req[r].pc \notin Saving \cup Removing \cup {"assign.find"},
         p \notin Saving \cup Removing \cup {"assign.find"},
         p \in Updating => req[r].pc \in Updating,
         p \in {"resend.update", "resend.mail"} => req[r].call = "resendLearnerCredentials",
         p \in {"reset.find", "reset.update", "reset.del"} => req[r].key \in mailed
  PROVE  /\ req' \in [Request -> Local] /\ \A q \in Request \ {r} : req'[q] = req[q]
         /\ req'[r].call = req[r].call /\ req'[r].pc = p
         /\ LocalsSet(r)' /\ DraftsWritten(r)'
<1>1. TypeOK /\ LocalsSet(r)
  BY DEF CoreInv
<1>2. /\ req' \in [Request -> Local]
      /\ req'[r] = [req[r] EXCEPT !.pc = p]
      /\ \A q \in Request \ {r} : req'[q] = req[q]
  BY <1>1, GotoFacts
<1>3. req'[r].pc = p /\ \A f \in {"call", "id", "key"} : req'[r][f] = req[r][f]
  <2>1. ASSUME NEW l \in Local
        PROVE  [l EXCEPT !.pc = p].pc = p /\ \A f \in {"call", "id", "key"} : [l EXCEPT !.pc = p][f] = l[f]
    BY DEF Local
  <2>2. QED
    BY <1>1, <1>2, <2>1 DEF TypeOK
<1>4. draft'[r] = NoDraft /\ DraftsWritten(r)'
  BY AloneFacts
<1>5. LocalsSet(r)'
  <2>1. p # "idle"
    BY DEF Awaits, Saving, Removing, Updating
  <2>2. req'[r].id = req[r].id /\ req'[r].call = req[r].call /\ req'[r].key = req[r].key
    BY <1>3
  <2>3. p \notin {"assign.account", "assign.mail", "delete.reload", "delete.mark"}
    BY DEF Saving, Removing
  <2>4. p \in Updating => req[r].id \in Account
    BY <1>1 DEF LocalsSet
  <2>5. QED
    BY <1>3, <1>4, <2>1, <2>2, <2>3, <2>4 DEF LocalsSet
<1>6. QED
  BY <1>2, <1>3, <1>4, <1>5

\* A handler that returns without having changed anything in this step.
LEMMA LeaveInv ==
  ASSUME CoreInv, NEW r \in Request, Return(r), UNCHANGED <<tables, redis, history>>,
         req[r].pc \notin Saving \cup Removing \cup {"assign.find", "done"}
  PROVE  CoreInv'
<1>1. draft[r] = NoDraft /\ UNCHANGED <<staff, users, draft>>
  BY AloneFacts DEF tables
<1>2. draft' = [draft EXCEPT ![r] = NoDraft]
  BY <1>1 DEF CoreInv, TypeOK
<1>3. QED
  BY <1>1, <1>2, ReturnInv

\* A handler that goes on without having changed anything in this step.
LEMMA GoOnInv ==
  ASSUME CoreInv, NEW r \in Request, NEW p \in Awaits, Goto(r, p), UNCHANGED <<tables, redis, history>>,
         req[r].pc \notin Saving \cup Removing \cup {"assign.find", "done"},
         p \notin Saving \cup Removing \cup {"assign.find", "resend.update", "resend.mail"},
         p \in Updating => req[r].pc \in Updating,
         p \in {"reset.find", "reset.update", "reset.del"} => req[r].key \in mailed
  PROVE  CoreInv'
<1>1. UNCHANGED <<draft, mailed>>
  BY DEF tables, history
<1>2. QED
  BY <1>1, NextFacts, MoveInv

\* A request gives an account the password it has made up.
LEMMA NewPasswordInv ==
  ASSUME CoreInv, NEW r \in Request, req[r].pc \in Updating, NEW row,
         users[req[r].id] # None =>
            row \in AccountRow /\ row.password = <<r, 0>> /\ row.username = users[req[r].id].username,
         Update(r, row), Owned(<<r, 0>>)', known \subseteq known', UNCHANGED <<redis, mailed, spent>>,
         req' \in [Request -> Local], \A q \in Request \ {r} : req'[q] = req[q],
         req'[r].call = req[r].call, LocalsSet(r)'
  PROVE  CoreInv'
<1>1. TypeOK /\ LocalsSet(r) /\ UsersWhole
  BY DEF CoreInv
<1>2. req[r].id \in Account
  BY <1>1 DEF LocalsSet
<1>3. <<r, 0>> # None
  BY PasswordFacts
<1>4. users[req[r].id] # None => Whole(row)'
  BY <1>1, <1>2, <1>3 DEF Whole, UsersWhole
<1>5. QED
  BY <1>4, UpdateInv

LEMMA ResendUpdateInv ==
  ASSUME CoreInv, NEW r \in Request, ResendUpdate(r)
  PROVE  CoreInv'
<1> DEFINE old == users[req[r].id]
           row == [old EXCEPT !.password = <<r, 0>>, !.changed = FALSE]
<1>1. TypeOK /\ LocalsSet(r)
  BY DEF CoreInv
<1>2. req[r].pc = "resend.update" /\ req[r].id \in Account /\ req[r].call = "resendLearnerCredentials"
  BY <1>1 DEF ResendUpdate, At, LocalsSet, Updating
<1>3. UNCHANGED <<draft, mailed, known>> /\ Goto(r, "resend.mail")
  BY DEF ResendUpdate, Update, history
<1>4. /\ req' \in [Request -> Local] /\ \A q \in Request \ {r} : req'[q] = req[q]
      /\ req'[r].call = req[r].call /\ LocalsSet(r)'
  BY <1>2, <1>3, NextFacts DEF Saving, Removing, Updating, Awaits
<1>5. old # None => row \in AccountRow /\ row.password = <<r, 0>> /\ row.username = old.username
  <2>1. old # None => old \in AccountRow
    BY <1>1, <1>2 DEF TypeOK
  <2>2. <<r, 0>> \in Password
    BY PasswordFacts
  <2>3. QED
    BY <2>1, <2>2, AccountFacts
<1>6. Owned(<<r, 0>>)'
  BY <1>2, <1>4 DEF Owned
<1>7. Update(r, row) /\ UNCHANGED <<redis, mailed, spent, known>>
  BY DEF ResendUpdate, history
<1> HIDE DEF row
<1>8. QED
  BY <1>2, <1>4, <1>5, <1>6, <1>7, NewPasswordInv DEF Updating

LEMMA ChangeUpdateInv ==
  ASSUME CoreInv, NEW r \in Request, ChangeUpdate(r)
  PROVE  CoreInv'
<1> DEFINE old == users[req[r].id]
           row == [old EXCEPT !.password = <<r, 0>>, !.changed = TRUE]
<1>1. TypeOK /\ LocalsSet(r)
  BY DEF CoreInv
<1>2. req[r].pc = "change.update" /\ req[r].id \in Account
  BY <1>1 DEF ChangeUpdate, At, LocalsSet, Updating
<1>3. old # None => row \in AccountRow /\ row.password = <<r, 0>> /\ row.username = old.username
  <2>1. old # None => old \in AccountRow
    BY <1>1, <1>2 DEF TypeOK
  <2>2. <<r, 0>> \in Password
    BY PasswordFacts
  <2>3. QED
    BY <2>1, <2>2, AccountFacts
<1>4. Update(r, row) /\ Choose(r) /\ Return(r) /\ UNCHANGED <<redis, mailed, spent>>
  BY DEF ChangeUpdate
<1>5. UNCHANGED draft
  BY <1>4 DEF Update
<1>6. /\ req' \in [Request -> Local] /\ \A q \in Request \ {r} : req'[q] = req[q]
      /\ req'[r].call = req[r].call /\ req'[r].pc = "done"
  BY <1>1, <1>4, ReturnFacts
<1>7. LocalsSet(r)'
  BY <1>2, <1>5, <1>6, AloneFacts, DoneFacts DEF Saving, Removing
<1>8. known \subseteq known' /\ Owned(<<r, 0>>)'
  BY <1>4 DEF Choose, Owned
<1> HIDE DEF row
<1>9. QED
  BY <1>2, <1>3, <1>4, <1>6, <1>7, <1>8, NewPasswordInv DEF Updating

LEMMA ResetUpdateInv ==
  ASSUME CoreInv, NEW r \in Request, ResetUpdate(r)
  PROVE  CoreInv'
<1> DEFINE old == users[req[r].id]
           row == [old EXCEPT !.password = <<r, 0>>]
<1>1. TypeOK /\ LocalsSet(r)
  BY DEF CoreInv
<1>2. req[r].pc = "reset.update" /\ req[r].id \in Account /\ req[r].key \in mailed
  BY <1>1 DEF ResetUpdate, At, LocalsSet, Updating
<1>3. old # None => row \in AccountRow /\ row.password = <<r, 0>> /\ row.username = old.username
  <2>1. old # None => old \in AccountRow
    BY <1>1, <1>2 DEF TypeOK
  <2>2. <<r, 0>> \in Password
    BY PasswordFacts
  <2>3. QED
    BY <2>1, <2>2, AccountFacts
<1>4. Update(r, row) /\ Choose(r) /\ Goto(r, "reset.del") /\ UNCHANGED <<redis, mailed, spent>>
  BY DEF ResetUpdate
<1>5. UNCHANGED <<draft, mailed>>
  BY <1>4 DEF Update
<1>6. /\ req' \in [Request -> Local] /\ \A q \in Request \ {r} : req'[q] = req[q]
      /\ req'[r].call = req[r].call /\ LocalsSet(r)'
  BY <1>2, <1>4, <1>5, NextFacts DEF Saving, Removing, Updating, Awaits
<1>7. known \subseteq known' /\ Owned(<<r, 0>>)'
  BY <1>4 DEF Choose, Owned
<1> HIDE DEF row
<1>8. QED
  BY <1>2, <1>3, <1>4, <1>6, <1>7, NewPasswordInv DEF Updating

\* The refresh of the time of the login writes the row as it is.
LEMMA LoginStampInv ==
  ASSUME CoreInv, NEW r \in Request, LoginStamp(r)
  PROVE  CoreInv'
<1> DEFINE row == users[req[r].id]
<1>1. TypeOK /\ LocalsSet(r) /\ UsersWhole
  BY DEF CoreInv
<1>2. req[r].pc = "login.stamp" /\ req[r].id \in Account
  BY <1>1 DEF LoginStamp, At, LocalsSet, Updating
<1>3. Update(r, row) /\ Return(r) /\ UNCHANGED <<redis, history>>
  BY DEF LoginStamp
<1>4. users' = users /\ UNCHANGED <<staff, draft>>
  BY <1>1, <1>3 DEF Update, TypeOK
<1>5. UNCHANGED <<tables, redis, history>>
  BY <1>3, <1>4 DEF tables
<1>6. QED
  BY <1>2, <1>3, <1>5, LeaveInv DEF Saving, Removing

\* A key or a code is stored.
LEMMA StoreInv ==
  ASSUME CoreInv, NEW r \in Request, ResetKey(r) \/ TwoFactorCode(r)
  PROVE  CoreInv'
<1> DEFINE p == IF ResetKey(r) THEN "reset.mail" ELSE "2fa.mail"
<1>1. TypeOK /\ LocalsSet(r)
  BY DEF CoreInv
<1>2. req[r].pc \in {"reset.key", "2fa.code"} /\ req[r].id \in Account
  BY <1>1 DEF ResetKey, TwoFactorCode, At, LocalsSet, Updating
<1>3. Goto(r, p) /\ p \in {"reset.mail", "2fa.mail"} /\ UNCHANGED <<staff, users, draft, known, mailed, spent>>
  BY DEF ResetKey, TwoFactorCode, tables, history
<1> HIDE DEF p
<1>4. /\ req' \in [Request -> Local] /\ \A q \in Request \ {r} : req'[q] = req[q]
      /\ req'[r].call = req[r].call /\ LocalsSet(r)' /\ DraftsWritten(r)'
  BY <1>2, <1>3, NextFacts DEF Saving, Removing, Updating, Awaits
<1>5. /\ redis' \in [reset : [Keys -> Account \cup {None}], code : [Account -> Keys \cup {None}]]
      /\ \A k \in Keys : redis'.reset[k] = redis.reset[k] \/ k = r
  <2>1. redis \in [reset : [Keys -> Account \cup {None}], code : [Account -> Keys \cup {None}]] /\ r \in Keys
    BY <1>1 DEF TypeOK, Keys
  <2>2. CASE ResetKey(r)
    BY <1>2, <2>1, <2>2 DEF ResetKey
  <2>3. CASE TwoFactorCode(r)
    BY <1>2, <2>1, <2>3 DEF TwoFactorCode
  <2>4. QED
    BY <2>2, <2>3
<1>6. TypeOK'
  BY <1>1, <1>3, <1>4, <1>5 DEF TypeOK
<1>7. QED
  BY <1>2, <1>3, <1>4, <1>5, <1>6, StepInv

\* A key, a code or a password is mailed, or a key deleted: the last step.
LEMMA LastInv ==
  ASSUME CoreInv, NEW r \in Request, ResetMail(r) \/ TwoFactorMail(r) \/ ResendMail(r) \/ ResetDel(r)
  PROVE  CoreInv'
<1>1. TypeOK /\ LocalsSet(r)
  BY DEF CoreInv
<1>2. req[r].pc \in {"reset.mail", "2fa.mail", "resend.mail", "reset.del"}
  BY DEF ResetMail, TwoFactorMail, ResendMail, ResetDel, At
<1>3. Return(r) /\ UNCHANGED <<staff, users, draft>>
  BY DEF ResetMail, TwoFactorMail, ResendMail, ResetDel, tables
<1>4. /\ req' \in [Request -> Local] /\ \A q \in Request \ {r} : req'[q] = req[q]
      /\ req'[r].call = req[r].call /\ req'[r].pc = "done"
  BY <1>1, <1>3, ReturnFacts
<1>5. LocalsSet(r)' /\ DraftsWritten(r)'
  BY <1>2, <1>3, <1>4, AloneFacts, DoneFacts DEF Saving, Removing
<1>6. /\ redis' \in [reset : [Keys -> Account \cup {None}], code : [Account -> Keys \cup {None}]]
      /\ \A k \in Keys : redis'.reset[k] \in {redis.reset[k], None}
      /\ spent' = spent \/ \E k \in mailed : spent' = spent \cup {k} /\ redis'.reset[k] = None
  <2>1. redis \in [reset : [Keys -> Account \cup {None}], code : [Account -> Keys \cup {None}]]
    BY <1>1 DEF TypeOK
  <2>2. CASE ResetDel(r)
    <3>1. req[r].key \in mailed
      BY <1>1, <2>2 DEF ResetDel, At, LocalsSet
    <3>2. req[r].key \in Keys
      BY <3>1 DEF CoreInv, KeysStored, Keys
    <3>3. QED
      BY <2>1, <2>2, <3>1, <3>2 DEF ResetDel
  <2>3. CASE ~ ResetDel(r)
    BY <2>1, <2>3 DEF ResetMail, TwoFactorMail, ResendMail
  <2>4. QED
    BY <2>2, <2>3
<1>7. known \subseteq known' /\ (mailed' = mailed \/ mailed' = mailed \cup {r})
  BY DEF ResetMail, TwoFactorMail, ResendMail, ResetDel, Choose
<1>8. TypeOK'
  BY <1>1, <1>3, <1>4, <1>6 DEF TypeOK
<1>9. QED
  BY <1>2, <1>3, <1>4, <1>5, <1>6, <1>7, <1>8, StepInv

LEMMA CredentialsStepInv ==
  ASSUME CoreInv, NEW r \in Request, CredentialsStep(r)
  PROVE  CoreInv'
<1>1. CASE ResetFind(r)
  <2>1. req[r].pc = "reset.find" /\ req[r].key \in mailed
    BY <1>1 DEF CoreInv, LocalsSet, ResetFind, At
  <2>2. (Return(r) \/ Goto(r, "reset.update")) /\ UNCHANGED <<tables, redis, history>>
    BY <1>1 DEF ResetFind
  <2>3. QED
    BY <2>1, <2>2, LeaveInv, GoOnInv DEF Saving, Removing, Updating, Awaits
<1>2. CASE LoginRole(r)
  <2>1. req[r].pc = "login.role"
    BY <1>2 DEF LoginRole, At
  <2>2. (Return(r) \/ Goto(r, "login.stamp")) /\ UNCHANGED <<tables, redis, history>>
    BY <1>2 DEF LoginRole
  <2>3. QED
    BY <2>1, <2>2, LeaveInv, GoOnInv DEF Saving, Removing, Updating, Awaits
<1>3. CASE VerifyCode(r)
  <2>1. req[r].pc = "verify.code"
    BY <1>3 DEF VerifyCode, At
  <2>2. (Return(r) \/ Goto(r, "verify.role")) /\ UNCHANGED <<tables, redis, history>>
    BY <1>3 DEF VerifyCode
  <2>3. QED
    BY <2>1, <2>2, LeaveInv, GoOnInv DEF Saving, Removing, Updating, Awaits
<1>4. CASE VerifyRole(r)
  BY <1>4, LeaveInv DEF VerifyRole, At, Saving, Removing
<1>5. QED
  BY <1>1, <1>2, <1>3, <1>4, ResendUpdateInv, ChangeUpdateInv, ResetUpdateInv, LoginStampInv,
     StoreInv, LastInv DEF CredentialsStep

\* Redis forgets keys and codes.
LEMMA ExpireInv ==
  ASSUME CoreInv, Expire
  PROVE  CoreInv'
<1>1. UNCHANGED <<staff, users, draft, req, known, mailed, spent>>
  BY DEF Expire, tables, history
<1>2. /\ redis' \in [reset : [Keys -> Account \cup {None}], code : [Account -> Keys \cup {None}]]
      /\ \A k \in Keys : redis'.reset[k] \in {redis.reset[k], None}
  <2>1. redis \in [reset : [Keys -> Account \cup {None}], code : [Account -> Keys \cup {None}]]
    BY DEF CoreInv, TypeOK
  <2>2. QED
    BY <2>1 DEF Expire
<1>3. TypeOK'
  BY <1>1, <1>2 DEF CoreInv, TypeOK
<1>4. \A r \in Request : LocalsSet(r)' /\ DraftsWritten(r)'
  BY <1>1 DEF CoreInv, LocalsSet, SeenStaff, Over, DraftsWritten, Written, Whole, Owned
<1>5. UsersWhole'
  BY <1>1 DEF CoreInv, UsersWhole, Whole, Owned
<1>6. KeysStored'
  BY <1>1, <1>2 DEF CoreInv, KeysStored, SpentKeysAreGone, Keys
<1>7. QED
  BY <1>3, <1>4, <1>5, <1>6 DEF CoreInv

-----------------------------------------------------------------------------
(* Staff: calls.                                                            *)

LEMMA CreateStaffInv ==
  ASSUME CoreInv, NEW r \in Request, CreateStaff(r)
  PROVE  CoreInv'
<1>1. TypeOK /\ LocalsSet(r)
  BY DEF CoreInv
<1>2. [Fresh EXCEPT !.pc = "done"] \in Local /\ [Fresh EXCEPT !.pc = "done"].pc = "done"
  BY FreshFacts, PcFacts
<1> DEFINE new == [Fresh EXCEPT !.pc = "done"]
<1>3. Enter(r, "createStaff", new) /\ UNCHANGED <<users, draft, redis, known, mailed, spent>>
  BY DEF CreateStaff, history
<1>4. new \in Local /\ new.pc = "done"
  BY <1>2
<1> HIDE DEF new
<1>5. /\ req[r].pc = "idle" /\ req' \in [Request -> Local]
      /\ req'[r] = [new EXCEPT !.call = "createStaff"]
      /\ \A q \in Request \ {r} : req'[q] = req[q]
  BY <1>1, <1>3, <1>4, EnterFacts
<1>6. req'[r].pc = "done"
  BY <1>4, <1>5 DEF Local
<1>7. draft'[r] = NoDraft /\ req[r].call = None
  BY <1>1, <1>3, <1>5 DEF LocalsSet, Saving, Removing
<1>8. LocalsSet(r)' /\ DraftsWritten(r)'
  BY <1>6, <1>7, DoneFacts
<1>9. staff' \in [Staff -> StaffRow \cup {None}] /\ \A s \in Staff : staff[s] # None => staff'[s] # None
  <2>1. PICK add \in SUBSET {s \in Staff : staff[s] = None} : \E e \in [add -> Email] :
           staff' = Over([s \in add |-> NewStaff(e[s])], staff)
    BY DEF CreateStaff
  <2>2. PICK e \in [add -> Email] : staff' = Over([s \in add |-> NewStaff(e[s])], staff)
    BY <2>1
  <2>3. \A x \in Email : NewStaff(x) \in StaffRow
    BY DEF NewStaff, StaffRow
  <2>4. \A s \in add : NewStaff(e[s]) \in StaffRow /\ staff[s] = None
    BY <2>2, <2>3
  <2>5. staff \in [Staff -> StaffRow \cup {None}]
    BY <1>1 DEF TypeOK
  <2>6. staff' = [s \in Staff |-> IF s \in add THEN NewStaff(e[s]) ELSE staff[s]]
    BY <2>2, <2>5 DEF Over
  <2>7. QED
    BY <2>4, <2>5, <2>6
<1>10. TypeOK'
  BY <1>1, <1>3, <1>5, <1>9 DEF TypeOK
<1>11. None # "resendLearnerCredentials"
  BY NoneAssumption DEF CallNames
<1>12. QED
  BY <1>3, <1>5, <1>7, <1>8, <1>9, <1>10, <1>11, StepInv

LEMMA AssignRolesInv ==
  ASSUME CoreInv, NEW r \in Request, AssignRoles(r)
  PROVE  CoreInv'
<1>1. PICK b \in Batches : Enter(r, "assignRoles", [Fresh EXCEPT !.pc = "assign.find", !.rest = b])
  BY DEF AssignRoles
<1>2. b \in Seq(Staff \X Role)
  BY DirectoryAssumption
<1> DEFINE new == [Fresh EXCEPT !.pc = "assign.find", !.rest = b]
<1>3. new \in Local /\ new.pc = "assign.find"
  <2>1. ASSUME NEW l \in Local
        PROVE  LET n == [l EXCEPT !.pc = "assign.find", !.rest = b] IN n \in Local /\ n.pc = "assign.find"
    BY <1>2 DEF Local, Awaits
  <2>2. QED
    BY <2>1, FreshFacts
<1>4. Enter(r, "assignRoles", new) /\ UNCHANGED <<tables, redis, history>>
  BY <1>1 DEF AssignRoles
<1> HIDE DEF new
<1>5. QED
  BY <1>3, <1>4, CallInv

LEMMA DeleteUserInv ==
  ASSUME CoreInv, NEW r \in Request, DeleteUser(r)
  PROVE  CoreInv'
<1>1. UNCHANGED <<tables, redis, history>>
  BY DEF DeleteUser
<1>2. PICK a \in Account : Enter(r, "deleteUser", IF users[a] = None THEN [Fresh EXCEPT !.pc = "done"]
             ELSE [Fresh EXCEPT !.pc = "delete.staff", !.id = a, !.entity = users[a]])
  BY DEF DeleteUser
<1>3. CASE users[a] = None
  <2>1. Enter(r, "deleteUser", [Fresh EXCEPT !.pc = "done"])
    BY <1>2, <1>3
  <2>2. QED
    BY <1>1, <2>1, FreshFacts, PcFacts, CallInv
<1>4. CASE users[a] # None
  <2> DEFINE new == [Fresh EXCEPT !.pc = "delete.staff", !.id = a, !.entity = users[a]]
  <2>1. users[a] \in AccountRow
    BY <1>4 DEF CoreInv, TypeOK
  <2>2. new \in Local /\ new.pc = "delete.staff"
    <3>1. ASSUME NEW l \in Local
          PROVE  LET n == [l EXCEPT !.pc = "delete.staff", !.id = a, !.entity = users[a]]
                 IN  n \in Local /\ n.pc = "delete.staff"
      BY <2>1 DEF Local, Awaits, Removing
    <3>2. QED
      BY <3>1, FreshFacts
  <2>3. Enter(r, "deleteUser", new)
    BY <1>2, <1>4
  <2> HIDE DEF new
  <2>4. QED
    BY <1>1, <2>2, <2>3, CallInv
<1>5. QED
  BY <1>3, <1>4

-----------------------------------------------------------------------------
(* Staff: the rows of a transaction.                                        *)

Half == {"assign.name", "assign.account", "assign.mail"}

LEMMA OwnedStays ==
  ASSUME TypeOK, NEW r \in Request, \A q \in Request \ {r} : req'[q] = req[q],
         req[r].call = "resendLearnerCredentials" => req'[r].call = "resendLearnerCredentials",
         known \subseteq known', NEW p, Owned(p)
  PROVE  Owned(p)'
  BY DEF Owned

\* A transaction between two saves has whole rows, and they stay whole.
LEMMA WholeStays ==
  ASSUME CoreInv, NEW r \in Request, \A q \in Request \ {r} : req'[q] = req[q],
         req[r].call = "resendLearnerCredentials" => req'[r].call = "resendLearnerCredentials",
         known \subseteq known', req[r].pc \notin Half, draft'[r].users = draft[r].users
  PROVE  DraftsWritten(r)'
<1>1. DraftsWritten(r) /\ TypeOK
  BY DEF CoreInv
<1>2. \A a \in DOMAIN draft[r].users : Whole(draft[r].users[a])
  BY <1>1 DEF DraftsWritten, Written, Half
<1>3. \A p : Owned(p) => Owned(p)'
  BY <1>1, OwnedStays
<1>4. QED
  BY <1>2, <1>3 DEF DraftsWritten, Written, Whole

LEMMA DraftFacts ==
  ASSUME TypeOK, NEW r \in Request, NEW f, NEW u,
         draft' = [draft EXCEPT ![r] = [staff |-> f, users |-> u]]
  PROVE  /\ draft' = [q \in Request |-> [staff |-> draft'[q].staff, users |-> draft'[q].users]]
         /\ draft'[r].staff = f /\ draft'[r].users = u
         /\ \A q \in Request \ {r} : draft'[q] = draft[q]
  BY DEF TypeOK

LEMMA WriteFacts ==
  ASSUME TypeOK, NEW r \in Request, NEW k, NEW row
  PROVE  /\ WriteStaff(r, k, row) =>
              draft' = [draft EXCEPT ![r] = [staff |-> Put(draft[r].staff, k, row), users |-> draft[r].users]]
         /\ WriteUser(r, k, row) =>
              draft' = [draft EXCEPT ![r] = [staff |-> draft[r].staff, users |-> Put(draft[r].users, k, row)]]
<1>1. draft[r] = [staff |-> draft[r].staff, users |-> draft[r].users]
  BY DEF TypeOK
<1>2. ASSUME NEW d, d = [staff |-> d.staff, users |-> d.users]
      PROVE  /\ [d EXCEPT !.staff = Put(@, k, row)] = [staff |-> Put(d.staff, k, row), users |-> d.users]
             /\ [d EXCEPT !.users = Put(@, k, row)] = [staff |-> d.staff, users |-> Put(d.users, k, row)]
  BY <1>2
<1>3. QED
  BY <1>1, <1>2 DEF WriteStaff, WriteUser

LEMMA WriteStaffInv ==
  ASSUME CoreInv, NEW r \in Request, NEW s \in Staff, NEW row \in StaffRow,
         WriteStaff(r, s, row), UNCHANGED <<staff, users, redis, history>>,
         req' \in [Request -> Local], \A q \in Request \ {r} : req'[q] = req[q],
         req'[r].call = req[r].call, req[r].pc \notin Half \cup {"done"}, LocalsSet(r)'
  PROVE  CoreInv'
<1>1. TypeOK
  BY DEF CoreInv
<1>2. /\ draft' = [q \in Request |-> [staff |-> draft'[q].staff, users |-> draft'[q].users]]
      /\ \A q \in Request \ {r} : draft'[q] = draft[q]
      /\ draft'[r].staff = Put(draft[r].staff, s, row) /\ draft'[r].users = draft[r].users
  BY <1>1, DraftFacts, WriteFacts
<1>3. Partial(draft'[r].staff, Staff, StaffRow)
  <2>1. Partial(draft[r].staff, Staff, StaffRow)
    BY <1>1 DEF TypeOK
  <2>2. Partial(Put(draft[r].staff, s, row), Staff, StaffRow)
    BY <2>1, PutFacts
  <2>3. QED
    BY <1>2, <2>2
<1>4. TypeOK'
  BY <1>1, <1>2, <1>3 DEF TypeOK
<1>5. DraftsWritten(r)'
  BY <1>2, WholeStays DEF history
<1>6. QED
  BY <1>2, <1>4, <1>5, StepInv DEF history

-----------------------------------------------------------------------------
(* Staff: removal.                                                          *)

LEMMA DeleteFindStaffInv ==
  ASSUME CoreInv, NEW r \in Request, DeleteFindStaff(r)
  PROVE  CoreInv'
<1>1. TypeOK
  BY DEF CoreInv
<1>2. req[r].pc = "delete.staff" /\ UNCHANGED <<tables, redis, history>>
  BY DEF DeleteFindStaff, At
<1>3. /\ req' \in [Request -> Local] /\ \A q \in Request \ {r} : req'[q] = req[q]
      /\ req'[r].call = req[r].call /\ LocalsSet(r)'
  <2>1. CASE Goto(r, "delete.remove")
    <3>1. /\ req' \in [Request -> Local] /\ \A q \in Request \ {r} : req'[q] = req[q]
          /\ req'[r] = [req[r] EXCEPT !.pc = "delete.remove"]
      BY <1>1, <2>1, GotoFacts DEF Awaits, Removing
    <3>2. req'[r].pc = "delete.remove" /\ req'[r].call = req[r].call
      BY <1>1, <3>1 DEF TypeOK, Local
    <3>3. QED
      BY <3>1, <3>2 DEF LocalsSet, Saving, Removing, Updating
  <2>2. CASE ~ Goto(r, "delete.remove")
    <3>1. PICK s \in Staff : /\ staff[s] # None
                             /\ req' = [req EXCEPT ![r] = [@ EXCEPT !.pc = "delete.reload", !.staff = s,
                                          !.entity = [staff[s] EXCEPT !.status = "unassigned"]]]
      BY <2>2 DEF DeleteFindStaff
    <3> DEFINE row == [staff[s] EXCEPT !.status = "unassigned"]
    <3>2. row \in StaffRow
      <4>1. ASSUME NEW old \in StaffRow PROVE [old EXCEPT !.status = "unassigned"] \in StaffRow
        BY DEF StaffRow
      <4>2. QED
        BY <1>1, <3>1, <4>1 DEF TypeOK
    <3>3. req' = [req EXCEPT ![r] = [@ EXCEPT !.pc = "delete.reload", !.staff = s, !.entity = row]]
      BY <3>1
    <3> HIDE DEF row
    <3>4. ASSUME NEW l \in Local
          PROVE  LET n == [l EXCEPT !.pc = "delete.reload", !.staff = s, !.entity = row]
                 IN  n \in Local /\ n.pc = "delete.reload" /\ n.staff = s /\ n.entity \in StaffRow /\ n.call = l.call
      BY <3>2 DEF Local, Awaits, Removing
    <3>5. /\ req' \in [Request -> Local] /\ \A q \in Request \ {r} : req'[q] = req[q]
          /\ req'[r].pc = "delete.reload" /\ req'[r].staff = s /\ req'[r].entity \in StaffRow
          /\ req'[r].call = req[r].call
      BY <1>1, <3>3, <3>4 DEF TypeOK
    <3>6. staff'[s] # None
      BY <1>2, <3>1 DEF tables
    <3>7. QED
      BY <3>5, <3>6 DEF LocalsSet, Saving, Removing, Updating
  <2>3. QED
    BY <2>1, <2>2
<1>4. DraftsWritten(r)'
  BY <1>2, <1>3, WholeStays DEF tables, history, Half
<1>5. QED
  BY <1>2, <1>3, <1>4, MoveInv

LEMMA DirtyFacts ==
  /\ \A entity : \A row \in AccountRow : Dirty(entity, row) \subseteq {"email", "role", "username", "password", "changed"}
  /\ \A entity : \A row \in StaffRow : Dirty(entity, row) \subseteq {"email", "status", "username"}
  /\ \A entity : \A row \in AccountRow : \A c \in {"username", "password"} :
        row[c] = entity[c] \/ c \in Dirty(entity, row)
  BY DEF Dirty, AccountRow, StaffRow

LEMMA DeleteReloadInv ==
  ASSUME CoreInv, NEW r \in Request, DeleteReload(r)
  PROVE  CoreInv'
<1>1. TypeOK /\ LocalsSet(r)
  BY DEF CoreInv
<1>2. req[r].pc = "delete.reload" /\ UNCHANGED <<tables, redis, history>>
  BY DEF DeleteReload, At
<1>3. req[r].staff \in Staff /\ staff[req[r].staff] # None /\ req[r].entity \in StaffRow
  BY <1>1, <1>2 DEF LocalsSet
<1> DEFINE dirty == Dirty(req[r].entity, staff[req[r].staff])
           p == IF dirty = {} THEN "delete.remove" ELSE "delete.mark"
<1>4. /\ dirty \subseteq {"email", "status", "username"} /\ p \in {"delete.remove", "delete.mark"}
      /\ req' = [req EXCEPT ![r] = [@ EXCEPT !.dirty = dirty, !.pc = p]]
  <2>1. staff[req[r].staff] \in StaffRow
    BY <1>1, <1>3 DEF TypeOK
  <2>2. dirty \subseteq {"email", "status", "username"}
    BY <2>1, DirtyFacts
  <2>3. req' = [req EXCEPT ![r] = [@ EXCEPT !.dirty = dirty, !.pc = p]]
    BY DEF DeleteReload
  <2>4. QED
    BY <2>2, <2>3
<1> HIDE DEF dirty, p
<1>5. ASSUME NEW l \in Local
      PROVE  LET n == [l EXCEPT !.dirty = dirty, !.pc = p]
             IN  n \in Local /\ n.pc = p /\ n.staff = l.staff /\ n.entity = l.entity /\ n.call = l.call
  <2>1. p \in {"idle", "done"} \cup Awaits
    BY <1>4 DEF Awaits, Removing
  <2>2. dirty \subseteq {"email", "status", "role", "username", "password", "changed"}
    BY <1>4
  <2> DEFINE n == [l EXCEPT !.dirty = dirty, !.pc = p]
  <2>3. n \in Local
    BY <2>1, <2>2 DEF Local
  <2>4. n.pc = p /\ n.staff = l.staff /\ n.entity = l.entity /\ n.call = l.call
    BY DEF Local
  <2>5. QED
    BY <2>3, <2>4
<1>6. /\ req' \in [Request -> Local] /\ \A q \in Request \ {r} : req'[q] = req[q]
      /\ req'[r].pc = p /\ req'[r].staff = req[r].staff /\ req'[r].entity = req[r].entity
      /\ req'[r].call = req[r].call
  BY <1>1, <1>4, <1>5 DEF TypeOK
<1>7. LocalsSet(r)'
  BY <1>2, <1>3, <1>4, <1>6 DEF LocalsSet, Saving, Removing, Updating, tables
<1>8. DraftsWritten(r)'
  BY <1>2, <1>6, WholeStays DEF tables, history, Half
<1>9. QED
  BY <1>2, <1>6, <1>7, <1>8, MoveInv

LEMMA DeleteMarkInv ==
  ASSUME CoreInv, NEW r \in Request, DeleteMark(r)
  PROVE  CoreInv'
<1> DEFINE row == WriteBack(staff[req[r].staff], req[r].entity, req[r].dirty)
<1>1. TypeOK /\ LocalsSet(r)
  BY DEF CoreInv
<1>2. req[r].pc = "delete.mark" /\ UNCHANGED <<staff, users, redis, history>>
  BY DEF DeleteMark, At
<1>3. req[r].staff \in Staff /\ staff[req[r].staff] # None /\ req[r].entity \in StaffRow
  BY <1>1, <1>2 DEF LocalsSet
<1>4. row \in StaffRow
  BY <1>1, <1>3, WriteBackStaff DEF TypeOK
<1>5. Goto(r, "delete.remove") /\ WriteStaff(r, req[r].staff, row)
  BY DEF DeleteMark
<1> HIDE DEF row
<1>6. /\ req' \in [Request -> Local] /\ \A q \in Request \ {r} : req'[q] = req[q]
      /\ req'[r] = [req[r] EXCEPT !.pc = "delete.remove"]
  BY <1>1, <1>5, GotoFacts DEF Awaits, Removing
<1>7. req'[r].pc = "delete.remove" /\ req'[r].call = req[r].call
  BY <1>1, <1>6 DEF TypeOK, Local
<1>8. LocalsSet(r)'
  BY <1>7 DEF LocalsSet, Saving, Removing, Updating
<1>9. QED
  BY <1>2, <1>3, <1>4, <1>5, <1>6, <1>7, <1>8, WriteStaffInv DEF Half

\* A transaction that ends makes its rows everybody's.
LEMMA DeleteRemoveInv ==
  ASSUME CoreInv, NEW r \in Request, DeleteRemove(r)
  PROVE  CoreInv'
<1>1. TypeOK
  BY DEF CoreInv
<1>2. /\ req[r].pc = "delete.remove" /\ Return(r) /\ UNCHANGED <<redis, known, mailed, spent>>
      /\ staff' = SeenStaff(r) /\ users' = [users EXCEPT ![req[r].id] = None]
      /\ draft' = [draft EXCEPT ![r] = NoDraft]
  BY DEF DeleteRemove, At
<1>3. /\ req' \in [Request -> Local] /\ \A q \in Request \ {r} : req'[q] = req[q]
      /\ req'[r].call = req[r].call /\ req'[r].pc = "done"
  BY <1>1, <1>2, ReturnFacts
<1>4. draft'[r] = NoDraft /\ \A q \in Request \ {r} : draft'[q] = draft[q]
  BY <1>1, <1>2, RollbackFacts
<1>5. /\ staff' \in [Staff -> StaffRow \cup {None}]
      /\ \A s \in Staff : staff[s] # None => staff'[s] # None
  BY <1>1, <1>2, SeenFacts, NoneAssumption
<1>6. /\ users' \in [Account -> AccountRow \cup {None}]
      /\ \A a \in Account : users'[a] # None => users'[a] = users[a]
  BY <1>1, <1>2 DEF TypeOK
<1>7. TypeOK'
  <2>1. /\ draft' = [q \in Request |-> [staff |-> draft'[q].staff, users |-> draft'[q].users]]
        /\ \A q \in Request : /\ Partial(draft'[q].staff, Staff, StaffRow)
                             /\ Partial(draft'[q].users, Account, AccountRow)
    BY <1>1, <1>2, RollbackFacts
  <2>2. UNCHANGED redis
    BY <1>2
  <2>3. QED
    BY <1>1, <1>3, <1>5, <1>6, <2>1, <2>2 DEF TypeOK
<1>8. LocalsSet(r)' /\ DraftsWritten(r)'
  BY <1>3, <1>4, DoneFacts
<1>9. QED
  BY <1>2, <1>3, <1>4, <1>5, <1>6, <1>7, <1>8, StepInv

-----------------------------------------------------------------------------
(* Staff: assignment.                                                       *)

LEMMA SeqFacts ==
  ASSUME NEW l \in Local, l.rest # <<>>
  PROVE  /\ Head(l.rest)[1] \in Staff /\ Head(l.rest)[2] \in Role
         /\ Tail(l.rest) \in Seq(Staff \X Role)
         /\ Len(l.rest) \in Nat
<1>1. l.rest \in Seq(Staff \X Role)
  BY DEF Local
<1>2. Head(l.rest) \in Staff \X Role /\ Tail(l.rest) \in Seq(Staff \X Role) /\ Len(l.rest) \in Nat
  BY <1>1
<1>3. QED
  BY <1>2

LEMMA AssignSkipInv ==
  ASSUME CoreInv, NEW r \in Request, AssignSkip(r)
  PROVE  CoreInv'
<1>1. TypeOK /\ LocalsSet(r)
  BY DEF CoreInv
<1>2. req[r].pc = "assign.find" /\ req[r].rest # <<>> /\ UNCHANGED <<tables, redis, history>>
  BY DEF AssignSkip, At
<1>3. Tail(req[r].rest) \in Seq(Staff \X Role)
  BY <1>1, <1>2, SeqFacts DEF TypeOK
<1> DEFINE rest == Tail(req[r].rest)
<1>4. req' = [req EXCEPT ![r].rest = rest]
  BY DEF AssignSkip
<1>5. rest \in Seq(Staff \X Role)
  BY <1>3
<1> HIDE DEF rest
<1>6. ASSUME NEW l \in Local
      PROVE  LET n == [l EXCEPT !.rest = rest] IN n \in Local /\ n.pc = l.pc /\ n.call = l.call
  BY <1>5 DEF Local
<1>7. /\ req' \in [Request -> Local] /\ \A q \in Request \ {r} : req'[q] = req[q]
      /\ req'[r].pc = req[r].pc /\ req'[r].call = req[r].call
  BY <1>1, <1>4, <1>6 DEF TypeOK
<1>8. LocalsSet(r)'
  BY <1>1, <1>2, <1>7 DEF LocalsSet, Saving, Removing, Updating
<1>9. DraftsWritten(r)'
  BY <1>2, <1>7, WholeStays DEF tables, history, Half
<1>10. QED
  BY <1>2, <1>7, <1>8, <1>9, MoveInv

LEMMA AssignFindInv ==
  ASSUME CoreInv, NEW r \in Request, AssignFind(r)
  PROVE  CoreInv'
<1> DEFINE s == Next1(r)[1]
           row == SeenStaff(r)[s]
           entity == [email |-> row.email, role |-> Next1(r)[2], username |-> row.username,
                      password |-> None, changed |-> FALSE]
<1>1. TypeOK /\ LocalsSet(r)
  BY DEF CoreInv
<1>2. req[r].pc = "assign.find" /\ req[r].rest # <<>> /\ UNCHANGED <<tables, redis, history>>
  BY DEF AssignFind, At
<1>3. s \in Staff /\ Next1(r)[2] \in Role
  BY <1>1, <1>2, SeqFacts DEF TypeOK, Next1
<1>4. row # None /\ req' = [req EXCEPT ![r] = [@ EXCEPT !.pc = "assign.reload", !.id = s, !.entity = entity]]
  BY DEF AssignFind
<1>5. row \in StaffRow
  BY <1>1, <1>3, <1>4, SeenFacts
<1>6. entity \in AccountRow
  BY <1>3, <1>5 DEF AccountRow, StaffRow, Address
<1>7. SeenStaff(r)[s] # None
  BY <1>4
<1> HIDE DEF s, row, entity
<1>8. ASSUME NEW l \in Local
      PROVE  LET n == [l EXCEPT !.pc = "assign.reload", !.id = s, !.entity = entity]
             IN  /\ n \in Local /\ n.pc = "assign.reload" /\ n.id = s /\ n.entity = entity
                 /\ n.rest = l.rest /\ n.call = l.call
  BY <1>3, <1>6 DEF Local, Awaits, Saving, Account
<1>9. /\ req' \in [Request -> Local] /\ \A q \in Request \ {r} : req'[q] = req[q]
      /\ req'[r].pc = "assign.reload" /\ req'[r].id = s /\ req'[r].entity = entity
      /\ req'[r].rest = req[r].rest /\ req'[r].call = req[r].call
  BY <1>1, <1>4, <1>8 DEF TypeOK
<1>10. LocalsSet(r)'
  <2>1. \A t \in Staff : SeenStaff(r)'[t] = SeenStaff(r)[t]
    BY <1>2 DEF tables, SeenStaff
  <2>2. req'[r].call = "assignRoles"
    BY <1>1, <1>2, <1>9 DEF LocalsSet
  <2>3. QED
    BY <1>2, <1>3, <1>6, <1>7, <1>9, <2>1, <2>2 DEF LocalsSet, Saving, Removing, Updating
<1>11. DraftsWritten(r)'
  BY <1>2, <1>9, WholeStays DEF tables, history, Half
<1>12. QED
  BY <1>2, <1>9, <1>10, <1>11, MoveInv

LEMMA FieldFacts ==
  ASSUME NEW l \in Local
  PROVE  /\ \A e \in AccountRow : [l EXCEPT !.entity = e] \in Local
         /\ \A b \in BOOLEAN : [l EXCEPT !.insert = b] \in Local
         /\ \A d \in SUBSET {"email", "status", "role", "username", "password", "changed"} :
               [l EXCEPT !.dirty = d] \in Local
         /\ \A p \in {"idle", "done"} \cup Awaits : [l EXCEPT !.pc = p] \in Local
<1>1. ASSUME NEW e \in AccountRow PROVE [l EXCEPT !.entity = e] \in Local
  BY DEF Local
<1>2. ASSUME NEW b \in BOOLEAN PROVE [l EXCEPT !.insert = b] \in Local
  BY DEF Local
<1>3. ASSUME NEW d \in SUBSET {"email", "status", "role", "username", "password", "changed"}
      PROVE  [l EXCEPT !.dirty = d] \in Local
  BY DEF Local
<1>4. ASSUME NEW p \in {"idle", "done"} \cup Awaits PROVE [l EXCEPT !.pc = p] \in Local
  BY DEF Local
<1>5. QED
  BY <1>1, <1>2, <1>3, <1>4

\* What the SELECT of a save leaves.
Selected(r, entity, columns, flush, same) ==
    /\ req' \in [Request -> Local] /\ \A q \in Request \ {r} : req'[q] = req[q]
    /\ req'[r].call = req[r].call /\ req'[r].id = req[r].id /\ req'[r].entity = entity
    /\ LocalsSet(r)' /\ req'[r].dirty \subseteq columns
    /\ LET row == SeenUsers(r)[req[r].id] IN
       /\ req'[r].insert = (row = None)
       /\ \/ row = None /\ req'[r].pc = flush
          \/ row # None /\ req'[r].pc = flush /\ req'[r].dirty = Dirty(entity, row) \cap columns
          \/ row # None /\ req'[r].pc = same /\ {} = Dirty(entity, row) \cap columns

\* The SELECT of a save.
LEMMA ReloadFacts ==
  ASSUME CoreInv, NEW r \in Request, req[r].pc \in Saving, UNCHANGED tables,
         NEW entity \in AccountRow, NEW columns,
         NEW flush \in Saving \ {"assign.mail"}, NEW same \in Saving \ {"assign.account"},
         Reloaded(r, entity, columns, flush, same),
         flush = "assign.account" \/ same = "assign.mail" => entity.username # None /\ entity.password # None
  PROVE  Selected(r, entity, columns, flush, same)
<1> DEFINE row == SeenUsers(r)[req[r].id]
           dirty == IF row = None THEN {} ELSE Dirty(entity, row) \cap columns
           insert == (row = None)
           p == IF row = None \/ dirty # {} THEN flush ELSE same
<1>1. TypeOK /\ LocalsSet(r)
  BY DEF CoreInv
<1>2. /\ req[r].id \in Staff /\ SeenStaff(r)[req[r].id] # None /\ req[r].rest # <<>>
      /\ req[r].call = "assignRoles"
  BY <1>1 DEF LocalsSet
<1>3. row \in AccountRow \cup {None}
  BY <1>1, <1>2, SeenFacts DEF Account
<1>4. dirty \subseteq {"email", "status", "role", "username", "password", "changed"}
  BY <1>3, DirtyFacts
<1>5. insert \in BOOLEAN
  OBVIOUS
<1>6. p \in {flush, same} /\ p \in Saving
  OBVIOUS
<1>7. req' = [req EXCEPT ![r] = [@ EXCEPT !.entity = entity, !.insert = insert, !.dirty = dirty, !.pc = p]]
  BY DEF Reloaded
<1>8. \/ row = None /\ p = flush
      \/ row # None /\ p = flush /\ dirty = Dirty(entity, row) \cap columns
      \/ row # None /\ p = same /\ {} = Dirty(entity, row) \cap columns
  OBVIOUS
<1>13. dirty \subseteq columns /\ insert = (row = None)
  OBVIOUS
<1> HIDE DEF row, dirty, insert, p
<1>9. ASSUME NEW l \in Local
      PROVE  LET n == [l EXCEPT !.entity = entity, !.insert = insert, !.dirty = dirty, !.pc = p]
             IN  /\ n \in Local /\ n.pc = p /\ n.id = l.id /\ n.entity = entity /\ n.dirty = dirty
                 /\ n.rest = l.rest /\ n.call = l.call /\ n.insert = insert
  <2>1. p \in {"idle", "done"} \cup Awaits
    BY <1>6 DEF Awaits
  <2> DEFINE n == [l EXCEPT !.entity = entity, !.insert = insert, !.dirty = dirty, !.pc = p]
  <2>2. n \in Local
    <3>1. [l EXCEPT !.entity = entity] \in Local
      BY FieldFacts
    <3>2. [l EXCEPT !.entity = entity, !.insert = insert] \in Local
      BY <1>5, <3>1, FieldFacts
    <3>3. [l EXCEPT !.entity = entity, !.insert = insert, !.dirty = dirty] \in Local
      BY <1>4, <3>2, FieldFacts
    <3>4. QED
      BY <2>1, <3>3, FieldFacts
  <2>3. n.pc = p /\ n.id = l.id /\ n.entity = entity /\ n.dirty = dirty
    BY DEF Local
  <2>4. n.rest = l.rest /\ n.call = l.call /\ n.insert = insert
    BY DEF Local
  <2>5. QED
    BY <2>2, <2>3, <2>4
<1>10. /\ req' \in [Request -> Local] /\ \A q \in Request \ {r} : req'[q] = req[q]
       /\ req'[r].pc = p /\ req'[r].id = req[r].id /\ req'[r].entity = entity /\ req'[r].dirty = dirty
       /\ req'[r].rest = req[r].rest /\ req'[r].call = req[r].call /\ req'[r].insert = insert
  BY <1>1, <1>7, <1>9 DEF TypeOK
<1>11. LocalsSet(r)'
  <2>1. \A t \in Staff : SeenStaff(r)'[t] = SeenStaff(r)[t]
    BY DEF tables, SeenStaff
  <2>2. p \in {"assign.account", "assign.mail"} => entity.username # None /\ entity.password # None
    BY <1>6
  <2>3. p \notin {"idle"} \cup Removing \cup Updating \cup {"resend.mail", "reset.del"}
    BY <1>6 DEF Saving, Removing, Updating
  <2>4. p \notin {"delete.reload", "delete.mark", "resend.update", "resend.mail", "reset.find", "reset.update", "reset.del"}
    BY <1>6 DEF Saving
  <2>5. QED
    BY <1>2, <1>6, <1>10, <2>1, <2>2, <2>3, <2>4 DEF LocalsSet
<1>12. QED
  BY <1>8, <1>10, <1>11, <1>13 DEF row, Selected

LEMMA AssignReloadInv ==
  ASSUME CoreInv, NEW r \in Request, AssignReload(r)
  PROVE  CoreInv'
<1>1. req[r].pc = "assign.reload" /\ UNCHANGED <<tables, redis, history>>
  BY DEF AssignReload, At
<1>2. req[r].entity \in AccountRow
  BY <1>1 DEF CoreInv, LocalsSet, Saving
<1>3. Reloaded(r, req[r].entity, {"role", "username"}, "assign.role", "assign.name")
  BY DEF AssignReload
<1>4. /\ req' \in [Request -> Local] /\ \A q \in Request \ {r} : req'[q] = req[q]
      /\ req'[r].call = req[r].call /\ LocalsSet(r)'
  <2>1. /\ req[r].pc \in Saving
        /\ "assign.role" \in Saving \ {"assign.mail"} /\ "assign.name" \in Saving \ {"assign.account"}
    BY <1>1 DEF Saving
  <2>2. UNCHANGED tables
    BY <1>1
  <2>3. Selected(r, req[r].entity, {"role", "username"}, "assign.role", "assign.name")
    BY <1>2, <1>3, <2>1, <2>2, ReloadFacts
  <2>4. QED
    BY <2>3 DEF Selected
<1>5. DraftsWritten(r)'
  BY <1>1, <1>4, WholeStays DEF tables, history, Half
<1>6. QED
  BY <1>1, <1>4, <1>5, MoveInv

LEMMA AssignNameInv ==
  ASSUME CoreInv, NEW r \in Request, AssignName(r)
  PROVE  CoreInv'
<1> DEFINE a == req[r].id
           role == req[r].entity.role
           own == SeenUsers(r)[a]
           again == own # None /\ own.username = <<role, FALSE>>
           password == <<r, Len(req[r].rest)>>
           entity == [req[r].entity EXCEPT !.username = <<role, again>>, !.password = password]
           columns == {"role", "username", "password", "changed"}
<1>1. TypeOK /\ LocalsSet(r) /\ DraftsWritten(r)
  BY DEF CoreInv
<1>2. req[r].pc = "assign.name" /\ UNCHANGED <<tables, redis, history>>
  BY DEF AssignName, At
<1>3. a \in Account /\ req[r].entity \in AccountRow /\ req[r].rest # <<>>
  BY <1>1, <1>2 DEF LocalsSet, Saving, Account
<1>4. Reloaded(r, entity, columns, "assign.account", "assign.mail")
  BY DEF AssignName
<1>5. entity \in AccountRow /\ entity.username # None /\ entity.password # None
  <2>1. password \in Password /\ password # None
    BY <1>1, <1>3, SeqFacts, PasswordFacts DEF TypeOK
  <2>2. again \in BOOLEAN
    OBVIOUS
  <2>3. role \in Role \cup {"student"}
    BY <1>3 DEF AccountRow
  <2> HIDE DEF password, again, role
  <2>4. <<role, again>> \in Username /\ <<role, again>> # None
    <3>1. ASSUME NEW x \in Role \cup {"student"}, NEW c \in BOOLEAN
          PROVE  <<x, c>> \in Username /\ <<x, c>> # None
      BY NoneAssumption DEF Username
    <3>2. QED
      BY <2>2, <2>3, <3>1
  <2>5. ASSUME NEW row \in AccountRow, NEW name \in Username
        PROVE  LET n == [row EXCEPT !.username = name, !.password = password]
               IN  n \in AccountRow /\ n.username = name /\ n.password = password
    BY <2>1 DEF AccountRow
  <2>6. QED
    BY <1>3, <2>1, <2>4, <2>5
<1> HIDE DEF entity, columns
<1>6. /\ req' \in [Request -> Local] /\ \A q \in Request \ {r} : req'[q] = req[q]
      /\ req'[r].call = req[r].call /\ req'[r].id = a /\ req'[r].entity = entity /\ LocalsSet(r)'
      /\ \/ own = None /\ req'[r].pc = "assign.account"
         \/ own # None /\ req'[r].pc = "assign.account" /\ req'[r].dirty = Dirty(entity, own) \cap columns
         \/ own # None /\ req'[r].pc = "assign.mail" /\ {} = Dirty(entity, own) \cap columns
  <2>1. /\ req[r].pc \in Saving
        /\ "assign.account" \in Saving \ {"assign.mail"} /\ "assign.mail" \in Saving \ {"assign.account"}
    BY <1>2 DEF Saving
  <2>2. UNCHANGED tables
    BY <1>2
  <2>3. Selected(r, entity, columns, "assign.account", "assign.mail")
    BY <1>4, <1>5, <2>1, <2>2, ReloadFacts
  <2>4. QED
    BY <2>3 DEF Selected
<1>7. DraftsWritten(r)'
  <2>1. SUFFICES ASSUME NEW b \in DOMAIN draft[r].users PROVE Written(r, b)'
    BY <1>2 DEF DraftsWritten, tables
  <2> DEFINE row == draft[r].users[b]
  <2>2. draft'[r].users[b] = row /\ Written(r, b)
    BY <1>1, <1>2, <2>1 DEF tables, DraftsWritten
  <2>3. CASE Whole(row)
    <3>1. \A p : Owned(p) => Owned(p)'
      BY <1>1, <1>2, <1>6, OwnedStays DEF history
    <3>2. QED
      BY <2>2, <2>3, <3>1 DEF Written, Whole
  <2>4. CASE ~ Whole(row)
    <3>1. b = a
      BY <1>2, <2>2, <2>4 DEF Written
    <3>2. own = row /\ row \in AccountRow /\ own # None
      BY <1>1, <1>3, <2>1, <3>1, SeenFacts, NoneAssumption
    <3>3. \A c \in {"username", "password"} : row[c] = entity[c] \/ c \in Dirty(entity, own) \cap columns
      BY <3>2, DirtyFacts DEF columns
    <3>4. CASE req'[r].pc = "assign.account" /\ req'[r].dirty = Dirty(entity, own) \cap columns
      BY <1>6, <2>2, <3>1, <3>3, <3>4 DEF Written
    <3>5. CASE req'[r].pc = "assign.mail" /\ {} = Dirty(entity, own) \cap columns
      <4>1. row.username = entity.username /\ row.password = entity.password
        BY <3>3, <3>5
      <4>2. QED
        BY <1>5, <1>6, <2>2, <3>1, <3>5, <4>1 DEF Written
    <3>6. QED
      BY <1>6, <3>2, <3>4, <3>5
  <2>5. QED
    BY <2>3, <2>4
<1>8. QED
  BY <1>2, <1>6, <1>7, MoveInv

\* The handler goes on within a save, or from a save to the next step.
LEMMA SavingFacts ==
  ASSUME CoreInv, NEW r \in Request, req[r].pc \in Saving, NEW p \in Saving, Goto(r, p),
         UNCHANGED staff, draft'[r].staff = draft[r].staff,
         p \in {"assign.account", "assign.mail"} => req[r].pc = "assign.account"
  PROVE  /\ req' \in [Request -> Local] /\ \A q \in Request \ {r} : req'[q] = req[q]
         /\ req'[r].call = req[r].call /\ req'[r].pc = p /\ req'[r].id = req[r].id
         /\ req'[r].entity = req[r].entity /\ LocalsSet(r)'
<1>1. TypeOK /\ LocalsSet(r)
  BY DEF CoreInv
<1>2. /\ req' \in [Request -> Local] /\ \A q \in Request \ {r} : req'[q] = req[q]
      /\ req'[r] = [req[r] EXCEPT !.pc = p]
  BY <1>1, GotoFacts DEF Awaits
<1>3. /\ req'[r].call = req[r].call /\ req'[r].pc = p /\ req'[r].id = req[r].id
      /\ req'[r].entity = req[r].entity /\ req'[r].rest = req[r].rest
  <2>1. ASSUME NEW l \in Local
        PROVE  LET n == [l EXCEPT !.pc = p]
               IN  n.call = l.call /\ n.pc = p /\ n.id = l.id /\ n.entity = l.entity /\ n.rest = l.rest
    BY DEF Local
  <2>2. QED
    BY <1>1, <1>2, <2>1 DEF TypeOK
<1>4. LocalsSet(r)'
  <2>1. /\ req[r].id \in Staff /\ SeenStaff(r)[req[r].id] # None /\ req[r].rest # <<>>
        /\ req[r].call = "assignRoles" /\ req[r].entity \in AccountRow
    BY <1>1 DEF LocalsSet
  <2>2. \A t \in Staff : SeenStaff(r)'[t] = SeenStaff(r)[t]
    BY DEF SeenStaff
  <2>3. p \in {"assign.account", "assign.mail"} => req[r].entity.username # None /\ req[r].entity.password # None
    BY <1>1 DEF LocalsSet
  <2>4. p \notin {"idle"} \cup Removing \cup Updating \cup {"resend.mail", "reset.del"}
    BY DEF Saving, Removing, Updating
  <2>5. p \notin {"delete.reload", "delete.mark", "resend.update", "resend.mail", "reset.find", "reset.update", "reset.del"}
    BY DEF Saving
  <2>6. QED
    BY <1>3, <2>1, <2>2, <2>3, <2>4, <2>5 DEF LocalsSet
<1>5. QED
  BY <1>2, <1>3, <1>4

\* What is left to show of the INSERT or UPDATE of a save.
LEMMA FlushInv ==
  ASSUME CoreInv, NEW r \in Request, req[r].pc \in {"assign.role", "assign.account"},
         Goto(r, Flushing[req[r].pc]), UNCHANGED <<staff, users, redis, known, mailed, spent>>,
         draft' = [q \in Request |-> [staff |-> draft'[q].staff, users |-> draft'[q].users]],
         \A q \in Request \ {r} : draft'[q] = draft[q], draft'[r].staff = draft[r].staff,
         Partial(draft'[r].users, Account, AccountRow),
         \A b \in DOMAIN draft'[r].users :
            \/ b # req[r].id /\ b \in DOMAIN draft[r].users /\ draft'[r].users[b] = draft[r].users[b]
            \/ b = req[r].id /\ (req[r].pc = "assign.account" =>
                 LET row == draft'[r].users[b] IN
                 row.username # None /\ (Whole(row) \/ row.password = req[r].entity.password))
  PROVE  CoreInv'
<1> DEFINE p == Flushing[req[r].pc]
<1>1. TypeOK /\ LocalsSet(r) /\ DraftsWritten(r)
  BY DEF CoreInv
<1>2. p = IF req[r].pc = "assign.role" THEN "assign.name" ELSE "assign.mail"
  BY DEF Flushing
<1>3. Goto(r, p)
  OBVIOUS
<1> HIDE DEF p
<1>4. /\ req' \in [Request -> Local] /\ \A q \in Request \ {r} : req'[q] = req[q]
      /\ req'[r].call = req[r].call /\ req'[r].pc = p /\ req'[r].id = req[r].id
      /\ req'[r].entity = req[r].entity /\ LocalsSet(r)'
  BY <1>2, <1>3, SavingFacts DEF Saving
<1>5. TypeOK'
  BY <1>1, <1>4 DEF TypeOK
<1>6. DraftsWritten(r)'
  <2>1. SUFFICES ASSUME NEW b \in DOMAIN draft'[r].users PROVE Written(r, b)'
    BY DEF DraftsWritten
  <2>2. \A x : Owned(x) => Owned(x)'
    BY <1>1, <1>4, OwnedStays
  <2>3. CASE b # req[r].id
    <3>1. Whole(draft[r].users[b])
      BY <1>1, <2>3 DEF DraftsWritten, Written
    <3>2. QED
      BY <2>2, <2>3, <3>1 DEF Written, Whole
  <2>4. CASE b = req[r].id
    BY <1>2, <1>4, <2>2, <2>4 DEF Written, Whole
  <2>5. QED
    BY <2>3, <2>4
<1>7. QED
  BY <1>4, <1>5, <1>6, StepInv

LEMMA AssignInsertInv ==
  ASSUME CoreInv, NEW r \in Request, AssignInsert(r)
  PROVE  CoreInv'
<1> DEFINE a == req[r].id
           row == req[r].entity
<1>1. TypeOK /\ LocalsSet(r)
  BY DEF CoreInv
<1>2. /\ req[r].pc \in {"assign.role", "assign.account"} /\ Goto(r, Flushing[req[r].pc])
      /\ WriteUser(r, a, row) /\ UNCHANGED <<staff, users, redis, known, mailed, spent>>
  BY DEF AssignInsert, Flushing, history
<1>3. /\ a \in Account /\ row \in AccountRow
      /\ req[r].pc = "assign.account" => row.username # None
  BY <1>1, <1>2 DEF LocalsSet, Saving, Account
<1>4. /\ draft' = [q \in Request |-> [staff |-> draft'[q].staff, users |-> draft'[q].users]]
      /\ \A q \in Request \ {r} : draft'[q] = draft[q]
      /\ draft'[r].staff = draft[r].staff /\ draft'[r].users = Put(draft[r].users, a, row)
  BY <1>1, <1>2, DraftFacts, WriteFacts
<1>5. /\ Partial(draft'[r].users, Account, AccountRow)
      /\ DOMAIN draft'[r].users = DOMAIN draft[r].users \cup {a}
      /\ draft'[r].users[a] = row
      /\ \A b \in DOMAIN draft[r].users \ {a} : draft'[r].users[b] = draft[r].users[b]
  <2>1. Partial(draft[r].users, Account, AccountRow)
    BY <1>1 DEF TypeOK
  <2>2. PICK k \in Account, new \in AccountRow : k = a /\ new = row
    BY <1>3
  <2>3. LET f == Put(draft[r].users, k, new) IN
        /\ Partial(f, Account, AccountRow) /\ DOMAIN f = DOMAIN draft[r].users \cup {k} /\ f[k] = new
        /\ \A b \in DOMAIN draft[r].users \ {k} : f[b] = draft[r].users[b]
    BY <2>1, PutFacts
  <2> HIDE DEF a, row
  <2>4. QED
    BY <1>4, <2>2, <2>3
<1>6. QED
  BY <1>2, <1>3, <1>4, <1>5, FlushInv

LEMMA AssignUpdateInv ==
  ASSUME CoreInv, NEW r \in Request, AssignUpdate(r)
  PROVE  CoreInv'
<1> DEFINE a == req[r].id
           entity == req[r].entity
           old == SeenUsers(r)[a]
           row == WriteBack(old, entity, req[r].dirty)
<1>1. TypeOK /\ LocalsSet(r) /\ DraftsWritten(r) /\ UsersWhole
  BY DEF CoreInv
<1>2. /\ req[r].pc \in {"assign.role", "assign.account"} /\ Goto(r, Flushing[req[r].pc])
      /\ IF old = None THEN UNCHANGED draft ELSE WriteUser(r, a, row)
      /\ UNCHANGED <<staff, users, redis, known, mailed, spent>>
  BY DEF AssignUpdate, Flushing
<1>3. /\ a \in Account /\ entity \in AccountRow
      /\ req[r].pc = "assign.account" => entity.username # None /\ entity.password # None
  BY <1>1, <1>2 DEF LocalsSet, Saving, Account
<1>4. old = IF a \in DOMAIN draft[r].users THEN draft[r].users[a] ELSE users[a]
  BY <1>1, <1>3, SeenFacts
<1>5. Partial(draft[r].users, Account, AccountRow)
  BY <1>1 DEF TypeOK
<1>6. CASE old = None
  <2>1. UNCHANGED draft
    BY <1>2, <1>6
  <2>2. /\ draft' = [q \in Request |-> [staff |-> draft'[q].staff, users |-> draft'[q].users]]
        /\ \A q \in Request \ {r} : draft'[q] = draft[q]
    BY <1>1, <2>1 DEF TypeOK
  <2>3. a \notin DOMAIN draft[r].users
    BY <1>1, <1>4, <1>6, SeenFacts, NoneAssumption
  <2>4. QED
    BY <1>2, <1>5, <2>1, <2>2, <2>3, FlushInv
<1>7. CASE old # None
  <2>1. old \in AccountRow
    BY <1>1, <1>3, <1>7, SeenFacts
  <2>2. /\ row \in AccountRow
        /\ row.username = IF "username" \in req[r].dirty THEN entity.username ELSE old.username
        /\ row.password = IF "password" \in req[r].dirty THEN entity.password ELSE old.password
    BY <1>3, <2>1, WriteBackAccount
  \* The row it updates is whole, or what is missing is written.
  <2>3. \/ Whole(old)
        \/ req[r].pc = "assign.role"
        \/ \A c \in {"username", "password"} : old[c] = entity[c] \/ c \in req[r].dirty
    <3>1. CASE a \in DOMAIN draft[r].users
      BY <1>1, <1>2, <1>4, <3>1 DEF DraftsWritten, Written
    <3>2. CASE a \notin DOMAIN draft[r].users
      BY <1>1, <1>3, <1>4, <1>7, <3>2 DEF UsersWhole
    <3>3. QED
      BY <3>1, <3>2
  <2>4. req[r].pc = "assign.account" => row.username # None /\ (Whole(row) \/ row.password = entity.password)
    BY <1>3, <2>2, <2>3 DEF Whole
  <2>5. WriteUser(r, a, row)
    BY <1>2, <1>7
  <2> HIDE DEF row, old, entity, a
  <2>6. /\ draft' = [q \in Request |-> [staff |-> draft'[q].staff, users |-> draft'[q].users]]
        /\ \A q \in Request \ {r} : draft'[q] = draft[q]
        /\ draft'[r].staff = draft[r].staff /\ draft'[r].users = Put(draft[r].users, a, row)
    BY <1>1, <2>5, DraftFacts, WriteFacts
  <2>7. /\ Partial(draft'[r].users, Account, AccountRow)
        /\ DOMAIN draft'[r].users = DOMAIN draft[r].users \cup {a}
        /\ draft'[r].users[a] = row
        /\ \A b \in DOMAIN draft[r].users \ {a} : draft'[r].users[b] = draft[r].users[b]
    <3>1. a \in Account /\ row \in AccountRow
      BY <1>3, <2>2
    <3>2. LET new == Put(draft[r].users, a, row) IN
          /\ Partial(new, Account, AccountRow) /\ DOMAIN new = DOMAIN draft[r].users \cup {a} /\ new[a] = row
          /\ \A b \in DOMAIN draft[r].users \ {a} : new[b] = draft[r].users[b]
      BY <1>5, <3>1, PutFacts
    <3>3. QED
      BY <2>6, <3>2
  <2>8. \A b \in DOMAIN draft'[r].users :
            \/ b # req[r].id /\ b \in DOMAIN draft[r].users /\ draft'[r].users[b] = draft[r].users[b]
            \/ b = req[r].id /\ (req[r].pc = "assign.account" =>
                 LET new == draft'[r].users[b] IN
                 new.username # None /\ (Whole(new) \/ new.password = req[r].entity.password))
    BY <2>4, <2>7 DEF a, entity
  <2>9. QED
    BY <1>2, <2>6, <2>7, <2>8, FlushInv
<1>8. QED
  BY <1>6, <1>7

LEMMA AssignMailInv ==
  ASSUME CoreInv, NEW r \in Request, AssignMail(r)
  PROVE  CoreInv'
<1>1. TypeOK /\ LocalsSet(r) /\ DraftsWritten(r)
  BY DEF CoreInv
<1>2. /\ req[r].pc = "assign.mail" /\ Goto(r, "assign.mark")
      /\ known' = known \cup {req[r].entity.password}
      /\ UNCHANGED <<staff, users, draft, redis, mailed, spent>>
  BY DEF AssignMail, At, tables
<1>3. req[r].entity.password # None
  BY <1>1, <1>2 DEF LocalsSet
<1>4. /\ req' \in [Request -> Local] /\ \A q \in Request \ {r} : req'[q] = req[q]
      /\ req'[r].call = req[r].call /\ LocalsSet(r)'
  BY <1>2, SavingFacts DEF Saving
<1>5. TypeOK'
  BY <1>1, <1>2, <1>4 DEF TypeOK
<1>6. DraftsWritten(r)'
  <2>1. \A x : Owned(x) => Owned(x)'
    BY <1>1, <1>2, <1>4, OwnedStays
  <2>2. Owned(req[r].entity.password) \/ req[r].entity.password \in known'
    BY <1>2
  <2>3. \A x \in known' : Owned(x)'
    BY DEF Owned
  <2>4. ASSUME NEW b \in DOMAIN draft[r].users PROVE Whole(draft[r].users[b])'
    <3>1. CASE Whole(draft[r].users[b])
      BY <1>2, <2>1, <3>1 DEF Whole
    <3>2. CASE ~ Whole(draft[r].users[b])
      <4>1. draft[r].users[b].username # None /\ draft[r].users[b].password = req[r].entity.password
        BY <1>1, <1>2, <3>2 DEF DraftsWritten, Written
      <4>2. draft[r].users[b].password \in known'
        BY <1>2, <4>1
      <4>3. QED
        BY <1>2, <1>3, <2>3, <4>1, <4>2 DEF Whole
    <3>3. QED
      BY <3>1, <3>2
  <2>5. QED
    BY <1>2, <2>4 DEF DraftsWritten, Written
<1>7. QED
  BY <1>2, <1>4, <1>5, <1>6, StepInv

LEMMA AssignMarkInv ==
  ASSUME CoreInv, NEW r \in Request, AssignMark(r)
  PROVE  CoreInv'
<1> DEFINE s == req[r].id
           row == [SeenStaff(r)[s] EXCEPT !.status = "assigned", !.username = req[r].entity.username]
           rest == Tail(req[r].rest)
           new == [Fresh EXCEPT !.call = "assignRoles", !.pc = "assign.find", !.rest = rest]
<1>1. TypeOK /\ LocalsSet(r)
  BY DEF CoreInv
<1>2. /\ req[r].pc = "assign.mark" /\ WriteStaff(r, s, row)
      /\ UNCHANGED <<staff, users, redis, history>> /\ req' = [req EXCEPT ![r] = new]
  BY DEF AssignMark, At
<1>3. /\ s \in Staff /\ SeenStaff(r)[s] # None /\ req[r].entity \in AccountRow
      /\ req[r].rest # <<>> /\ req[r].call = "assignRoles"
  BY <1>1, <1>2 DEF LocalsSet, Saving
<1>4. row \in StaffRow
  <2>1. ASSUME NEW old \in StaffRow, NEW name \in Username \cup {None}
        PROVE  [old EXCEPT !.status = "assigned", !.username = name] \in StaffRow
    BY DEF StaffRow
  <2>2. SeenStaff(r)[s] \in StaffRow
    BY <1>1, <1>3, SeenFacts
  <2>3. req[r].entity.username \in Username \cup {None}
    BY <1>3 DEF AccountRow
  <2>4. QED
    BY <2>1, <2>2, <2>3
<1>5. rest \in Seq(Staff \X Role)
  BY <1>1, <1>3, SeqFacts DEF TypeOK
<1> HIDE DEF row, rest
<1>6. new \in Local /\ new.call = "assignRoles" /\ new.pc = "assign.find"
  <2>1. ASSUME NEW l \in Local
        PROVE  LET n == [l EXCEPT !.call = "assignRoles", !.pc = "assign.find", !.rest = rest]
               IN  n \in Local /\ n.call = "assignRoles" /\ n.pc = "assign.find"
    BY <1>5 DEF Local, Awaits, CallNames
  <2>2. QED
    BY <2>1, FreshFacts
<1> HIDE DEF new
<1>7. /\ req' \in [Request -> Local] /\ \A q \in Request \ {r} : req'[q] = req[q]
      /\ req'[r] = new
  BY <1>1, <1>2, <1>6 DEF TypeOK
<1>8. LocalsSet(r)'
  BY <1>6, <1>7 DEF LocalsSet, Saving, Removing, Updating
<1>9. QED
  BY <1>2, <1>3, <1>4, <1>6, <1>7, <1>8, WriteStaffInv DEF Half

LEMMA AssignCommitInv ==
  ASSUME CoreInv, NEW r \in Request, AssignCommit(r)
  PROVE  CoreInv'
<1>1. TypeOK /\ DraftsWritten(r)
  BY DEF CoreInv
<1>2. /\ req[r].pc = "assign.find" /\ Return(r) /\ UNCHANGED <<redis, known, mailed, spent>>
      /\ staff' = SeenStaff(r) /\ users' = SeenUsers(r)
      /\ draft' = [draft EXCEPT ![r] = NoDraft]
  BY DEF AssignCommit, Commit, At, history
<1>3. /\ req' \in [Request -> Local] /\ \A q \in Request \ {r} : req'[q] = req[q]
      /\ req'[r].call = req[r].call /\ req'[r].pc = "done"
  BY <1>1, <1>2, ReturnFacts
<1>4. draft'[r] = NoDraft /\ \A q \in Request \ {r} : draft'[q] = draft[q]
  BY <1>1, <1>2, RollbackFacts
<1>5. /\ staff' \in [Staff -> StaffRow \cup {None}]
      /\ \A s \in Staff : staff[s] # None => staff'[s] # None
      /\ users' \in [Account -> AccountRow \cup {None}]
  BY <1>1, <1>2, SeenFacts, NoneAssumption
<1>6. TypeOK'
  <2>1. /\ draft' = [q \in Request |-> [staff |-> draft'[q].staff, users |-> draft'[q].users]]
        /\ \A q \in Request : /\ Partial(draft'[q].staff, Staff, StaffRow)
                             /\ Partial(draft'[q].users, Account, AccountRow)
    BY <1>1, <1>2, RollbackFacts
  <2>2. UNCHANGED redis
    BY <1>2
  <2>3. QED
    BY <1>1, <1>3, <1>5, <2>1, <2>2 DEF TypeOK
<1>7. LocalsSet(r)' /\ DraftsWritten(r)'
  BY <1>3, <1>4, DoneFacts
<1>8. ASSUME NEW a \in Account, users'[a] # users[a] PROVE Whole(users[a])'
  <2>1. a \in DOMAIN draft[r].users /\ users'[a] = draft[r].users[a]
    BY <1>1, <1>2, <1>8, SeenFacts
  <2>2. Whole(draft[r].users[a])
    BY <1>1, <1>2, <2>1 DEF DraftsWritten, Written
  <2>3. \A x : Owned(x) => Owned(x)'
    BY <1>1, <1>2, <1>3, OwnedStays
  <2>4. QED
    BY <2>1, <2>2, <2>3 DEF Whole
<1>9. QED
  BY <1>2, <1>3, <1>4, <1>5, <1>6, <1>7, <1>8, StepInv

LEMMA StaffStepInv ==
  ASSUME CoreInv, NEW r \in Request, StaffStep(r)
  PROVE  CoreInv'
<1>1. CASE AssignConflict(r)
  <2>1. req[r].pc # "done"
    BY <1>1 DEF AssignConflict, Flushing
  <2>2. QED
    BY <1>1, <2>1, ReturnInv DEF AssignConflict
<1>2. QED
  BY <1>1, AssignSkipInv, AssignFindInv, AssignReloadInv, AssignNameInv, AssignInsertInv,
     AssignUpdateInv, AssignMailInv, AssignMarkInv, AssignCommitInv,
     DeleteFindStaffInv, DeleteReloadInv, DeleteMarkInv, DeleteRemoveInv DEF StaffStep

-----------------------------------------------------------------------------
(* The theorems.                                                            *)

LEMMA NextInv == CoreInv /\ [Next]_vars => CoreInv'
<1> SUFFICES ASSUME CoreInv, [Next]_vars PROVE CoreInv'
  OBVIOUS
<1>1. ASSUME NEW r \in Request, ClientCall(r) PROVE CoreInv'
  BY <1>1, CreateStaffInv, AssignRolesInv, DeleteUserInv, CredentialsCallInv DEF ClientCall, StaffCall
<1>2. ASSUME NEW r \in Request, HandlerStep(r) PROVE CoreInv'
  <2>1. CASE DeadlockDetected(r)
    <3>1. req[r].pc # "done"
      BY <2>1 DEF DeadlockDetected, Deadlocked, WaitsFor, Wanted, At
    <3>2. QED
      BY <2>1, <3>1, ReturnInv DEF DeadlockDetected
  <2>2. QED
    BY <1>2, <2>1, StaffStepInv, CredentialsStepInv DEF HandlerStep
<1>3. ASSUME NEW r \in Request, Fail(r) PROVE CoreInv'
  BY <1>3, ReturnInv DEF Fail
<1>4. CASE UNCHANGED vars
  <2>1. UNCHANGED <<staff, users, draft, redis, req, known, mailed, spent>>
    BY <1>4 DEF vars
  <2>2. TypeOK' /\ UsersWhole' /\ KeysStored'
    BY <2>1 DEF CoreInv, TypeOK, UsersWhole, KeysStored, SpentKeysAreGone, Whole, Owned
  <2>3. \A r \in Request : LocalsSet(r)' /\ DraftsWritten(r)'
    BY <2>1 DEF CoreInv, LocalsSet, SeenStaff, Over, DraftsWritten, Written, Whole, Owned
  <2>4. QED
    BY <2>2, <2>3 DEF CoreInv
<1>5. QED
  BY <1>1, <1>2, <1>3, <1>4, ExpireInv DEF Next

\* However assignRoles, deleteUser and the handlers of AuthService interleave,
\* fail, deadlock or lose their keys, the inductive invariant holds: its
\* parts say what each transaction has written at each await of assignRoles
\* and to whom each password and each key belongs.
THEOREM CoreInvariant == Spec => []CoreInv
<1>1. Init => CoreInv
  BY InitInv
<1>2. QED
  BY <1>1, NextInv, PTL DEF Spec

\* The tables, the transactions, the keys and the handlers' locals have their
\* types: no await of assignRoles or deleteUser finds a local it uses unset.
THEOREM AccessTypes == Spec => []TypeOK
<1>1. CoreInv => TypeOK
  BY DEF CoreInv
<1>2. QED
  BY <1>1, CoreInvariant, PTL

\* No account is visible after the first of assignRoles' two saves only: each
\* has a user name and a password, although the SELECT of a save is stale
\* when its UPDATE runs and the row may be another transaction's by then.
THEOREM AccountsAreWhole == Spec => []NoHalfAccounts
<1>1. CoreInv => NoHalfAccounts
  BY DEF CoreInv, UsersWhole, Whole, NoHalfAccounts
<1>2. QED
  BY <1>1, CoreInvariant, PTL

\* The password an account has was mailed to, or chosen by, its holder, but
\* for one that resendLearnerCredentials has changed.
THEOREM HoldersKnowPasswords == Spec => []HolderKnowsPassword
<1>1. CoreInv => HolderKnowsPassword
  BY DEF CoreInv, UsersWhole, Whole, Owned, HolderKnowsPassword, Present
<1>2. QED
  BY <1>1, CoreInvariant, PTL

\* No key that a finished resetPassword has used is in Redis again.
THEOREM KeysAreSpentForGood == Spec => []SpentKeysAreGone
<1>1. CoreInv => SpentKeysAreGone
  BY DEF CoreInv, KeysStored
<1>2. QED
  BY <1>1, CoreInvariant, PTL
-----------------------------------------------------------------------------
(* Staff rows and accounts: what a step of one request leaves to be shown.  *)

InAssignment == Saving \cup {"assign.find"}

\* Rows of staff stay, with their addresses, also the ones others have written.
RowsStay(r) ==
    /\ \A s \in Staff : staff[s] # None => staff'[s] # None /\ staff'[s].email = staff[s].email
    /\ \A q \in Request \ {r} : \A s \in DOMAIN draft[q].staff : staff'[s] = staff[s]
OthersStay(r) == \A q \in Request \ {r} : req'[q] = req[q] /\ draft'[q] = draft[q]
\* What the request has written, nobody else has.
OwnRows(r) ==
    \A q \in Request \ {r} : /\ DOMAIN draft'[r].staff \cap DOMAIN draft[q].staff = {}
                             /\ DOMAIN draft'[r].users \cap DOMAIN draft[q].users = {}
TransactionTrue(r) == DraftAddresses(r) /\ AssignmentTrue(r) /\ RemovalTrue(r)

LEMMA StaysFacts ==
  ASSUME NEW r \in Request, RowsStay(r), NEW s \in Staff, staff[s] # None
  PROVE  /\ \A row : HasAddressOf(s, row) => HasAddressOf(s, row)'
         /\ ~ Alone(s) => ~ Alone(s)'
<1>1. ASSUME NEW row, HasAddressOf(s, row) PROVE HasAddressOf(s, row)'
  BY <1>1 DEF HasAddressOf, RowsStay
<1>2. ASSUME ~ Alone(s) PROVE ~ Alone(s)'
  <2>1. CASE staff[s].email \in Learner
    BY <2>1 DEF Alone, RowsStay
  <2>2. CASE staff[s].email \notin Learner
    <3>1. PICK t \in Staff \ {s} : staff[t] # None /\ staff[t].email = staff[s].email
      BY <1>2, <2>2 DEF Alone
    <3>2. staff'[t] # None /\ staff'[s] # None /\ staff'[t].email = staff'[s].email
      BY <3>1 DEF RowsStay
    <3>3. QED
      BY <3>1, <3>2 DEF Alone
  <2>3. QED
    BY <2>1, <2>2
<1>3. QED
  BY <1>1, <1>2

LEMMA OthersTrue ==
  ASSUME CoreInv, StaffInv, NEW r \in Request, OthersStay(r), RowsStay(r), missed \subseteq missed',
         NEW q \in Request \ {r}
  PROVE  TransactionTrue(q)'
<1>1. req'[q] = req[q] /\ draft'[q] = draft[q]
  BY DEF OthersStay
<1>2. /\ TypeOK /\ LocalsSet(q)
      /\ DraftAddresses(q) /\ AssignmentTrue(q) /\ RemovalTrue(q)
  BY DEF CoreInv, StaffInv
<1>3. DOMAIN draft[q].staff \subseteq Staff
  BY <1>2 DEF TypeOK, Partial
<1>4. \A s \in Staff : \A row : HasAddressOf(s, row) => HasAddressOf(s, row)'
  BY StaysFacts DEF HasAddressOf
<1>5. DraftAddresses(q)'
  BY <1>1, <1>2, <1>3, <1>4 DEF DraftAddresses
<1>6. AssignmentTrue(q)'
  <2>1. req[q].pc \in Saving => req[q].id \in Staff
    BY <1>2 DEF LocalsSet
  <2>2. QED
    BY <1>1, <1>2, <1>4, <2>1 DEF AssignmentTrue
<1>7. RemovalTrue(q)'
  <2>1. \A s \in DOMAIN draft[q].staff : s \in Staff /\ staff[s] # None /\ staff'[s] = staff[s]
    BY <1>2, <1>3 DEF DraftAddresses, HasAddressOf, RowsStay
  <2>2. \A s \in Staff : staff[s] # None /\ ~ Alone(s) => ~ Alone(s)'
    BY StaysFacts
  <2>3. req[q].pc \in {"delete.reload", "delete.mark"} => req[q].staff \in Staff /\ staff[req[q].staff] # None
    BY <1>2 DEF LocalsSet
  <2>4. QED
    BY <1>1, <1>2, <1>4, <2>1, <2>2, <2>3 DEF RemovalTrue
<1>8. QED
  BY <1>5, <1>6, <1>7 DEF TransactionTrue

LEMMA StaffStepRule ==
  ASSUME CoreInv, StaffInv, NEW r \in Request, OthersStay(r), RowsStay(r), OwnRows(r),
         missed \subseteq missed', TransactionTrue(r)',
         AddressesKept', AccountsAreAssigned', AssignedHasAccount'
  PROVE  StaffInv'
<1>1. \A q \in Request : (DraftAddresses(q) /\ AssignmentTrue(q) /\ RemovalTrue(q))'
  BY OthersTrue DEF TransactionTrue
<1>2. RowsLocked'
  BY DEF StaffInv, RowsLocked, OthersStay, OwnRows
<1>3. QED
  BY <1>1, <1>2 DEF StaffInv

\* A request that has ended, or that only reads, has no transaction.
LEMMA OutsideTrue ==
  ASSUME NEW r \in Request, draft'[r] = NoDraft, req'[r].pc \notin InAssignment \cup Removing
  PROVE  TransactionTrue(r)' /\ OwnRows(r)
BY NoDraftFacts DEF TransactionTrue, DraftAddresses, AssignmentTrue, RemovalTrue, OwnRows, InAssignment

\* A step that leaves the tables as they are.
LEMMA SameTables ==
  ASSUME CoreInv, StaffInv, NEW r \in Request, OthersStay(r), OwnRows(r),
         UNCHANGED <<staff, users>>, missed \subseteq missed', TransactionTrue(r)'
  PROVE  StaffInv'
<1>1. RowsStay(r)
  BY DEF RowsStay
<1>2. AddressesKept' /\ AccountsAreAssigned' /\ AssignedHasAccount'
  BY DEF StaffInv, AddressesKept, HasAddressOf, AccountsAreAssigned, AssignedHasAccount, Alone
<1>3. QED
  BY <1>1, <1>2, StaffStepRule

\* A step that leaves the transaction as it is, too.
LEMMA SameDraft ==
  ASSUME CoreInv, StaffInv, NEW r \in Request, \A q \in Request \ {r} : req'[q] = req[q],
         UNCHANGED <<staff, users, draft, missed>>, (AssignmentTrue(r) /\ RemovalTrue(r))'
  PROVE  StaffInv'
<1>1. OthersStay(r)
  BY DEF OthersStay
<1>2. OwnRows(r)
  BY DEF OwnRows, StaffInv, RowsLocked
<1>3. DraftAddresses(r)'
  BY DEF StaffInv, DraftAddresses, HasAddressOf
<1>4. TransactionTrue(r)'
  BY <1>3 DEF TransactionTrue
<1>5. QED
  BY <1>1, <1>2, <1>4, SameTables

\* A handler that ends without writing: a failure, a conflict, a deadlock.
LEMMA ReturnTrue ==
  ASSUME CoreInv, StaffInv, NEW r \in Request, Return(r), draft' = [draft EXCEPT ![r] = NoDraft],
         UNCHANGED <<staff, users, missed>>
  PROVE  StaffInv'
<1>1. TypeOK
  BY DEF CoreInv
<1>2. req'[r].pc = "done" /\ \A q \in Request \ {r} : req'[q] = req[q]
  BY <1>1, ReturnFacts
<1>3. draft'[r] = NoDraft /\ \A q \in Request \ {r} : draft'[q] = draft[q]
  BY <1>1, RollbackFacts
<1>4. OthersStay(r)
  BY <1>2, <1>3 DEF OthersStay
<1>5. TransactionTrue(r)' /\ OwnRows(r)
  BY <1>2, <1>3, OutsideTrue DEF InAssignment, Saving, Removing
<1>6. QED
  BY <1>4, <1>5, SameTables

-----------------------------------------------------------------------------
(* Sign-in changes no address and no user name.                             *)

\* What the handlers of Credentials do to the table users.
SamePeople ==
    \A a \in Account : IF users[a] = None THEN users'[a] = None
                       ELSE /\ users'[a] # None /\ users'[a].email = users[a].email
                            /\ users'[a].username = users[a].username

LEMMA SamePeopleTrue ==
  ASSUME CoreInv, StaffInv, NEW r \in Request, \A q \in Request \ {r} : req'[q] = req[q],
         SamePeople, UNCHANGED <<staff, draft, missed>>, draft[r] = NoDraft,
         req'[r].pc \notin InAssignment \cup Removing
  PROVE  StaffInv'
<1>1. OthersStay(r) /\ RowsStay(r)
  BY DEF OthersStay, RowsStay
<1>2. TransactionTrue(r)' /\ OwnRows(r)
  BY OutsideTrue
<1>3. Staff \subseteq Account /\ Learner \subseteq Account
  BY DEF Account
<1>4. AddressesKept'
  BY <1>3 DEF StaffInv, AddressesKept, HasAddressOf, SamePeople
<1>5. AccountsAreAssigned'
  BY <1>3 DEF StaffInv, AccountsAreAssigned, Alone, SamePeople
<1>6. AssignedHasAccount'
  BY <1>3 DEF StaffInv, AssignedHasAccount, SamePeople
<1>7. QED
  BY <1>1, <1>2, <1>4, <1>5, <1>6, StaffStepRule

Resumed == {"resend.mail", "reset.mail", "reset.update", "reset.del", "login.stamp",
            "2fa.mail", "verify.role"}

LEMMA CredentialsStepTrue ==
  ASSUME CoreInv, StaffInv, NEW r \in Request, CredentialsStep(r)
  PROVE  StaffInv'
<1>1. TypeOK /\ LocalsSet(r)
  BY DEF CoreInv
<1>2. UNCHANGED <<staff, draft, missed>>
  BY DEF CredentialsStep, ResendUpdate, ResendMail, ChangeUpdate, ResetKey, ResetMail, ResetFind,
     ResetUpdate, ResetDel, LoginRole, LoginStamp, TwoFactorCode, TwoFactorMail, VerifyCode,
     VerifyRole, Update, tables, history
<1>3. Return(r) \/ \E p \in Resumed : Goto(r, p)
  BY DEF CredentialsStep, ResendUpdate, ResendMail, ChangeUpdate, ResetKey, ResetMail, ResetFind,
     ResetUpdate, ResetDel, LoginRole, LoginStamp, TwoFactorCode, TwoFactorMail, VerifyCode,
     VerifyRole, Resumed
<1>4. \A q \in Request \ {r} : req'[q] = req[q]
  BY <1>1, <1>3 DEF Return, Goto, TypeOK
<1>5. req'[r].pc \notin InAssignment \cup Removing
  <2>1. CASE Return(r)
    BY <1>1, <2>1, ReturnFacts DEF InAssignment, Saving, Removing
  <2>2. CASE \E p \in Resumed : Goto(r, p)
    <3>1. PICK p \in Resumed : Goto(r, p)
      BY <2>2
    <3>2. p \in Awaits /\ p \notin InAssignment \cup Removing
      BY DEF Resumed, Awaits, Updating, InAssignment, Saving, Removing
    <3>3. req'[r] = [req[r] EXCEPT !.pc = p]
      BY <1>1, <3>1, <3>2, GotoFacts
    <3>4. req'[r].pc = p
      <4>1. req[r] \in Local
        BY <1>1 DEF TypeOK
      <4>2. QED
        BY <3>2, <3>3, <4>1, PcFacts
    <3>5. QED
      BY <3>2, <3>4
  <2>3. QED
    BY <1>3, <2>1, <2>2
<1>6. /\ req[r].pc \notin InAssignment \cup Removing
      /\ req[r].pc \in {"resend.update", "change.update", "reset.update", "login.stamp"} => req[r].id \in Account
  <2>1. req[r].pc \in Updating \cup {"resend.mail", "reset.mail", "reset.del", "2fa.mail", "verify.role"}
    BY DEF CredentialsStep, ResendUpdate, ResendMail, ChangeUpdate, ResetKey, ResetMail, ResetFind,
       ResetUpdate, ResetDel, LoginRole, LoginStamp, TwoFactorCode, TwoFactorMail, VerifyCode,
       VerifyRole, At, Updating
  <2>2. QED
    BY <1>1, <2>1 DEF LocalsSet, Updating, InAssignment, Saving, Removing
<1>7. draft[r] = NoDraft
  BY <1>1, <1>6 DEF LocalsSet, InAssignment
<1>8. SamePeople
  <2> DEFINE a == req[r].id
  <2>1. ASSUME NEW row, Update(r, row), a \in Account,
               users[a] # None => row # None /\ row.email = users[a].email /\ row.username = users[a].username
        PROVE  SamePeople
    BY <1>1, <2>1 DEF Update, SamePeople, TypeOK
  <2>2. ASSUME UNCHANGED users PROVE SamePeople
    BY <2>2, <1>1 DEF SamePeople, TypeOK
  <2>3. ASSUME NEW p \in Password, NEW row \in AccountRow, NEW c \in BOOLEAN
        PROVE  /\ [row EXCEPT !.password = p] # None
               /\ [row EXCEPT !.password = p].email = row.email
               /\ [row EXCEPT !.password = p].username = row.username
               /\ [row EXCEPT !.password = p, !.changed = c] # None
               /\ [row EXCEPT !.password = p, !.changed = c].email = row.email
               /\ [row EXCEPT !.password = p, !.changed = c].username = row.username
    <3>1. /\ [row EXCEPT !.password = p].email = row.email
          /\ [row EXCEPT !.password = p, !.changed = c].email = row.email
      BY DEF AccountRow
    <3>2. /\ [row EXCEPT !.password = p] \in AccountRow
          /\ [row EXCEPT !.password = p].username = row.username
          /\ [row EXCEPT !.password = p, !.changed = c] \in AccountRow
          /\ [row EXCEPT !.password = p, !.changed = c].username = row.username
      BY AccountFacts
    <3>3. None \notin AccountRow
      BY NoneAssumption
    <3>4. QED
      BY <3>1, <3>2, <3>3
  <2>4. a \in Account /\ users[a] # None => users[a] \in AccountRow
    BY <1>1 DEF TypeOK
  <2>5. <<r, 0>> \in Password
    BY PasswordFacts
  <2>6. CASE ResendUpdate(r)
    <3>1. Update(r, [users[a] EXCEPT !.password = <<r, 0>>, !.changed = FALSE]) /\ a \in Account
      BY <1>6, <2>6 DEF ResendUpdate, At
    <3>2. QED
      BY <2>1, <2>3, <2>4, <2>5, <3>1
  <2>7. CASE ChangeUpdate(r)
    <3>1. Update(r, [users[a] EXCEPT !.password = <<r, 0>>, !.changed = TRUE]) /\ a \in Account
      BY <1>6, <2>7 DEF ChangeUpdate, At
    <3>2. QED
      BY <2>1, <2>3, <2>4, <2>5, <3>1
  <2>8. CASE ResetUpdate(r)
    <3>1. Update(r, [users[a] EXCEPT !.password = <<r, 0>>]) /\ a \in Account
      BY <1>6, <2>8 DEF ResetUpdate, At
    <3>2. QED
      BY <2>1, <2>3, <2>4, <2>5, <3>1
  <2>9. CASE LoginStamp(r)
    <3>1. Update(r, users[a]) /\ a \in Account
      BY <1>6, <2>9 DEF LoginStamp, At
    <3>2. QED
      BY <2>1, <3>1
  <2>10. CASE ~ (ResendUpdate(r) \/ ChangeUpdate(r) \/ ResetUpdate(r) \/ LoginStamp(r))
    <3>1. UNCHANGED users
      BY <2>10 DEF CredentialsStep, ResendMail, ResetKey, ResetMail, ResetFind, ResetDel, LoginRole,
         TwoFactorCode, TwoFactorMail, VerifyCode, VerifyRole, tables
    <3>2. QED
      BY <2>2, <3>1
  <2>11. QED
    BY <2>6, <2>7, <2>8, <2>9, <2>10
<1>9. QED
  BY <1>2, <1>4, <1>5, <1>7, <1>8, SamePeopleTrue

-----------------------------------------------------------------------------
(* Calls.                                                                   *)

\* A call has no transaction yet, and a removal knows the account's address.
LEMMA CallTrue ==
  ASSUME CoreInv, StaffInv, NEW r \in Request, NEW name, NEW l \in Local, Enter(r, name, l),
         UNCHANGED <<tables, redis, history>>,
         \/ l.pc \notin Saving \cup Removing
         \/ /\ l.pc = "delete.staff" /\ l.id \in Account
            /\ IF l.id \in Staff THEN HasAddressOf(l.id, l.entity) ELSE l.entity.email = l.id
  PROVE  StaffInv'
<1>1. TypeOK /\ LocalsSet(r)
  BY DEF CoreInv
<1>2. /\ req[r].pc = "idle" /\ req'[r] = [l EXCEPT !.call = name]
      /\ \A q \in Request \ {r} : req'[q] = req[q]
  BY <1>1, EnterFacts
<1>3. req'[r].pc = l.pc /\ req'[r].id = l.id /\ req'[r].entity = l.entity
  BY <1>2 DEF Local
<1>4. draft'[r] = NoDraft /\ UNCHANGED <<staff, users, draft, missed>>
  BY <1>1, <1>2 DEF LocalsSet, Saving, Removing, tables, history
<1>5. AssignmentTrue(r)'
  BY <1>3, <1>4, NoDraftFacts DEF AssignmentTrue, Saving
<1>6. RemovalTrue(r)'
  <2>1. l.pc \in Removing => l.pc = "delete.staff"
    OBVIOUS
  <2>2. l.pc = "delete.staff" =>
           IF l.id \in Staff THEN HasAddressOf(l.id, l.entity)' ELSE l.entity.email = l.id
    BY <1>4 DEF HasAddressOf, Saving, Removing
  <2>3. l.pc \in Removing => l.id \in Account
    OBVIOUS
  <2>4. QED
    BY <1>3, <1>4, <2>1, <2>2, <2>3, NoDraftFacts DEF RemovalTrue
<1>7. QED
  BY <1>2, <1>4, <1>5, <1>6, SameDraft

LEMMA CredentialsCallTrue ==
  ASSUME CoreInv, StaffInv, NEW r \in Request, CredentialsCall(r)
  PROVE  StaffInv'
<1> DEFINE Entry(p, a) == [Fresh EXCEPT !.pc = p, !.id = a]
<1>1. UNCHANGED <<tables, redis, history>>
  BY DEF CredentialsCall, ResendLearnerCredentials, ChangePassword, InitiatePasswordReset,
         ResetPassword, Login, Send2faEmail, Verify2fa
<1>2. ASSUME NEW name, Enter(r, name, [Fresh EXCEPT !.pc = "done"]) PROVE StaffInv'
  <2>1. [Fresh EXCEPT !.pc = "done"] \in Local /\ [Fresh EXCEPT !.pc = "done"].pc = "done"
    BY FreshFacts, PcFacts
  <2>2. QED
    BY <1>1, <1>2, <2>1, CallTrue DEF Saving, Removing
<1>3. ASSUME NEW name, NEW a \in Account,
             NEW p \in {"resend.update", "change.update", "reset.key", "login.role", "2fa.code"},
             Enter(r, name, Entry(p, a))
      PROVE StaffInv'
  <2>1. Entry(p, a) \in Local /\ Entry(p, a).pc = p
    <3>1. p \in {"idle", "done"} \cup Awaits
      BY DEF Awaits, Updating
    <3>2. QED
      BY <3>1, PcIdFacts
  <2> HIDE DEF Entry
  <2>2. QED
    BY <1>1, <1>3, <2>1, CallTrue DEF Saving, Removing
<1>4. ASSUME NEW name, NEW a \in Account, NEW k \in Keys,
             NEW p \in {"reset.find", "verify.code"},
             Enter(r, name, KeyEntry(p, a, k))
      PROVE StaffInv'
  <2>1. p \in {"idle", "done"} \cup Awaits
    BY DEF Awaits, Updating
  <2>2. KeyEntry(p, a, k) \in Local /\ KeyEntry(p, a, k).pc = p
    BY <2>1, PcIdKeyFacts
  <2>3. QED
    BY <1>1, <1>4, <2>2, CallTrue DEF Saving, Removing
<1>5. Present \subseteq Account /\ mailed \subseteq Keys
  BY DEF Present, CoreInv, KeysStored, Keys
<1>6. CASE ResendLearnerCredentials(r)
  BY <1>3, <1>5, <1>6 DEF ResendLearnerCredentials
<1>7. CASE ChangePassword(r)
  BY <1>2, <1>3, <1>5, <1>7 DEF ChangePassword
<1>8. CASE InitiatePasswordReset(r)
  BY <1>3, <1>5, <1>8 DEF InitiatePasswordReset
<1>9. CASE ResetPassword(r)
  <2>1. \A k \in mailed : redis.reset[k] # None => redis.reset[k] \in Account
    BY DEF CoreInv, TypeOK, KeysStored, Keys
  <2>2. QED
    BY <1>2, <1>4, <1>5, <1>9, <2>1 DEF ResetPassword, KeyEntry
<1>10. CASE Login(r)
  BY <1>2, <1>3, <1>5, <1>10 DEF Login
<1>11. CASE Send2faEmail(r)
  BY <1>3, <1>5, <1>11 DEF Send2faEmail
<1>12. CASE Verify2fa(r)
  BY <1>4, <1>5, <1>12 DEF Verify2fa, KeyEntry
<1>13. QED
  BY <1>6, <1>7, <1>8, <1>9, <1>10, <1>11, <1>12 DEF CredentialsCall

LEMMA CreateStaffTrue ==
  ASSUME CoreInv, StaffInv, NEW r \in Request, CreateStaff(r)
  PROVE  StaffInv'
<1>1. TypeOK /\ LocalsSet(r)
  BY DEF CoreInv
<1> DEFINE new == [Fresh EXCEPT !.pc = "done"]
<1>2. new \in Local /\ new.pc = "done"
  BY FreshFacts, PcFacts
<1>3. Enter(r, "createStaff", new) /\ UNCHANGED <<users, draft, missed>>
  BY DEF CreateStaff, history
<1> HIDE DEF new
<1>4. /\ req[r].pc = "idle" /\ req'[r] = [new EXCEPT !.call = "createStaff"]
      /\ \A q \in Request \ {r} : req'[q] = req[q]
  BY <1>1, <1>2, <1>3, EnterFacts
<1>5. req'[r].pc = "done" /\ draft'[r] = NoDraft
  BY <1>1, <1>2, <1>3, <1>4 DEF Local, LocalsSet, Saving, Removing
<1>6. TransactionTrue(r)' /\ OwnRows(r) /\ OthersStay(r)
  BY <1>3, <1>4, <1>5, OutsideTrue DEF InAssignment, Saving, Removing, OthersStay
\* The new rows are unassigned; the old ones stay.
<1>7. \A s \in Staff : IF staff[s] # None THEN staff'[s] = staff[s]
                       ELSE staff'[s] = None \/ staff'[s].status = "unassigned"
  <2>1. PICK add \in SUBSET {s \in Staff : staff[s] = None} : \E e \in [add -> Email] :
           staff' = Over([s \in add |-> NewStaff(e[s])], staff)
    BY DEF CreateStaff
  <2>2. PICK e \in [add -> Email] : staff' = Over([s \in add |-> NewStaff(e[s])], staff)
    BY <2>1
  <2>3. staff' = [s \in Staff |-> IF s \in add THEN NewStaff(e[s]) ELSE staff[s]]
    BY <1>1, <2>2 DEF Over, TypeOK
  <2>4. \A x : NewStaff(x).status = "unassigned"
    BY DEF NewStaff
  <2>5. QED
    BY <2>1, <2>3, <2>4
<1>8. RowsStay(r)
  <2>1. ASSUME NEW q \in Request, NEW s \in DOMAIN draft[q].staff PROVE s \in Staff /\ staff[s] # None
    BY <1>1 DEF StaffInv, DraftAddresses, HasAddressOf, TypeOK, Partial
  <2>2. QED
    BY <1>7, <2>1 DEF RowsStay
<1>9. AddressesKept'
  BY <1>3, <1>7 DEF StaffInv, AddressesKept, HasAddressOf
<1>10. AccountsAreAssigned'
  <2>1. ASSUME NEW s \in Staff, users[s] # None, Alone(s)' PROVE Alone(s) /\ staff'[s] = staff[s]
    <3>1. staff[s] # None
      BY <2>1 DEF StaffInv, AddressesKept, HasAddressOf
    <3>2. QED
      BY <1>7, <1>8, <2>1, <3>1, StaysFacts
  <2>2. QED
    BY <1>3, <2>1 DEF StaffInv, AccountsAreAssigned
<1>11. AssignedHasAccount'
  BY <1>3, <1>7 DEF StaffInv, AssignedHasAccount
<1>12. QED
  BY <1>3, <1>6, <1>8, <1>9, <1>10, <1>11, StaffStepRule

LEMMA AssignRolesTrue ==
  ASSUME CoreInv, StaffInv, NEW r \in Request, AssignRoles(r)
  PROVE  StaffInv'
<1>1. PICK b \in Batches : Enter(r, "assignRoles", [Fresh EXCEPT !.pc = "assign.find", !.rest = b])
  BY DEF AssignRoles
<1>2. b \in Seq(Staff \X Role)
  BY DirectoryAssumption
<1> DEFINE new == [Fresh EXCEPT !.pc = "assign.find", !.rest = b]
<1>3. new \in Local /\ new.pc = "assign.find"
  <2>1. ASSUME NEW l \in Local
        PROVE  LET n == [l EXCEPT !.pc = "assign.find", !.rest = b] IN n \in Local /\ n.pc = "assign.find"
    BY <1>2 DEF Local, Awaits
  <2>2. QED
    BY <2>1, FreshFacts
<1>4. Enter(r, "assignRoles", new) /\ UNCHANGED <<tables, redis, history>>
  BY <1>1 DEF AssignRoles
<1> HIDE DEF new
<1>5. QED
  BY <1>3, <1>4, CallTrue DEF Saving, Removing

LEMMA DeleteUserTrue ==
  ASSUME CoreInv, StaffInv, NEW r \in Request, DeleteUser(r)
  PROVE  StaffInv'
<1>1. UNCHANGED <<tables, redis, history>>
  BY DEF DeleteUser
<1>2. PICK a \in Account : Enter(r, "deleteUser", IF users[a] = None THEN [Fresh EXCEPT !.pc = "done"]
             ELSE [Fresh EXCEPT !.pc = "delete.staff", !.id = a, !.entity = users[a]])
  BY DEF DeleteUser
<1>3. CASE users[a] = None
  <2>1. Enter(r, "deleteUser", [Fresh EXCEPT !.pc = "done"])
    BY <1>2, <1>3
  <2>2. [Fresh EXCEPT !.pc = "done"] \in Local /\ [Fresh EXCEPT !.pc = "done"].pc = "done"
    BY FreshFacts, PcFacts
  <2>3. QED
    BY <1>1, <2>1, <2>2, CallTrue DEF Saving, Removing
<1>4. CASE users[a] # None
  <2> DEFINE new == [Fresh EXCEPT !.pc = "delete.staff", !.id = a, !.entity = users[a]]
  <2>1. users[a] \in AccountRow
    BY <1>4 DEF CoreInv, TypeOK
  <2>2. new \in Local /\ new.pc = "delete.staff" /\ new.id = a /\ new.entity = users[a]
    <3>1. ASSUME NEW l \in Local
          PROVE  LET n == [l EXCEPT !.pc = "delete.staff", !.id = a, !.entity = users[a]]
                 IN  n \in Local /\ n.pc = "delete.staff" /\ n.id = a /\ n.entity = users[a]
      BY <2>1 DEF Local, Awaits, Removing
    <3>2. QED
      BY <3>1, FreshFacts
  <2>3. Enter(r, "deleteUser", new)
    BY <1>2, <1>4
  <2>4. IF a \in Staff THEN HasAddressOf(a, users[a]) ELSE users[a].email = a
    BY <1>4 DEF StaffInv, AddressesKept, Account
  <2> HIDE DEF new
  <2>5. IF new.id \in Staff THEN HasAddressOf(new.id, new.entity) ELSE new.entity.email = new.id
    BY <2>2, <2>4
  <2>6. QED
    BY <1>1, <2>2, <2>3, <2>5, CallTrue
<1>5. QED
  BY <1>3, <1>4

-----------------------------------------------------------------------------
(* Removals.                                                                *)

\* A row that is found by the address of an account is the account's own, or
\* somebody else has the address too.
LEMMA DeleteFindStaffTrue ==
  ASSUME CoreInv, StaffInv, NEW r \in Request, DeleteFindStaff(r)
  PROVE  StaffInv'
<1>1. TypeOK /\ RemovalTrue(r)
  BY DEF CoreInv, StaffInv
<1>2. req[r].pc = "delete.staff" /\ UNCHANGED <<staff, users, draft, missed>>
  BY DEF DeleteFindStaff, At, tables, history
<1>3. /\ req[r].id \in Account /\ DOMAIN draft[r].users = {} /\ DOMAIN draft[r].staff = {}
      /\ IF req[r].id \in Staff THEN HasAddressOf(req[r].id, req[r].entity)
         ELSE req[r].entity.email = req[r].id
  BY <1>1, <1>2 DEF RemovalTrue, Removing
<1>4. CASE Goto(r, "delete.remove")
  <2>1. /\ \A q \in Request \ {r} : req'[q] = req[q]
        /\ req'[r] = [req[r] EXCEPT !.pc = "delete.remove"]
    BY <1>1, <1>4, GotoFacts DEF Awaits, Removing
  <2>2. req'[r].pc = "delete.remove" /\ req'[r].id = req[r].id
    BY <1>1, <2>1 DEF TypeOK, Local
  <2>3. (AssignmentTrue(r) /\ RemovalTrue(r))'
    BY <1>2, <1>3, <2>2 DEF AssignmentTrue, RemovalTrue, Saving, Removing
  <2>4. QED
    BY <1>2, <2>1, <2>3, SameDraft
<1>5. CASE ~ Goto(r, "delete.remove")
  <2>1. PICK s \in Staff : /\ staff[s] # None /\ staff[s].email = req[r].entity.email
                           /\ req' = [req EXCEPT ![r] = [@ EXCEPT !.pc = "delete.reload", !.staff = s,
                                        !.entity = [staff[s] EXCEPT !.status = "unassigned"]]]
    BY <1>5 DEF DeleteFindStaff
  <2>2. ASSUME NEW old \in StaffRow
        PROVE  LET n == [old EXCEPT !.status = "unassigned"]
               IN  n \in StaffRow /\ n.email = old.email /\ n.status = "unassigned"
    BY DEF StaffRow
  <2>3. PICK row \in StaffRow :
           /\ row.email = staff[s].email /\ row.status = "unassigned"
           /\ req' = [req EXCEPT ![r] = [@ EXCEPT !.pc = "delete.reload", !.staff = s, !.entity = row]]
    BY <1>1, <2>1, <2>2 DEF TypeOK
  <2>4. ASSUME NEW l \in Local
        PROVE  LET n == [l EXCEPT !.pc = "delete.reload", !.staff = s, !.entity = row]
               IN  n.pc = "delete.reload" /\ n.staff = s /\ n.entity = row /\ n.id = l.id
    BY DEF Local
  <2>5. /\ \A q \in Request \ {r} : req'[q] = req[q]
        /\ req'[r].pc = "delete.reload" /\ req'[r].staff = s /\ req'[r].entity = row
        /\ req'[r].id = req[r].id
    BY <1>1, <2>3, <2>4 DEF TypeOK
  <2>6. HasAddressOf(s, row)'
    BY <1>2, <2>1, <2>3 DEF HasAddressOf
  <2>7. s = req[r].id \/ ~ Alone(s)'
    <3>1. ASSUME s # req[r].id PROVE ~ Alone(s)
      <4>1. CASE req[r].id \in Staff
        BY <1>3, <2>1, <3>1, <4>1 DEF Alone, HasAddressOf
      <4>2. CASE req[r].id \notin Staff
        BY <1>3, <2>1, <4>2 DEF Alone, Account
      <4>3. QED
        BY <4>1, <4>2
    <3>2. Alone(s)' => Alone(s)
      BY <1>2 DEF Alone
    <3>3. QED
      BY <3>1, <3>2
  <2>8. AssignmentTrue(r)'
    BY <2>5 DEF AssignmentTrue, Saving
  <2>9. RemovalTrue(r)'
    <3>1. /\ req'[r].id \in Account /\ DOMAIN draft'[r].users = {} /\ DOMAIN draft'[r].staff = {}
          /\ HasAddressOf(req[r].staff, req[r].entity)' /\ req'[r].entity.status = "unassigned"
          /\ req'[r].staff = req'[r].id \/ ~ Alone(req[r].staff)'
      BY <1>2, <1>3, <2>3, <2>5, <2>6, <2>7
    <3>2. QED
      BY <2>5, <3>1 DEF RemovalTrue
  <2>10. QED
    BY <1>2, <2>5, <2>8, <2>9, SameDraft
<1>6. QED
  BY <1>4, <1>5

LEMMA DeleteReloadTrue ==
  ASSUME CoreInv, StaffInv, NEW r \in Request, DeleteReload(r)
  PROVE  StaffInv'
<1>1. TypeOK /\ LocalsSet(r) /\ RemovalTrue(r)
  BY DEF CoreInv, StaffInv
<1>2. req[r].pc = "delete.reload" /\ UNCHANGED <<staff, users, draft, missed>>
  BY DEF DeleteReload, At, tables, history
<1> DEFINE dirty == Dirty(req[r].entity, staff[req[r].staff])
           p == IF dirty = {} THEN "delete.remove" ELSE "delete.mark"
<1>3. req' = [req EXCEPT ![r] = [@ EXCEPT !.dirty = dirty, !.pc = p]]
  BY DEF DeleteReload
<1>4. p \in {"delete.remove", "delete.mark"}
  OBVIOUS
<1> HIDE DEF dirty, p
<1>5. ASSUME NEW l \in Local
      PROVE  LET n == [l EXCEPT !.dirty = dirty, !.pc = p]
             IN  n.pc = p /\ n.staff = l.staff /\ n.entity = l.entity /\ n.id = l.id
  BY DEF Local
<1>6. /\ \A q \in Request \ {r} : req'[q] = req[q]
      /\ req'[r].pc = p /\ req'[r].staff = req[r].staff /\ req'[r].entity = req[r].entity
      /\ req'[r].id = req[r].id
  BY <1>1, <1>3, <1>5 DEF TypeOK
<1>7. AssignmentTrue(r)'
  BY <1>4, <1>6 DEF AssignmentTrue, Saving
<1>8. RemovalTrue(r)'
  <2>1. /\ req[r].id \in Account /\ DOMAIN draft[r].users = {} /\ DOMAIN draft[r].staff = {}
        /\ HasAddressOf(req[r].staff, req[r].entity) /\ req[r].entity.status = "unassigned"
        /\ req[r].staff = req[r].id \/ ~ Alone(req[r].staff)
    BY <1>1, <1>2 DEF RemovalTrue, Removing
  <2>2. \A s : Alone(s)' => Alone(s)
    BY <1>2 DEF Alone
  <2>3. \A s, row : HasAddressOf(s, row) => HasAddressOf(s, row)'
    BY <1>2 DEF HasAddressOf
  <2>4. QED
    BY <1>2, <1>4, <1>6, <2>1, <2>2, <2>3 DEF RemovalTrue
<1>9. QED
  BY <1>2, <1>6, <1>7, <1>8, SameDraft

\* What an UPDATE within the transaction leaves of the staff row it finds.
LEMMA StaffWritten ==
  ASSUME CoreInv, StaffInv, NEW r \in Request, NEW s \in Staff, NEW row \in StaffRow,
         WriteStaff(r, s, row), StaffFree(r, s), HasAddressOf(s, row), UNCHANGED staff
  PROVE  /\ OwnRows(r) /\ DraftAddresses(r)'
         /\ \A q \in Request \ {r} : draft'[q] = draft[q]
         /\ draft'[r].users = draft[r].users
         /\ DOMAIN draft'[r].staff = DOMAIN draft[r].staff \cup {s}
         /\ draft'[r].staff[s] = row
         /\ \A t \in DOMAIN draft[r].staff \ {s} : draft'[r].staff[t] = draft[r].staff[t]
<1>1. TypeOK /\ RowsLocked /\ DraftAddresses(r)
  BY DEF CoreInv, StaffInv
<1>2. /\ \A q \in Request \ {r} : draft'[q] = draft[q]
      /\ draft'[r].staff = Put(draft[r].staff, s, row) /\ draft'[r].users = draft[r].users
  BY <1>1, DraftFacts, WriteFacts
<1>3. /\ DOMAIN draft'[r].staff = DOMAIN draft[r].staff \cup {s}
      /\ draft'[r].staff[s] = row
      /\ \A t \in DOMAIN draft[r].staff \ {s} : draft'[r].staff[t] = draft[r].staff[t]
  BY <1>2 DEF Put
<1>4. OwnRows(r)
  BY <1>1, <1>2, <1>3 DEF OwnRows, RowsLocked, StaffFree
<1>5. DraftAddresses(r)'
  BY <1>1, <1>2, <1>3 DEF DraftAddresses, HasAddressOf
<1>6. QED
  BY <1>2, <1>3, <1>4, <1>5

\* And of the account it finds or inserts.
LEMMA UserWritten ==
  ASSUME CoreInv, StaffInv, NEW r \in Request, NEW s \in Staff, NEW row \in AccountRow,
         WriteUser(r, s, row), UserFree(r, s), HasAddressOf(s, row), UNCHANGED staff
  PROVE  /\ OwnRows(r) /\ DraftAddresses(r)'
         /\ \A q \in Request \ {r} : draft'[q] = draft[q]
         /\ draft'[r].staff = draft[r].staff
         /\ DOMAIN draft'[r].users = DOMAIN draft[r].users \cup {s}
         /\ draft'[r].users[s] = row
         /\ \A t \in DOMAIN draft[r].users \ {s} : draft'[r].users[t] = draft[r].users[t]
<1>1. TypeOK /\ RowsLocked /\ DraftAddresses(r)
  BY DEF CoreInv, StaffInv
<1>2. /\ \A q \in Request \ {r} : draft'[q] = draft[q]
      /\ draft'[r].users = Put(draft[r].users, s, row) /\ draft'[r].staff = draft[r].staff
  BY <1>1, DraftFacts, WriteFacts
<1>3. /\ DOMAIN draft'[r].users = DOMAIN draft[r].users \cup {s}
      /\ draft'[r].users[s] = row
      /\ \A t \in DOMAIN draft[r].users \ {s} : draft'[r].users[t] = draft[r].users[t]
  BY <1>2 DEF Put
<1>4. OwnRows(r)
  BY <1>1, <1>2, <1>3 DEF OwnRows, RowsLocked, UserFree
<1>5. DraftAddresses(r)'
  BY <1>1, <1>2, <1>3 DEF DraftAddresses, HasAddressOf
<1>6. QED
  BY <1>2, <1>3, <1>4, <1>5

LEMMA WriteBackFields ==
  ASSUME NEW columns, NEW entity
  PROVE  /\ \A row \in StaffRow :
              /\ WriteBack(row, entity, columns).email = IF "email" \in columns THEN entity.email ELSE row.email
              /\ WriteBack(row, entity, columns).status = IF "status" \in columns THEN entity.status ELSE row.status
         /\ \A row \in AccountRow :
              /\ WriteBack(row, entity, columns).email = IF "email" \in columns THEN entity.email ELSE row.email
              /\ WriteBack(row, entity, columns).username = IF "username" \in columns THEN entity.username ELSE row.username
<1>1. ASSUME NEW row \in StaffRow
      PROVE  /\ WriteBack(row, entity, columns).email = IF "email" \in columns THEN entity.email ELSE row.email
             /\ WriteBack(row, entity, columns).status = IF "status" \in columns THEN entity.status ELSE row.status
  BY DEF WriteBack, StaffRow
<1>2. ASSUME NEW row \in AccountRow
      PROVE  /\ WriteBack(row, entity, columns).email = IF "email" \in columns THEN entity.email ELSE row.email
             /\ WriteBack(row, entity, columns).username = IF "username" \in columns THEN entity.username ELSE row.username
  BY DEF WriteBack, AccountRow
<1>3. QED
  BY <1>1, <1>2

LEMMA DeleteMarkTrue ==
  ASSUME CoreInv, StaffInv, NEW r \in Request, DeleteMark(r)
  PROVE  StaffInv'
<1>1. TypeOK /\ LocalsSet(r) /\ RemovalTrue(r)
  BY DEF CoreInv, StaffInv
<1>2. req[r].pc = "delete.mark" /\ UNCHANGED <<staff, users, missed>> /\ Goto(r, "delete.remove")
  BY DEF DeleteMark, At, history
<1>3. PICK s \in Staff : s = req[r].staff
  BY <1>1, <1>2 DEF LocalsSet
<1>4. /\ req[r].id \in Account /\ DOMAIN draft[r].users = {} /\ DOMAIN draft[r].staff = {}
      /\ HasAddressOf(s, req[r].entity) /\ req[r].entity.status = "unassigned"
      /\ s = req[r].id \/ ~ Alone(s)
  BY <1>1, <1>2, <1>3 DEF RemovalTrue, Removing
<1>5. PICK row \in StaffRow :
         /\ HasAddressOf(s, row) /\ WriteStaff(r, s, row) /\ StaffFree(r, s)
         /\ row.status = "assigned" => staff[s].status = "assigned"
  <2> DEFINE row == WriteBack(staff[s], req[r].entity, req[r].dirty)
  <2>1. staff[s] \in StaffRow /\ req[r].entity \in StaffRow
    BY <1>1, <1>2, <1>4 DEF TypeOK, HasAddressOf, LocalsSet
  <2>2. row \in StaffRow
    BY <2>1, WriteBackStaff
  <2>3. /\ row.email = IF "email" \in req[r].dirty THEN req[r].entity.email ELSE staff[s].email
        /\ row.status = IF "status" \in req[r].dirty THEN req[r].entity.status ELSE staff[s].status
    BY <2>1 DEF WriteBack, StaffRow
  <2>4. WriteStaff(r, s, row) /\ StaffFree(r, s)
    BY <1>3 DEF DeleteMark
  <2> HIDE DEF row
  <2>5. HasAddressOf(s, row) /\ (row.status = "assigned" => staff[s].status = "assigned")
    BY <1>4, <2>3 DEF HasAddressOf
  <2>6. QED
    BY <2>2, <2>4, <2>5
<1>6. /\ OwnRows(r) /\ DraftAddresses(r)'
      /\ \A q \in Request \ {r} : draft'[q] = draft[q]
      /\ DOMAIN draft'[r].users = {} /\ DOMAIN draft'[r].staff = {s} /\ draft'[r].staff[s] = row
  BY <1>2, <1>4, <1>5, StaffWritten
<1>7. /\ \A q \in Request \ {r} : req'[q] = req[q]
      /\ req'[r] = [req[r] EXCEPT !.pc = "delete.remove"]
  BY <1>1, <1>2, GotoFacts DEF Awaits, Removing
<1>8. req'[r].pc = "delete.remove" /\ req'[r].id = req[r].id
  BY <1>1, <1>7 DEF TypeOK, Local
<1>9. Alone(s)' => Alone(s)
  BY <1>2 DEF Alone
<1>10. TransactionTrue(r)'
  <2>1. AssignmentTrue(r)'
    BY <1>8 DEF AssignmentTrue, Saving
  <2>2. /\ s = req'[r].id \/ ~ Alone(s)'
        /\ row.status = "assigned" => staff'[s].status = "assigned"
    BY <1>2, <1>4, <1>5, <1>8, <1>9
  <2>3. RemovalTrue(r)'
    BY <1>4, <1>6, <1>8, <2>2 DEF RemovalTrue
  <2>4. QED
    BY <1>6, <2>1, <2>3 DEF TransactionTrue
<1>11. QED
  BY <1>2, <1>6, <1>7, <1>10, SameTables DEF OthersStay

\* A commit keeps the rows of staff and their addresses.
LEMMA CommittedRows ==
  ASSUME CoreInv, StaffInv, NEW r \in Request, staff' = SeenStaff(r)
  PROVE  /\ RowsStay(r)
         /\ \A s \in Staff :
              staff'[s] = IF s \in DOMAIN draft[r].staff THEN draft[r].staff[s] ELSE staff[s]
<1>1. TypeOK /\ RowsLocked /\ DraftAddresses(r)
  BY DEF CoreInv, StaffInv
<1>2. \A s \in Staff : staff'[s] = IF s \in DOMAIN draft[r].staff THEN draft[r].staff[s] ELSE staff[s]
  BY <1>1 DEF SeenStaff, Over, TypeOK
<1>3. \A q \in Request : DOMAIN draft[q].staff \subseteq Staff
  BY <1>1 DEF TypeOK, Partial
<1>4. \A s \in DOMAIN draft[r].staff : draft[r].staff[s] # None
  BY <1>1, NoneAssumption DEF TypeOK, Partial
<1>5. RowsStay(r)
  BY <1>1, <1>2, <1>3, <1>4 DEF RowsStay, RowsLocked, DraftAddresses, HasAddressOf
<1>6. QED
  BY <1>2, <1>5

\* The account goes, and its row is marked, or the account is one of the missed.
LEMMA DeleteRemoveTrue ==
  ASSUME CoreInv, StaffInv, NEW r \in Request, DeleteRemove(r)
  PROVE  StaffInv'
<1>1. TypeOK /\ RemovalTrue(r) /\ DraftAddresses(r)
  BY DEF CoreInv, StaffInv
<1>2. /\ req[r].pc = "delete.remove" /\ Return(r) /\ staff' = SeenStaff(r)
      /\ users' = [users EXCEPT ![req[r].id] = None]
      /\ missed' = IF Marked(r) THEN missed ELSE missed \cup {req[r].id}
      /\ draft' = [draft EXCEPT ![r] = NoDraft]
  BY DEF DeleteRemove, At
<1>3. /\ req[r].id \in Account
      /\ \A s \in DOMAIN draft[r].staff :
            /\ s = req[r].id \/ ~ Alone(s)
            /\ draft[r].staff[s].status = "assigned" => staff[s].status = "assigned"
  BY <1>1, <1>2 DEF RemovalTrue, Removing
<1>4. req'[r].pc = "done" /\ OthersStay(r) /\ draft'[r] = NoDraft
  BY <1>1, <1>2, ReturnFacts, RollbackFacts DEF OthersStay
<1>5. TransactionTrue(r)' /\ OwnRows(r)
  BY <1>4, OutsideTrue DEF InAssignment, Saving, Removing
<1>6. /\ RowsStay(r)
      /\ \A s \in Staff : staff'[s] = IF s \in DOMAIN draft[r].staff THEN draft[r].staff[s] ELSE staff[s]
  BY <1>2, CommittedRows
<1>7. \A a \in Account : IF a = req[r].id THEN users'[a] = None ELSE users'[a] = users[a]
  BY <1>1, <1>2 DEF TypeOK
<1>8. Staff \subseteq Account /\ Learner \subseteq Account /\ missed \subseteq missed'
  BY <1>2 DEF Account
<1>9. AddressesKept'
  <2>1. \A s \in Staff : staff[s] # None => \A row : HasAddressOf(s, row) => HasAddressOf(s, row)'
    BY <1>6, StaysFacts
  <2>2. \A s \in Staff : \A row : row = users[s] /\ row # None => HasAddressOf(s, row)'
    BY <2>1 DEF StaffInv, AddressesKept, HasAddressOf
  <2>3. \A s \in Staff : users'[s] # None => users'[s] = users[s]
    BY <1>7, <1>8
  <2>4. \A l \in Learner : users'[l] # None => users'[l] = users[l]
    BY <1>7, <1>8
  <2>5. QED
    BY <2>2, <2>3, <2>4 DEF StaffInv, AddressesKept, HasAddressOf
<1>10. AccountsAreAssigned'
  <2>1. ASSUME NEW s \in Staff, users'[s] # None, Alone(s)'
        PROVE  users[s] # None /\ users'[s] = users[s] /\ Alone(s) /\ staff'[s] = staff[s]
    <3>1. s # req[r].id /\ users'[s] = users[s]
      BY <1>7, <1>8, <2>1
    <3>2. staff[s] # None
      BY <2>1, <3>1 DEF StaffInv, AddressesKept, HasAddressOf
    <3>3. Alone(s)
      BY <1>6, <2>1, <3>2, StaysFacts
    <3>4. QED
      BY <1>3, <1>6, <2>1, <3>1, <3>3
  <2>2. QED
    BY <1>8, <2>1 DEF StaffInv, AccountsAreAssigned
<1>11. AssignedHasAccount'
  <2>1. ASSUME NEW s \in Staff, staff'[s] # None, staff'[s].status = "assigned"
        PROVE  users'[s] # None \/ s \in missed'
    <3>1. CASE s = req[r].id
      <4>1. ~ Marked(r)
        BY <1>6, <2>1, <3>1 DEF Marked
      <4>2. QED
        BY <1>2, <3>1, <4>1
    <3>2. CASE s # req[r].id
      <4>1. staff[s] # None /\ staff[s].status = "assigned"
        BY <1>1, <1>3, <1>6, <2>1 DEF DraftAddresses, HasAddressOf
      <4>2. QED
        BY <1>7, <1>8, <3>2, <4>1 DEF StaffInv, AssignedHasAccount
    <3>3. QED
      BY <3>1, <3>2
  <2>2. QED
    BY <2>1 DEF AssignedHasAccount
<1>12. QED
  BY <1>4, <1>5, <1>6, <1>8, <1>9, <1>10, <1>11, StaffStepRule

-----------------------------------------------------------------------------
(* Assignments.                                                             *)

\* What the account being saved is, at each await of the save.
SavedTrue(r) ==
    LET l == req[r]  accounts == draft[r].users IN
    /\ l.pc \in Saving => HasAddressOf(l.id, l.entity)
    /\ l.pc \in {"assign.role", "assign.account"} => "email" \notin l.dirty
    /\ l.pc = "assign.account" => l.insert \/ "username" \in l.dirty
    /\ l.pc \in {"assign.mail", "assign.mark"} =>
          \/ l.id \in missed
          \/ l.id \in DOMAIN accounts /\ accounts[l.id].username = l.entity.username

\* And what the transaction has written for the members saved before.
BatchTrue(r) ==
    LET l == req[r]  marks == draft[r].staff  accounts == draft[r].users IN
    /\ \A s \in DOMAIN marks : marks[s].status = "assigned" /\ s \in DOMAIN accounts \cup missed
    /\ \A s \in DOMAIN accounts :
          \/ l.pc \in Saving /\ s = l.id
          \/ /\ s \in DOMAIN marks
             /\ marks[s].username = accounts[s].username \/ s \in missed

LEMMA AssignmentParts ==
  ASSUME NEW r \in Request, req[r].pc \in InAssignment
  PROVE  AssignmentTrue(r) <=> SavedTrue(r) /\ BatchTrue(r)
  BY DEF AssignmentTrue, SavedTrue, BatchTrue, InAssignment

LEMMA AssignmentPartsNext ==
  ASSUME NEW r \in Request, SavedTrue(r)', BatchTrue(r)', req'[r].pc \notin Removing
  PROVE  AssignmentTrue(r)' /\ RemovalTrue(r)'
  BY DEF AssignmentTrue, RemovalTrue, SavedTrue, BatchTrue

\* A step of an assignment that writes nothing.
LEMMA AssignReadTrue ==
  ASSUME CoreInv, StaffInv, NEW r \in Request, req[r].pc \in InAssignment,
         \A q \in Request \ {r} : req'[q] = req[q], UNCHANGED <<staff, users, draft, missed>>,
         req'[r].pc \in InAssignment,
         req[r].pc \in Saving => req'[r].pc \in Saving /\ req'[r].id = req[r].id,
         SavedTrue(r)'
  PROVE  StaffInv'
<1>1. BatchTrue(r)
  BY AssignmentParts DEF StaffInv
<1>2. BatchTrue(r)'
  BY <1>1 DEF BatchTrue
<1>3. req'[r].pc \notin Removing
  BY DEF InAssignment, Saving, Removing
<1>4. QED
  BY <1>2, <1>3, AssignmentPartsNext, SameDraft

LEMMA AssignSkipTrue ==
  ASSUME CoreInv, StaffInv, NEW r \in Request, AssignSkip(r)
  PROVE  StaffInv'
<1>1. TypeOK
  BY DEF CoreInv
<1>2. /\ req[r].pc = "assign.find" /\ UNCHANGED <<staff, users, draft, missed>>
      /\ req' = [req EXCEPT ![r] = [req[r] EXCEPT !.rest = Tail(@)]]
  BY DEF AssignSkip, At, tables, history
<1>3. ASSUME NEW l \in Local PROVE [l EXCEPT !.rest = Tail(@)].pc = l.pc
  BY DEF Local
<1>4. req'[r].pc = "assign.find" /\ \A q \in Request \ {r} : req'[q] = req[q]
  BY <1>1, <1>2, <1>3 DEF TypeOK
<1>5. SavedTrue(r)'
  BY <1>4 DEF SavedTrue, Saving
<1>6. QED
  BY <1>2, <1>4, <1>5, AssignReadTrue DEF InAssignment, Saving

\* The account is made up with the address of the row.
LEMMA AssignFindTrue ==
  ASSUME CoreInv, StaffInv, NEW r \in Request, AssignFind(r)
  PROVE  StaffInv'
<1>1. TypeOK /\ DraftAddresses(r)
  BY DEF CoreInv, StaffInv
<1>2. /\ req[r].pc = "assign.find" /\ req[r].rest # <<>> /\ UNCHANGED <<staff, users, draft, missed>>
  BY DEF AssignFind, At, tables, history
<1>3. Next1(r)[1] \in Staff
  BY <1>1, <1>2, SeqFacts DEF TypeOK, Next1
<1>4. PICK s \in Staff : s = Next1(r)[1]
  BY <1>3
<1>5. PICK e : /\ e.email = SeenStaff(r)[s].email
               /\ req' = [req EXCEPT ![r] = [@ EXCEPT !.pc = "assign.reload", !.id = s, !.entity = e]]
  BY <1>4 DEF AssignFind
<1>6. SeenStaff(r)[s] # None
  BY <1>4 DEF AssignFind
<1>7. HasAddressOf(s, e)
  BY <1>1, <1>5, <1>6 DEF SeenStaff, Over, TypeOK, DraftAddresses, HasAddressOf
<1>8. ASSUME NEW l \in Local
      PROVE  LET n == [l EXCEPT !.pc = "assign.reload", !.id = s, !.entity = e]
             IN  n.pc = "assign.reload" /\ n.id = s /\ n.entity = e
  BY DEF Local
<1>9. /\ \A q \in Request \ {r} : req'[q] = req[q]
      /\ req'[r].pc = "assign.reload" /\ req'[r].id = s /\ req'[r].entity = e
  BY <1>1, <1>5, <1>8 DEF TypeOK
<1>10. HasAddressOf(s, e)'
  BY <1>2, <1>7 DEF HasAddressOf
<1>11. SavedTrue(r)'
  <2>1. HasAddressOf(req[r].id, req[r].entity)'
    BY <1>9, <1>10
  <2>2. QED
    BY <1>9, <2>1 DEF SavedTrue
<1>12. QED
  BY <1>2, <1>9, <1>11, AssignReadTrue DEF InAssignment, Saving

LEMMA SavingParts ==
  ASSUME CoreInv, StaffInv, NEW r \in Request, req[r].pc \in Saving
  PROVE  /\ req[r].id \in Staff /\ req[r].entity \in AccountRow
         /\ HasAddressOf(req[r].id, req[r].entity)
         /\ SavedTrue(r) /\ BatchTrue(r)
<1>1. req[r].id \in Staff /\ req[r].entity \in AccountRow
  BY DEF CoreInv, LocalsSet
<1>2. SavedTrue(r) /\ BatchTrue(r)
  BY AssignmentParts DEF StaffInv, InAssignment
<1>3. QED
  BY <1>1, <1>2 DEF SavedTrue

\* updateUserRole compares the role and the user name only.
LEMMA AssignReloadTrue ==
  ASSUME CoreInv, StaffInv, NEW r \in Request, AssignReload(r)
  PROVE  StaffInv'
<1>1. req[r].pc = "assign.reload" /\ UNCHANGED <<staff, users, draft, missed>>
  BY DEF AssignReload, At, tables, history
<1>2. /\ req[r].pc \in Saving /\ UNCHANGED tables
      /\ "assign.role" \in Saving \ {"assign.mail"} /\ "assign.name" \in Saving \ {"assign.account"}
  BY <1>1 DEF Saving, tables
<1>3. req[r].entity \in AccountRow /\ HasAddressOf(req[r].id, req[r].entity)
  BY <1>2, SavingParts
<1>4. Reloaded(r, req[r].entity, {"role", "username"}, "assign.role", "assign.name")
  BY DEF AssignReload
<1>5. Selected(r, req[r].entity, {"role", "username"}, "assign.role", "assign.name")
  BY <1>2, <1>3, <1>4, ReloadFacts
<1>6. /\ \A q \in Request \ {r} : req'[q] = req[q]
      /\ req'[r].id = req[r].id /\ req'[r].entity = req[r].entity
      /\ req'[r].dirty \subseteq {"role", "username"} /\ req'[r].pc \in {"assign.role", "assign.name"}
  BY <1>5 DEF Selected
<1>7. SavedTrue(r)'
  <2>1. HasAddressOf(req[r].id, req[r].entity)'
    BY <1>1, <1>3, <1>6 DEF HasAddressOf
  <2>2. QED
    BY <1>6, <2>1 DEF SavedTrue
<1>8. QED
  BY <1>1, <1>2, <1>6, <1>7, AssignReadTrue DEF InAssignment, Saving

LEMMA NameFacts ==
  ASSUME NEW name, NEW x, NEW again \in BOOLEAN, again = (name = <<x, FALSE>>)
  PROVE  name # <<x, again>>
<1>1. CASE name = <<x, FALSE>>
  <2>1. again = TRUE
    BY <1>1
  <2>2. <<x, FALSE>> # <<x, TRUE>>
    OBVIOUS
  <2>3. QED
    BY <1>1, <2>1, <2>2
<1>2. CASE name # <<x, FALSE>>
  BY <1>2
<1>3. QED
  BY <1>1, <1>2

\* createStaff always has a user name to write: the one it has made up is not
\* the one the account has.
LEMMA AssignNameTrue ==
  ASSUME CoreInv, StaffInv, NEW r \in Request, AssignName(r)
  PROVE  StaffInv'
<1> DEFINE columns == {"role", "username", "password", "changed"}
<1>1. req[r].pc = "assign.name" /\ UNCHANGED <<staff, users, draft, missed>>
  BY DEF AssignName, At, tables, history
<1>2. /\ req[r].pc \in Saving /\ UNCHANGED tables
      /\ "assign.account" \in Saving \ {"assign.mail"} /\ "assign.mail" \in Saving \ {"assign.account"}
  BY <1>1 DEF Saving, tables
<1>3. TypeOK /\ LocalsSet(r)
  BY DEF CoreInv
<1>4. /\ req[r].id \in Staff /\ req[r].entity \in AccountRow
      /\ HasAddressOf(req[r].id, req[r].entity)
  BY <1>2, SavingParts
<1>5. PICK e \in AccountRow :
         /\ e.email = req[r].entity.email /\ e.username # None /\ e.password # None
         /\ SeenUsers(r)[req[r].id] # None => SeenUsers(r)[req[r].id].username # e.username
         /\ Reloaded(r, e, columns, "assign.account", "assign.mail")
  <2> DEFINE own == SeenUsers(r)[req[r].id]
             again == (own # None /\ own.username = <<req[r].entity.role, FALSE>>)
  <2>1. \E name : /\ name \in Username
                  /\ own # None => own.username # name
                  /\ name = <<req[r].entity.role, again>>
    <3>1. again \in BOOLEAN
      OBVIOUS
    <3>2. req[r].entity.role \in Role \cup {"student"}
      BY <1>4 DEF AccountRow
    <3>3. ASSUME own # None PROVE own.username # <<req[r].entity.role, again>>
      <4>1. again = (own.username = <<req[r].entity.role, FALSE>>)
        BY <3>3
      <4> HIDE DEF again, own
      <4>2. QED
        BY <3>1, <4>1, NameFacts
    <3> HIDE DEF again
    <3>4. <<req[r].entity.role, again>> \in Username
      BY <3>1, <3>2 DEF Username
    <3>5. QED
      BY <3>3, <3>4
  <2>2. PICK name : /\ name \in Username
                    /\ own # None => own.username # name
                    /\ name = <<req[r].entity.role, again>>
    BY <2>1
  <2>3. PICK word : word = <<r, Len(req[r].rest)>>
    OBVIOUS
  <2>4. word \in Password
    <3>1. Len(req[r].rest) \in Nat
      BY <1>2, <1>3, SeqFacts DEF LocalsSet, TypeOK
    <3>2. QED
      BY <2>3, <3>1 DEF Password
  <2>5. Reloaded(r, [req[r].entity EXCEPT !.username = name, !.password = word],
                 columns, "assign.account", "assign.mail")
    BY <2>2, <2>3 DEF AssignName
  <2>6. ASSUME NEW old \in AccountRow
        PROVE  LET n == [old EXCEPT !.username = name, !.password = word]
               IN  n \in AccountRow /\ n.email = old.email /\ n.username = name /\ n.password = word
    BY <2>2, <2>4 DEF AccountRow
  <2>7. name # None /\ word # None
    BY <2>2, <2>4, NoneAssumption
  <2>8. QED
    BY <1>4, <2>2, <2>5, <2>6, <2>7
<1>6. Selected(r, e, columns, "assign.account", "assign.mail")
  BY <1>2, <1>5, ReloadFacts
<1>7. /\ \A q \in Request \ {r} : req'[q] = req[q]
      /\ req'[r].id = req[r].id /\ req'[r].entity = e /\ req'[r].dirty \subseteq columns
  BY <1>6 DEF Selected
<1>8. req'[r].pc = "assign.account" /\ (req'[r].insert \/ "username" \in req'[r].dirty)
  <2>1. CASE SeenUsers(r)[req[r].id] = None
    BY <1>6, <2>1 DEF Selected
  <2>2. CASE SeenUsers(r)[req[r].id] # None
    <3>1. PICK row \in AccountRow : row = SeenUsers(r)[req[r].id] /\ row.username # e.username
      BY <1>3, <1>4, <1>5, <2>2, SeenFacts DEF Account
    <3>2. "username" \in Dirty(e, row) \cap columns
      BY <3>1 DEF Dirty, AccountRow
    <3>3. QED
      BY <1>6, <3>1, <3>2, <2>2 DEF Selected
  <2>3. QED
    BY <2>1, <2>2
<1>9. SavedTrue(r)'
  <2>1. HasAddressOf(req[r].id, req[r].entity)'
    BY <1>1, <1>4, <1>5, <1>7 DEF HasAddressOf
  <2>2. QED
    BY <1>7, <1>8, <2>1 DEF SavedTrue
<1>10. QED
  BY <1>1, <1>2, <1>7, <1>8, <1>9, AssignReadTrue DEF InAssignment, Saving

LEMMA AssignMailTrue ==
  ASSUME CoreInv, StaffInv, NEW r \in Request, AssignMail(r)
  PROVE  StaffInv'
<1>1. /\ req[r].pc = "assign.mail" /\ UNCHANGED <<staff, users, draft, missed>>
      /\ Goto(r, "assign.mark")
  BY DEF AssignMail, At, tables
<1>2. req[r].pc \in Saving /\ "assign.mark" \in Saving
  BY <1>1 DEF Saving
<1>3. HasAddressOf(req[r].id, req[r].entity) /\ SavedTrue(r)
  BY <1>2, SavingParts
<1>4. /\ \A q \in Request \ {r} : req'[q] = req[q]
      /\ req'[r].pc = "assign.mark" /\ req'[r].id = req[r].id /\ req'[r].entity = req[r].entity
  BY <1>1, <1>2, SavingFacts
<1>5. SavedTrue(r)'
  <2>1. HasAddressOf(req[r].id, req[r].entity)'
    BY <1>1, <1>3, <1>4 DEF HasAddressOf
  <2>2. QED
    BY <1>1, <1>3, <1>4, <2>1 DEF SavedTrue
<1>6. QED
  BY <1>1, <1>2, <1>4, <1>5, AssignReadTrue DEF InAssignment

\* The second save leaves the new user name in the account's row, whether it
\* inserts it or updates it, unless the row is gone.
LEMMA FlushTrue ==
  ASSUME CoreInv, StaffInv, NEW r \in Request, req[r].pc \in DOMAIN Flushing,
         Goto(r, Flushing[req[r].pc]), UNCHANGED <<staff, users>>,
         NEW row \in AccountRow, HasAddressOf(req[r].id, row),
         req[r].pc = "assign.account" => row.username = req[r].entity.username,
         UserFree(r, req[r].id), WriteUser(r, req[r].id, row), UNCHANGED missed
  PROVE  StaffInv'
<1>1. /\ req[r].pc \in {"assign.role", "assign.account"} /\ req[r].pc \in Saving
      /\ Flushing[req[r].pc] \in Saving
      /\ Flushing[req[r].pc] = IF req[r].pc = "assign.role" THEN "assign.name" ELSE "assign.mail"
  BY DEF Flushing, Saving
<1>2. req[r].id \in Staff /\ HasAddressOf(req[r].id, req[r].entity) /\ BatchTrue(r)
  BY <1>1, SavingParts
<1>3. PICK s \in Staff : s = req[r].id
  BY <1>2
<1>4. /\ OwnRows(r) /\ DraftAddresses(r)'
      /\ \A q \in Request \ {r} : draft'[q] = draft[q]
      /\ draft'[r].staff = draft[r].staff
      /\ DOMAIN draft'[r].users = DOMAIN draft[r].users \cup {s}
      /\ draft'[r].users[s] = row
      /\ \A t \in DOMAIN draft[r].users \ {s} : draft'[r].users[t] = draft[r].users[t]
  BY <1>3, UserWritten
<1>5. /\ \A q \in Request \ {r} : req'[q] = req[q]
      /\ req'[r].pc = Flushing[req[r].pc] /\ req'[r].id = s /\ req'[r].entity = req[r].entity
  BY <1>1, <1>3, <1>4, SavingFacts
<1>6. req'[r].pc \in {"assign.name", "assign.mail"} /\ (req'[r].pc = "assign.mail" => req[r].pc = "assign.account")
  BY <1>1, <1>5
<1>7. SavedTrue(r)'
  <2>1. HasAddressOf(req[r].id, req[r].entity)'
    BY <1>2, <1>3, <1>5 DEF HasAddressOf
  <2>2. QED
    BY <1>4, <1>5, <1>6, <2>1 DEF SavedTrue
<1>8. BatchTrue(r)'
  BY <1>1, <1>2, <1>3, <1>4, <1>5 DEF BatchTrue
<1>9. TransactionTrue(r)'
  BY <1>4, <1>6, <1>7, <1>8, AssignmentPartsNext DEF TransactionTrue, Removing
<1>10. QED
  BY <1>4, <1>5, <1>9, SameTables DEF OthersStay

LEMMA AssignInsertTrue ==
  ASSUME CoreInv, StaffInv, NEW r \in Request, AssignInsert(r)
  PROVE  StaffInv'
<1>1. /\ req[r].pc \in DOMAIN Flushing /\ UNCHANGED <<staff, users, missed>>
      /\ Goto(r, Flushing[req[r].pc])
      /\ InsertFree(r, req[r].id, req[r].entity.email) /\ WriteUser(r, req[r].id, req[r].entity)
  BY DEF AssignInsert, history
<1>2. req[r].pc \in Saving
  BY <1>1 DEF Flushing, Saving
<1>3. req[r].entity \in AccountRow /\ HasAddressOf(req[r].id, req[r].entity)
  BY <1>2, SavingParts
<1>4. UserFree(r, req[r].id)
  BY <1>1 DEF InsertFree, UserFree
<1>5. QED
  BY <1>1, <1>3, <1>4, FlushTrue

LEMMA AssignUpdateTrue ==
  ASSUME CoreInv, StaffInv, NEW r \in Request, AssignUpdate(r)
  PROVE  StaffInv'
<1>1. /\ req[r].pc \in DOMAIN Flushing /\ UNCHANGED <<staff, users>> /\ ~ req[r].insert
      /\ Goto(r, Flushing[req[r].pc]) /\ UserFree(r, req[r].id)
  BY DEF AssignUpdate
<1>2. /\ req[r].pc \in {"assign.role", "assign.account"} /\ req[r].pc \in Saving
      /\ Flushing[req[r].pc] \in {"assign.name", "assign.mail"} /\ Flushing[req[r].pc] \in Saving
      /\ Flushing[req[r].pc] = "assign.mail" => req[r].pc = "assign.account"
  BY <1>1 DEF Flushing, Saving
<1>3. TypeOK /\ DraftAddresses(r) /\ AddressesKept /\ RowsLocked
  BY DEF CoreInv, StaffInv
<1>4. /\ req[r].id \in Staff /\ req[r].entity \in AccountRow
      /\ HasAddressOf(req[r].id, req[r].entity) /\ SavedTrue(r) /\ BatchTrue(r)
  BY <1>2, SavingParts
<1>5. PICK s \in Staff : s = req[r].id
  BY <1>4
<1>6. CASE SeenUsers(r)[s] = None
  <2>1. missed' = missed \cup {s} /\ UNCHANGED draft
    BY <1>5, <1>6 DEF AssignUpdate
  <2>2. /\ \A q \in Request \ {r} : req'[q] = req[q]
        /\ req'[r].pc = Flushing[req[r].pc] /\ req'[r].id = s /\ req'[r].entity = req[r].entity
    BY <1>1, <1>2, <1>5, <2>1, SavingFacts
  <2>3. SavedTrue(r)'
    <3>1. HasAddressOf(req[r].id, req[r].entity)'
      BY <1>1, <1>4, <1>5, <2>2 DEF HasAddressOf
    <3>2. QED
      BY <1>2, <2>1, <2>2, <3>1 DEF SavedTrue
  <2>4. BatchTrue(r)'
    BY <1>2, <1>4, <1>5, <2>1, <2>2 DEF BatchTrue
  <2>5. DraftAddresses(r)'
    BY <1>1, <1>3, <2>1 DEF DraftAddresses, HasAddressOf
  <2>6. OwnRows(r) /\ OthersStay(r)
    BY <1>3, <2>1, <2>2 DEF OwnRows, RowsLocked, OthersStay
  <2>7. TransactionTrue(r)'
    BY <1>2, <2>2, <2>3, <2>4, <2>5, AssignmentPartsNext DEF TransactionTrue, Removing
  <2>8. QED
    BY <1>1, <2>1, <2>6, <2>7, SameTables
<1>7. CASE SeenUsers(r)[s] # None
  <2>1. PICK old \in AccountRow : old = SeenUsers(r)[s]
    BY <1>3, <1>7, SeenFacts DEF Account
  <2>2. HasAddressOf(s, old)
    <3>1. old = IF s \in DOMAIN draft[r].users THEN draft[r].users[s] ELSE users[s]
      BY <1>3, <2>1, SeenFacts DEF Account
    <3>2. QED
      BY <1>3, <1>7, <2>1, <3>1 DEF DraftAddresses, AddressesKept, HasAddressOf
  <2>3. WriteUser(r, s, WriteBack(old, req[r].entity, req[r].dirty)) /\ UNCHANGED missed
    BY <1>5, <1>7, <2>1 DEF AssignUpdate
  <2>4. "email" \notin req[r].dirty /\ (req[r].pc = "assign.account" => "username" \in req[r].dirty)
    BY <1>1, <1>2, <1>4 DEF SavedTrue
  <2>5. PICK row \in AccountRow :
           /\ row.email = old.email
           /\ req[r].pc = "assign.account" => row.username = req[r].entity.username
           /\ WriteUser(r, s, row)
    <3> DEFINE row == WriteBack(old, req[r].entity, req[r].dirty)
    <3>1. row \in AccountRow
      BY <1>4, WriteBackAccount
    <3>2. row.email = old.email /\ (req[r].pc = "assign.account" => row.username = req[r].entity.username)
      BY <2>4 DEF WriteBack, AccountRow
    <3>3. QED
      BY <2>3, <3>1, <3>2
  <2>6. HasAddressOf(s, row)
    BY <2>2, <2>5 DEF HasAddressOf
  <2>7. QED
    BY <1>1, <1>5, <2>3, <2>5, <2>6, FlushTrue
<1>8. QED
  BY <1>6, <1>7

\* The staff row gets the user name the account has.
LEMMA AssignMarkTrue ==
  ASSUME CoreInv, StaffInv, NEW r \in Request, AssignMark(r)
  PROVE  StaffInv'
<1>1. TypeOK /\ DraftAddresses(r) /\ LocalsSet(r)
  BY DEF CoreInv, StaffInv
<1>2. req[r].pc = "assign.mark" /\ UNCHANGED <<staff, users, missed>> /\ req[r].pc \in Saving
  BY DEF AssignMark, At, history, Saving
<1>3. /\ req[r].id \in Staff /\ req[r].entity \in AccountRow
      /\ HasAddressOf(req[r].id, req[r].entity) /\ SavedTrue(r) /\ BatchTrue(r)
  BY <1>2, SavingParts
<1>4. PICK s \in Staff : s = req[r].id
  BY <1>3
<1>5. PICK row \in StaffRow :
         /\ HasAddressOf(s, row) /\ row.status = "assigned" /\ row.username = req[r].entity.username
         /\ WriteStaff(r, s, row) /\ StaffFree(r, s)
  <2>1. PICK old \in StaffRow : old = SeenStaff(r)[s]
    BY <1>1, <1>3, <1>4, SeenFacts DEF HasAddressOf
  <2>2. HasAddressOf(s, old)
    BY <1>1, <1>3, <1>4, <2>1 DEF SeenStaff, Over, TypeOK, DraftAddresses, HasAddressOf
  <2>3. req[r].entity.username \in Username \cup {None}
    BY <1>3 DEF AccountRow
  <2>4. ASSUME NEW name \in Username \cup {None}
        PROVE  LET n == [old EXCEPT !.status = "assigned", !.username = name]
               IN  n \in StaffRow /\ n.email = old.email /\ n.status = "assigned" /\ n.username = name
    BY DEF StaffRow
  <2>5. /\ WriteStaff(r, s, [old EXCEPT !.status = "assigned", !.username = req[r].entity.username])
        /\ StaffFree(r, s)
    BY <1>4, <2>1 DEF AssignMark
  <2>6. QED
    BY <2>2, <2>3, <2>4, <2>5 DEF HasAddressOf
<1>6. /\ OwnRows(r) /\ DraftAddresses(r)'
      /\ \A q \in Request \ {r} : draft'[q] = draft[q]
      /\ draft'[r].users = draft[r].users
      /\ DOMAIN draft'[r].staff = DOMAIN draft[r].staff \cup {s}
      /\ draft'[r].staff[s] = row
      /\ \A t \in DOMAIN draft[r].staff \ {s} : draft'[r].staff[t] = draft[r].staff[t]
  BY <1>2, <1>5, StaffWritten
<1>7. req'[r].pc = "assign.find" /\ \A q \in Request \ {r} : req'[q] = req[q]
  <2>1. ASSUME NEW l \in Local, NEW rest
        PROVE  [l EXCEPT !.call = "assignRoles", !.pc = "assign.find", !.rest = rest].pc = "assign.find"
    BY DEF Local
  <2>2. req' = [req EXCEPT ![r] = [Fresh EXCEPT !.call = "assignRoles", !.pc = "assign.find",
                                                !.rest = Tail(req[r].rest)]]
    BY DEF AssignMark
  <2>3. QED
    BY <1>1, <2>1, <2>2, FreshFacts DEF TypeOK
<1>8. SavedTrue(r)'
  BY <1>7 DEF SavedTrue, Saving
<1>9. BatchTrue(r)'
  <2>1. s \in missed \/ (s \in DOMAIN draft[r].users /\ draft[r].users[s].username = row.username)
    BY <1>2, <1>3, <1>4, <1>5 DEF SavedTrue
  <2>2. \A t \in DOMAIN draft'[r].staff :
           /\ draft'[r].staff[t].status = "assigned"
           /\ t \in DOMAIN draft[r].users \cup missed
    BY <1>3, <1>5, <1>6, <2>1 DEF BatchTrue
  <2>3. \A t \in DOMAIN draft[r].users :
           /\ t \in DOMAIN draft'[r].staff
           /\ draft'[r].staff[t].username = draft[r].users[t].username \/ t \in missed
    BY <1>3, <1>4, <1>6, <2>1 DEF BatchTrue
  <2>4. QED
    BY <1>2, <1>6, <2>2, <2>3 DEF BatchTrue
<1>10. TransactionTrue(r)'
  BY <1>6, <1>7, <1>8, <1>9, AssignmentPartsNext DEF TransactionTrue, Removing
<1>11. QED
  BY <1>2, <1>6, <1>7, <1>10, SameTables DEF OthersStay

\* The commit shows both rows of every member of the batch at once.
LEMMA AssignCommitTrue ==
  ASSUME CoreInv, StaffInv, NEW r \in Request, AssignCommit(r)
  PROVE  StaffInv'
<1>1. TypeOK /\ DraftAddresses(r) /\ AddressesKept
  BY DEF CoreInv, StaffInv
<1>2. /\ req[r].pc = "assign.find" /\ Return(r) /\ UNCHANGED missed
      /\ staff' = SeenStaff(r) /\ users' = SeenUsers(r) /\ draft' = [draft EXCEPT ![r] = NoDraft]
  BY DEF AssignCommit, At, Commit, history
<1>3. BatchTrue(r)
  BY <1>2, AssignmentParts DEF StaffInv, InAssignment
<1>4. \A s \in DOMAIN draft[r].staff :
         draft[r].staff[s].status = "assigned" /\ s \in DOMAIN draft[r].users \cup missed
  BY <1>3 DEF BatchTrue
<1>5. \A s \in DOMAIN draft[r].users :
         /\ s \in DOMAIN draft[r].staff
         /\ draft[r].staff[s].username = draft[r].users[s].username \/ s \in missed
  BY <1>2, <1>3 DEF BatchTrue, Saving
<1>6. req'[r].pc = "done" /\ OthersStay(r) /\ draft'[r] = NoDraft
  BY <1>1, <1>2, ReturnFacts, RollbackFacts DEF OthersStay
<1>7. TransactionTrue(r)' /\ OwnRows(r)
  BY <1>6, OutsideTrue DEF InAssignment, Saving, Removing
<1>8. /\ RowsStay(r)
      /\ \A s \in Staff : staff'[s] = IF s \in DOMAIN draft[r].staff THEN draft[r].staff[s] ELSE staff[s]
  BY <1>2, CommittedRows
<1>9. /\ \A a \in Account : users'[a] = IF a \in DOMAIN draft[r].users THEN draft[r].users[a] ELSE users[a]
      /\ \A a \in DOMAIN draft[r].users : draft[r].users[a] # None
  BY <1>1, <1>2, SeenFacts, NoneAssumption
<1>10. Staff \subseteq Account /\ Learner \subseteq Account
  BY DEF Account
<1>11. \A s \in Staff : users'[s] # None => staff[s] # None /\ users'[s].email = staff[s].email
  BY <1>1, <1>9, <1>10 DEF DraftAddresses, AddressesKept, HasAddressOf
<1>12. AddressesKept'
  <2>1. \A s \in Staff : users'[s] # None => HasAddressOf(s, users[s])'
    BY <1>8, <1>11 DEF HasAddressOf, RowsStay
  <2>2. \A l \in Learner \ Staff : users'[l] = users[l]
    BY <1>1, <1>9, <1>10 DEF DraftAddresses
  <2>3. QED
    BY <1>1, <2>1, <2>2 DEF AddressesKept
<1>13. AccountsAreAssigned'
  <2>1. ASSUME NEW s \in Staff, users'[s] # None, Alone(s)'
        PROVE  /\ staff'[s] # None /\ staff'[s].status = "assigned"
               /\ staff'[s].email = users'[s].email
               /\ staff'[s].username = users'[s].username \/ s \in missed'
    <3>1. staff[s] # None /\ staff'[s] # None /\ staff'[s].email = users'[s].email
      BY <1>8, <1>11, <2>1 DEF RowsStay
    <3>2. CASE s \in DOMAIN draft[r].users
      BY <1>2, <1>4, <1>5, <1>8, <1>9, <1>10, <3>1, <3>2
    <3>3. CASE s \notin DOMAIN draft[r].users
      <4>1. users'[s] = users[s]
        BY <1>9, <1>10, <3>3
      <4>2. Alone(s)
        BY <1>8, <2>1, <3>1, StaysFacts
      <4>3. staff[s].status = "assigned" /\ (staff[s].username = users[s].username \/ s \in missed)
        BY <2>1, <4>1, <4>2 DEF StaffInv, AccountsAreAssigned
      <4>4. QED
        BY <1>2, <1>4, <1>8, <3>1, <3>3, <4>1, <4>3
    <3>4. QED
      BY <3>2, <3>3
  <2>2. QED
    BY <2>1 DEF AccountsAreAssigned
<1>14. AssignedHasAccount'
  <2>1. ASSUME NEW s \in Staff, staff'[s] # None, staff'[s].status = "assigned"
        PROVE  users'[s] # None \/ s \in missed'
    <3>1. CASE s \in DOMAIN draft[r].staff
      <4>1. s \in missed \/ s \in DOMAIN draft[r].users
        BY <1>4, <3>1
      <4>2. QED
        BY <1>2, <1>9, <1>10, <4>1
    <3>2. CASE s \notin DOMAIN draft[r].staff
      <4>1. users[s] # None \/ s \in missed
        BY <1>8, <2>1, <3>2 DEF StaffInv, AssignedHasAccount
      <4>2. QED
        BY <1>2, <1>9, <1>10, <4>1
    <3>3. QED
      BY <3>1, <3>2
  <2>2. QED
    BY <2>1 DEF AssignedHasAccount
<1>15. QED
  BY <1>2, <1>6, <1>7, <1>8, <1>12, <1>13, <1>14, StaffStepRule

LEMMA StaffStepTrue ==
  ASSUME CoreInv, StaffInv, NEW r \in Request, StaffStep(r)
  PROVE  StaffInv'
<1>1. CASE AssignConflict(r)
  BY <1>1, ReturnTrue DEF AssignConflict, history
<1>2. QED
  BY <1>1, AssignSkipTrue, AssignFindTrue, AssignReloadTrue, AssignNameTrue, AssignInsertTrue,
     AssignUpdateTrue, AssignMailTrue, AssignMarkTrue, AssignCommitTrue, DeleteFindStaffTrue,
     DeleteReloadTrue, DeleteMarkTrue, DeleteRemoveTrue DEF StaffStep

-----------------------------------------------------------------------------
(* Every state.                                                             *)

\* Initially both rows of a member of staff agree, or there is no account.
LEMMA InitStaff == Init => StaffInv
<1> SUFFICES ASSUME Init PROVE StaffInv
  OBVIOUS
<1>1. /\ staff \in [Staff -> Entered] /\ Matching(users) /\ missed = {}
      /\ draft = [r \in Request |-> NoDraft] /\ req = [r \in Request |-> Fresh]
  BY DEF Init
<1>2. \A r \in Request : draft[r] = NoDraft /\ req[r].pc = "idle"
  BY <1>1 DEF Fresh
<1>3. \A r \in Request : DraftAddresses(r) /\ AssignmentTrue(r) /\ RemovalTrue(r)
  BY <1>2, NoDraftFacts DEF DraftAddresses, AssignmentTrue, RemovalTrue, Saving, Removing
<1>4. RowsLocked
  BY <1>2, NoDraftFacts DEF RowsLocked
<1>5. \A s \in Staff : IF staff[s] = None \/ staff[s].status = "unassigned" THEN users[s] = None
                       ELSE HasEmail(users[s], staff[s].email) /\ users[s].username = staff[s].username
  BY <1>1 DEF Matching
<1>6. \A s \in Staff : staff[s] # None => staff[s].status \in {"assigned", "unassigned"}
  <2>1. ASSUME NEW row \in Entered, row # None PROVE row.status \in {"assigned", "unassigned"}
    <3>1. CASE \E e \in Email : row = NewStaff(e)
      BY <3>1 DEF NewStaff
    <3>2. CASE row \in [email : Email, status : {"assigned"}, username : {<<x, FALSE>> : x \in Role}]
      BY <3>2
    <3>3. QED
      BY <2>1, <3>1, <3>2 DEF Entered
  <2>2. QED
    BY <1>1, <2>1
<1>7. AddressesKept /\ AccountsAreAssigned /\ AssignedHasAccount
  BY <1>1, <1>5, <1>6 DEF Matching, AddressesKept, HasAddressOf, HasEmail,
                          AccountsAreAssigned, AssignedHasAccount
<1>8. QED
  BY <1>3, <1>4, <1>7 DEF StaffInv

LEMMA StaffNext == CoreInv /\ StaffInv /\ [Next]_vars => StaffInv'
<1> SUFFICES ASSUME CoreInv, StaffInv, [Next]_vars PROVE StaffInv'
  OBVIOUS
<1>1. CASE UNCHANGED <<staff, users, draft, req, missed>>
  BY <1>1 DEF StaffInv, AddressesKept, HasAddressOf, RowsLocked, DraftAddresses, AssignmentTrue,
              RemovalTrue, AccountsAreAssigned, AssignedHasAccount, Alone
<1>2. ASSUME NEW r \in Request, ClientCall(r) PROVE StaffInv'
  BY <1>2, CreateStaffTrue, AssignRolesTrue, DeleteUserTrue, CredentialsCallTrue
     DEF ClientCall, StaffCall
<1>3. ASSUME NEW r \in Request, HandlerStep(r) PROVE StaffInv'
  <2>1. CASE DeadlockDetected(r)
    BY <2>1, ReturnTrue DEF DeadlockDetected, history
  <2>2. QED
    BY <1>3, <2>1, StaffStepTrue, CredentialsStepTrue DEF HandlerStep
<1>4. ASSUME NEW r \in Request, Fail(r) PROVE StaffInv'
  BY <1>4, ReturnTrue DEF Fail, history
<1>5. CASE Expire
  BY <1>1, <1>5 DEF Expire, tables, history
<1>6. CASE UNCHANGED vars
  BY <1>1, <1>6 DEF vars
<1>7. QED
  BY <1>2, <1>3, <1>4, <1>5, <1>6 DEF Next

\* The rows, drafts and locals of staff management and sign-in are at every
\* await of every handler what the next one needs, and the two rows of a
\* member of staff agree.
THEOREM AccessInvariant == Spec => []AccessInv
<1>1. CoreInv /\ CoreInv' /\ StaffInv /\ [Next]_vars => StaffInv'
  BY StaffNext
<1>2. CoreInv /\ StaffInv => AccessInv
  BY DEF AccessInv
<1>3. QED
  BY <1>1, <1>2, InitStaff, CoreInvariant, PTL DEF Spec

\* Whatever assignRoles, deleteUser and createStaff do at the same time, an
\* account of staff is one its row shows as assigned, with the user name the
\* row has, or the assignment missed a removal.
THEOREM AccountsStayAssigned == Spec => []AccountsAreAssigned
<1>1. AccessInv => AccountsAreAssigned
  BY DEF AccessInv, StaffInv
<1>2. QED
  BY <1>1, AccessInvariant, PTL

\* Nobody shown as assigned is without an account, but for the removals that
\* did not mark the row and the assignments that missed a removal.
THEOREM AssignedKeepAccounts == Spec => []AssignedHasAccount
<1>1. AccessInv => AssignedHasAccount
  BY DEF AccessInv, StaffInv
<1>2. QED
  BY <1>1, AccessInvariant, PTL

=============================================================================
