---------------------------- MODULE AccountsProofs ----------------------------
(***************************************************************************)
(* A learner who was mailed has an account, and a students row carries the *)
(* e-mail of its account, for any number of learners, accounts and sends   *)
(* at once.  AccountsInv is inductive beside CoreInv: the users row a send *)
(* has created is its own until it has written the students row, and a     *)
(* save that writes one of the two columns that must agree writes both.    *)
(* Where no handler saves whole rows and no account is removed, the rows   *)
(* of a learner also say the same about the application: DecisionsInv.     *)
(***************************************************************************)
EXTENDS FormsProofs

-----------------------------------------------------------------------------
(* What has to be shown of a step of r. *)

\* No account that was handed out changes its e-mail: it can only go.
UsersOnlyGo == \A u \in issued : users'[u] \in {None, users[u]}

\* A students row has the account it had, or that of the send that moves.
RowsOfOwn(r) ==
    \A l \in Learner : student'[l] # None =>
       \/ student[l] # None /\ student'[l].user = student[l].user
       \/ Writes(req[r]) /\ student'[l].user = req[r].user

AccountsStay == \A l \in Learner : HasAccount(l) => HasAccount(l)'

LEMMA OthersAccounts ==
  ASSUME CoreInv, AccountsInv, NEW r \in Request, OthersStay(r),
         issued \subseteq issued', UsersOnlyGo, RowsOfOwn(r), AccountsStay
  PROVE  \A o \in Request \ {r} : OwnAccount(req[o])' /\ UpdatesBoth(req[o])'
<1>. SUFFICES ASSUME NEW o \in Request \ {r}
              PROVE  OwnAccount(req[o])' /\ UpdatesBoth(req[o])'
  OBVIOUS
<1>1. /\ req'[o] = req[o] /\ OwnAccount(req[o]) /\ UpdatesBoth(req[o])
      /\ Writes(req[o]) /\ Writes(req[r]) => req[o].user # req[r].user
  BY DEF OthersStay, AccountsInv, SendsTrue
<1>2. /\ Writes(req[o]) => req[o].user \in UserId
      /\ Writes(req[o]) \/ req[o].pc = "send.mail" => req[o].learner \in Learner
  BY DEF Writes, CoreInv, RecordsInv, RequestsTrue, LocalsSet, Awaits
<1>3. OwnAccount(req[o])'
  <2>1. SUFFICES ASSUME Writes(req[o])
                 PROVE  /\ req[o].user \in issued'
                        /\ users'[req[o].user] \in {None, req[o].entity.email}
                        /\ \A l \in Learner : student'[l] # None => student'[l].user # req[o].user
    BY <1>1 DEF OwnAccount, Writes
  <2>2. /\ req[o].user \in issued /\ users[req[o].user] \in {None, req[o].entity.email}
        /\ \A l \in Learner : student[l] # None => student[l].user # req[o].user
    BY <1>1, <2>1 DEF OwnAccount
  <2>3. QED
    BY <1>1, <2>1, <2>2 DEF UsersOnlyGo, RowsOfOwn
<1>4. UpdatesBoth(req[o])'
  <2>1. ASSUME req[o].pc = "send.flush", ~ req[o].insert
        PROVE  /\ HasAccount(req[o].learner)' /\ "user" \in req[o].dirty
               /\ "email" \in req[o].dirty \/ users'[req[o].user] = None
    BY <1>1, <1>2, <2>1 DEF UpdatesBoth, OwnAccount, Writes, AccountsStay, UsersOnlyGo
  <2>2. ASSUME req[o].pc = "send.mail"
        PROVE  HasAccount(req[o].learner)'
    BY <1>1, <1>2, <2>2 DEF UpdatesBoth, AccountsStay
  <2>3. QED
    BY <1>1, <2>1, <2>2 DEF UpdatesBoth, HasAccount
<1>5. QED
  BY <1>3, <1>4

\* The account r writes is the one it had, or new.
NewAccount(r) ==
    Writes(req'[r]) => \/ Writes(req[r]) /\ req'[r].user = req[r].user
                       \/ req'[r].user \notin issued

LEMMA AccountsConcluded ==
  ASSUME CoreInv, AccountsInv, NEW r \in Request, OthersStay(r), NewAccount(r),
         issued \subseteq issued', UsersOnlyGo, RowsOfOwn(r), AccountsStay,
         OwnAccount(req[r])', UpdatesBoth(req[r])',
         StudentMatchesAccount', UsersTrue'
  PROVE  AccountsInv'
<1>1. \A o \in Request : OwnAccount(req[o])' /\ UpdatesBoth(req[o])'
  BY OthersAccounts
<1>2. ASSUME NEW p \in Request, NEW o \in Request, p # o, Writes(req'[p]), Writes(req'[o])
      PROVE  req'[p].user # req'[o].user
  <2>1. \A q \in Request : Writes(req[q]) => req[q].user \in issued
    BY DEF AccountsInv, SendsTrue, OwnAccount
  <2>2. Writes(req[p]) /\ Writes(req[o]) => req[p].user # req[o].user
    BY <1>2 DEF AccountsInv, SendsTrue
  <2>3. \A q \in Request \ {r} : req'[q] = req[q]
    BY DEF OthersStay
  <2>4. QED
    BY <1>2, <2>1, <2>2, <2>3 DEF NewAccount
<1>3. SendsTrue'
  BY <1>1, <1>2 DEF SendsTrue, Writes
<1>4. QED
  BY <1>3 DEF AccountsInv

-----------------------------------------------------------------------------
(* Steps that leave the accounts alone. *)

\* The students rows keep the account and the e-mail.
StudentsSame ==
    \A l \in Learner :
       /\ student'[l] = None <=> student[l] = None
       /\ student[l] # None => /\ student'[l].user = student[l].user
                               /\ student'[l].email = student[l].email

\* The past grows, and only those with an account have been mailed.
MailedFew ==
    \A l \in Learner :
       /\ past[l] \subseteq past'[l]
       /\ "mailed" \in past'[l] => "mailed" \in past[l] \/ HasAccount(l)

LEMMA AccountsQuiet ==
  ASSUME CoreInv, AccountsInv, NEW r \in Request, OthersStay(r), NewAccount(r),
         UNCHANGED <<users, issued>>, StudentsSame, MailedFew,
         OwnAccount(req[r])', UpdatesBoth(req[r])'
  PROVE  AccountsInv'
<1>1. UsersOnlyGo
  BY DEF UsersOnlyGo
<1>2. RowsOfOwn(r)
  BY DEF RowsOfOwn, StudentsSame
<1>3. AccountsStay
  BY DEF AccountsStay, HasAccount, StudentsSame, MailedFew
<1>4. StudentMatchesAccount'
  BY DEF AccountsInv, StudentMatchesAccount, StudentsSame
<1>5. \A l \in Learner : "mailed" \in past'[l] => HasAccount(l)'
  BY <1>3 DEF AccountsInv, UsersTrue, MailedFew, AccountsStay
<1>6. UsersTrue'
  BY <1>5 DEF AccountsInv, UsersTrue, HasAccount
<1>7. QED
  BY <1>1, <1>2, <1>3, <1>4, <1>6, AccountsConcluded

\* The step is not of a send, or ends it.
LEMMA AccountsApart ==
  ASSUME CoreInv, AccountsInv, NEW r \in Request, OthersStay(r),
         UNCHANGED <<users, issued>>, StudentsSame, MailedFew,
         req'[r].pc \notin {"send.student", "send.flush", "send.mail"}
  PROVE  AccountsInv'
<1>1. OwnAccount(req[r])' /\ UpdatesBoth(req[r])' /\ NewAccount(r)
  BY DEF OwnAccount, UpdatesBoth, NewAccount, Writes
<1>2. QED
  BY <1>1, AccountsQuiet

LEMMA NobodyMailed ==
  ASSUME CoreInv
  PROVE  /\ past' = past => MailedFew
         /\ \A l \in Learner : \A m \in Milestones \ {"mailed"} : Reach(l, m) => MailedFew
  BY DEF CoreInv, RecordsInv, TypeOK, MailedFew, Reach

LEMMA OverPc ==
  ASSUME CoreInv, NEW r \in Request, Return(r)
  PROVE  OthersStay(r) /\ req'[r].pc = "done"
  BY OverHeld DEF CoreInv, RecordsInv, TypeOK, Return, Done, Holding

\* The handler returns or throws, having written no account.
LEMMA AccountsReturn ==
  ASSUME CoreInv, AccountsInv, NEW r \in Request, Return(r),
         UNCHANGED <<users, issued>>, StudentsSame, MailedFew
  PROVE  AccountsInv'
  BY OverPc, AccountsApart

\* The handler goes on, having written no account.
LEMMA AccountsGoesOn ==
  ASSUME CoreInv, AccountsInv, NEW r \in Request, NEW q, req' = [req EXCEPT ![r] = q],
         q.pc \notin {"send.student", "send.flush", "send.mail"},
         UNCHANGED <<users, issued, student>>, MailedFew
  PROVE  AccountsInv'
<1>1. req'[r] = q /\ OthersStay(r) /\ StudentsSame
  BY UpdatesOne DEF CoreInv, RecordsInv, TypeOK, StudentsSame
<1>2. QED
  BY <1>1, AccountsApart

-----------------------------------------------------------------------------
(* Calls, and the steps of the other handlers. *)

LEMMA HoldingAccounts ==
  ASSUME CoreInv, AccountsInv, NEW r \in Request,
         NEW pc \in {"create.insert", "delete", "meeting.mail", "save", "send.email"},
         NEW l, NEW e, req' = [req EXCEPT ![r] = Holding(pc, l, e)],
         UNCHANGED <<users, issued, student>>, MailedFew
  PROVE  AccountsInv'
<1>. DEFINE q == Holding(pc, l, e)
<1>1. req' = [req EXCEPT ![r] = q] /\ q.pc = pc
  BY DEF Holding
<1>. HIDE DEF q
<1>2. QED
  BY <1>1, AccountsGoesOn

LEMMA CallAccounts ==
  ASSUME CoreInv, AccountsInv, NEW r \in Request,
         RecordCall(r) \/ FormCall(r) \/ DecideCall(r) \/ \E l \in Learner : SendLearnerMail(r, l)
  PROVE  AccountsInv'
<1>1. CASE RecordCall(r)
  <2>1. /\ \E l, e : \E pc \in {"create.insert", "delete", "meeting.mail", "save"} :
              req' = [req EXCEPT ![r] = Holding(pc, l, e)]
        /\ UNCHANGED <<users, issued, student>>
    BY <1>1 DEF RecordCall, CreateLearner, EditInformation, DeleteStudent, SendMeetingLink,
       UpdateAttendanceStatus, ApproveLazer, ApproveCertificate, ArchiveStudent,
       UnarchiveStudent, LoadAndSave, tables
  <2>2. past' = past \/ \E l \in Learner : Reach(l, "present")
    BY <1>1 DEF RecordCall, CreateLearner, EditInformation, DeleteStudent, SendMeetingLink,
       UpdateAttendanceStatus, ApproveLazer, ApproveCertificate, ArchiveStudent,
       UnarchiveStudent, history
  <2>3. MailedFew
    BY <2>2, NobodyMailed DEF Milestones
  <2>4. QED
    BY <2>1, <2>3, HoldingAccounts
<1>2. CASE FormCall(r)
  <2>1. UNCHANGED <<users, issued, student, past>> /\ OthersStay(r)
    BY <1>2 DEF FormCall, CreateSubmission, SubmitForm, UpdateDraft, ReviewSubmission,
       SaveForms, tables, history, OthersStay, CoreInv, RecordsInv, TypeOK
  <2>2. req'[r].pc \in {"form.insert", "form.save"}
    <3>1. ASSUME NEW l \in Learner, CreateSubmission(r, l)
          PROVE  req'[r].pc = "form.insert"
      BY <3>1 DEF CreateSubmission, Holding, CoreInv, RecordsInv, TypeOK
    <3>2. ASSUME NEW l, NEW entities, SaveForms(r, l, entities)
          PROVE  req'[r].pc = "form.save"
      BY <3>2 DEF SaveForms, Holding, CoreInv, RecordsInv, TypeOK
    <3>3. QED
      BY <1>2, <3>1, <3>2 DEF FormCall, SubmitForm, UpdateDraft, ReviewSubmission
  <2>3. StudentsSame /\ MailedFew
    BY <2>1, NobodyMailed DEF StudentsSame
  <2>4. QED
    BY <2>1, <2>2, <2>3, AccountsApart
<1>3. CASE DecideCall(r)
  <2>1. PICK l \in Learner, verdict \in {"Approved", "Rejected"} : Decide(r, l, verdict)
    BY <1>3 DEF DecideCall, ApproveApplication, RejectApplication
  <2>. DEFINE q == [Holding("decide.student", l, learner[l]) EXCEPT !.verdict = verdict]
  <2>2. /\ req' = [req EXCEPT ![r] = q] /\ q.pc = "decide.student"
        /\ UNCHANGED <<users, issued, student, past>>
    BY <2>1 DEF Decide, Holding, tables, history
  <2>. HIDE DEF q
  <2>3. QED
    BY <2>2, NobodyMailed, AccountsGoesOn
<1>4. CASE \E l \in Learner : SendLearnerMail(r, l)
  <2>1. PICK l \in Learner : SendLearnerMail(r, l)
    BY <1>4
  <2>2. /\ \E e : req' = [req EXCEPT ![r] = Holding("send.email", l, e)]
        /\ UNCHANGED <<users, issued, student, past>>
    BY <2>1 DEF SendLearnerMail, tables, history
  <2>3. MailedFew
    BY <2>2, NobodyMailed
  <2>4. QED
    BY <2>2, <2>3, HoldingAccounts
<1>5. QED
  BY <1>1, <1>2, <1>3, <1>4

LEMMA RecordAccounts ==
  ASSUME CoreInv, AccountsInv, NEW r \in Request, RecordStep(r)
  PROVE  AccountsInv'
<1>1. RecordsInv /\ req[r] \in RequestState
  BY DEF CoreInv, RecordsInv, TypeOK
<1>2. UNCHANGED <<users, issued, student>> /\ StudentsSame
  BY DEF RecordStep, InsertLearner, DeleteLearnerRow, DeleteRefused, MeetingMail,
     Reload, FlushInsert, FlushUpdate, tables, StudentsSame
<1>3. MailedFew
  <2>1. \/ past' = past
        \/ \E l \in Learner : Reach(l, "created")
        \/ MeetingMail(r)
    BY DEF RecordStep, InsertLearner, DeleteLearnerRow, DeleteRefused, Reload,
       FlushInsert, FlushUpdate, history
  <2>2. MeetingMail(r) => \E l \in Learner : Reach(l, "linked")
    BY <1>1, Mine DEF MeetingMail, At, RequestTrue, LocalsSet, Awaits
  <2>3. QED
    BY <2>1, <2>2, NobodyMailed DEF Milestones
<1>4. OthersStay(r) /\ req'[r].pc \in {"done", "save", "flush"}
  <2>1. CASE Return(r)
    BY <2>1, OverPc
  <2>2. CASE MeetingMail(r)
    BY <1>1, <2>2 DEF MeetingMail, RequestState, RecordsInv, TypeOK, OthersStay
  <2>3. CASE Reload(r)
    BY <1>1, <2>3 DEF Reload, RequestState, RecordsInv, TypeOK, OthersStay
  <2>4. QED
    BY <2>1, <2>2, <2>3 DEF RecordStep, InsertLearner, DeleteLearnerRow, DeleteRefused,
       FlushInsert, FlushUpdate
<1>5. QED
  BY <1>2, <1>3, <1>4, AccountsApart

LEMMA FormAccounts ==
  ASSUME CoreInv, AccountsInv, NEW r \in Request, FormStep(r)
  PROVE  AccountsInv'
<1>1. RecordsInv /\ req[r] \in RequestState
  BY DEF CoreInv, RecordsInv, TypeOK
<1>2. UNCHANGED <<users, issued, student, past>>
  BY DEF FormStep, InsertSubmission, InsertRefused, ReloadForm, FlushForm, SaveFormFails,
     tables, history
<1>3. StudentsSame /\ MailedFew
  BY <1>2, NobodyMailed DEF StudentsSame
<1>4. OthersStay(r) /\ req'[r].pc \in {"done", "form.save"}
  <2>1. CASE Return(r)
    BY <2>1, OverPc
  <2>2. ASSUME NEW s \in Submission, ReloadForm(r, s)
        PROVE  OthersStay(r) /\ req'[r].pc = "form.save"
    BY <1>1, <2>2 DEF ReloadForm, At, RequestState, RecordsInv, TypeOK, OthersStay
  <2>3. ASSUME NEW s \in Submission, SaveOver(r, s), At(r, "form.save")
        PROVE  OthersStay(r) /\ req'[r].pc \in {"done", "form.save"}
    <3>1. CASE req' = [req EXCEPT ![r] = [@ EXCEPT !.formPhase[s] = "none", !.formDirty[s] = {},
                                                   !.forms[s] = None]]
      BY <1>1, <2>3, <3>1 DEF At, RequestState, RecordsInv, TypeOK, OthersStay
    <3>2. QED
      BY <2>1, <2>3, <3>1 DEF SaveOver
  <2>4. QED
    BY <2>1, <2>2, <2>3 DEF FormStep, InsertSubmission, InsertRefused, FlushForm, SaveFormFails
<1>5. QED
  BY <1>2, <1>3, <1>4, AccountsApart

LEMMA DecideAccounts ==
  ASSUME CoreInv, AccountsInv, NEW r \in Request, DecideStep(r)
  PROVE  AccountsInv'
<1>1. RecordsInv /\ req[r] \in RequestState
  BY DEF CoreInv, RecordsInv, TypeOK
<1>2. UNCHANGED <<users, issued>>
  BY DEF DecideStep, DecideFindStudent, DecideNoStudent, DecideBegin, DecideReload,
     DecideCommit, tables
<1>3. OthersStay(r) /\ req'[r].pc \in DecideAwaits \cup {"done"}
  <2>1. CASE Return(r)
    BY <2>1, OverPc
  <2>2. CASE DecideFindStudent(r)
    BY <1>1, <2>2 DEF DecideFindStudent, RequestState, RecordsInv, TypeOK, OthersStay, DecideAwaits
  <2>3. CASE DecideBegin(r)
    BY <1>1, <2>3 DEF DecideBegin, RequestState, RecordsInv, TypeOK, OthersStay, DecideAwaits
  <2>4. CASE DecideReload(r)
    BY <1>1, <2>4 DEF DecideReload, RequestState, RecordsInv, TypeOK, OthersStay, DecideAwaits
  <2>5. QED
    BY <2>1, <2>2, <2>3, <2>4 DEF DecideStep, DecideNoStudent, DecideCommit
<1>4. CASE ~ DecideCommit(r)
  <2>1. UNCHANGED <<student, past>>
    BY <1>4 DEF DecideStep, DecideFindStudent, DecideNoStudent, DecideBegin, DecideReload,
       tables, history
  <2>2. StudentsSame /\ MailedFew
    BY <2>1, NobodyMailed DEF StudentsSame
  <2>3. QED
    BY <1>2, <1>3, <2>2, AccountsApart DEF DecideAwaits
<1>5. CASE DecideCommit(r)
  <2>1. /\ req[r].learner \in Learner /\ req[r].peer \in Learner
        /\ req[r].verdict \in {"Approved", "Rejected"}
    BY <1>1, <1>5, Deciding DEF DecideCommit, At, DecideAwaits
  <2>2. MailedFew
    <3>1. \/ past' = past
          \/ \E m \in {"approved", "rejected"} : Reach(req[r].learner, m)
      BY <1>5 DEF DecideCommit, history
    <3>2. QED
      BY <2>1, <3>1, NobodyMailed DEF Milestones
  <2>3. StudentsSame
    <3>. DEFINE p == req[r].peer
                copy == [student[p] EXCEPT !.application_status = req[r].verdict]
    <3>1. CASE UNCHANGED student
      BY <3>1 DEF StudentsSame
    <3>2. CASE studentLock[p] = r /\ student' = [student EXCEPT ![p] = copy]
      <4>1. student[p] \in StudentRow
        BY <2>1, <3>2, NoneAssumption DEF CoreInv, LocksHeldByDecisions, RecordsInv, TypeOK
      <4>2. copy \in StudentRow /\ copy.user = student[p].user /\ copy.email = student[p].email
        BY <2>1, <4>1 DEF StudentRow
      <4>. HIDE DEF copy
      <4>3. student'[p] = copy /\ \A l \in Learner \ {p} : student'[l] = student[l]
        BY <1>1, <2>1, <3>2 DEF RecordsInv, TypeOK
      <4>4. QED
        BY <4>1, <4>2, <4>3, NoneAssumption DEF StudentsSame
    <3>3. QED
      BY <1>5, <3>1, <3>2 DEF DecideCommit
  <2>4. QED
    BY <1>2, <1>3, <2>2, <2>3, AccountsApart DEF DecideAwaits
<1>6. QED
  BY <1>4, <1>5

-----------------------------------------------------------------------------
(* Sends. *)

\* Account, row and the send that is about to write them, before the step.
LEMMA Accounts ==
  ASSUME CoreInv, AccountsInv
  PROVE  /\ users \in [UserId -> Email \cup {None}] /\ issued \subseteq UserId
         /\ None \notin Email /\ None \notin StudentRow
         /\ \A l \in Learner : student[l] # None =>
               /\ student[l] \in StudentRow
               /\ student[l].user \in UserId /\ student[l].email \in Email
               /\ users[student[l].user] = student[l].email
               /\ student[l].user \in issued
  BY NoneAssumption DEF CoreInv, RecordsInv, TypeOK, AccountsInv, StudentMatchesAccount,
     UsersTrue, StudentRow

LEMMA Writing ==
  ASSUME CoreInv, AccountsInv, NEW r \in Request, Writes(req[r])
  PROVE  /\ req[r] \in RequestState
         /\ req[r].learner \in Learner /\ req[r].entity \in LearnerRow
         /\ req[r].user \in UserId /\ req[r].entity.email \in Email
         /\ OwnAccount(req[r]) /\ UpdatesBoth(req[r])
  BY Sending DEF Writes, CoreInv, RecordsInv, TypeOK, AccountsInv, SendsTrue, LearnerRow

LEMMA SendCreateUserAccounts ==
  ASSUME CoreInv, AccountsInv, NEW r \in Request, SendCreateUser(r)
  PROVE  AccountsInv'
<1>. DEFINE e == req[r].entity.email
<1>1. PICK u \in UserId \ issued :
        /\ users' = [users EXCEPT ![u] = e]
        /\ issued' = issued \cup {u}
        /\ req' = [req EXCEPT ![r] = [@ EXCEPT !.pc = "send.student", !.user = u]]
  BY DEF SendCreateUser
<1>2. /\ req[r].pc = "send.user" /\ ~ EmailTaken(e)
      /\ Reach(req[r].learner, "account") /\ UNCHANGED student
  BY DEF SendCreateUser, At
<1>3. /\ req[r] \in RequestState /\ req[r].learner \in Learner
      /\ req[r].entity \in LearnerRow /\ e \in Email
  BY <1>2, Mine DEF CoreInv, RequestTrue, LocalsSet, Awaits, SendAwaits, LearnerRow
<1>4. /\ OthersStay(r) /\ req'[r].pc = "send.student" /\ req'[r].user = u
      /\ req'[r].entity = req[r].entity
  BY <1>1, <1>3 DEF OthersStay, RequestState, CoreInv, RecordsInv, TypeOK
<1>. HIDE DEF e
<1>5. /\ users'[u] = e
      /\ \A v \in UserId \ {u} : users'[v] = users[v]
      /\ \A v \in UserId : users[v] # e
  BY <1>1, <1>2, Accounts DEF EmailTaken
<1>6. MailedFew
  BY <1>2, <1>3, NobodyMailed DEF Milestones
<1>7. /\ issued \subseteq issued' /\ UsersOnlyGo /\ RowsOfOwn(r) /\ NewAccount(r)
  BY <1>1, <1>2, <1>4, <1>5, Accounts DEF UsersOnlyGo, RowsOfOwn, NewAccount
<1>8. AccountsStay
  BY <1>2, <1>6 DEF AccountsStay, HasAccount, MailedFew
<1>9. \A l \in Learner : student[l] # None => student[l].user # u
  BY <1>1, Accounts
<1>10. OwnAccount(req[r])'
  BY <1>1, <1>2, <1>4, <1>5, <1>9 DEF OwnAccount, e
<1>11. UpdatesBoth(req[r])'
  BY <1>4 DEF UpdatesBoth
<1>12. StudentMatchesAccount'
  BY <1>2, <1>5, <1>9, Accounts DEF StudentMatchesAccount
<1>13. UsersTrue'
  <2>1. \A v \in UserId : users'[v] # None => v \in issued'
    BY <1>1, <1>5 DEF AccountsInv, UsersTrue
  <2>2. ASSUME NEW v \in UserId, NEW w \in UserId, users'[v] # None, users'[v] = users'[w]
        PROVE  v = w
    BY <1>5, <2>2 DEF AccountsInv, UsersTrue
  <2>3. \A l \in Learner : "mailed" \in past'[l] => HasAccount(l)'
    BY <1>6, <1>8 DEF AccountsInv, UsersTrue, MailedFew, AccountsStay
  <2>4. QED
    BY <2>1, <2>2, <2>3 DEF UsersTrue, HasAccount
<1>14. QED
  BY <1>4, <1>7, <1>8, <1>10, <1>11, <1>12, <1>13, AccountsConcluded

\* The SELECT of save(student): a row found is of another account, so that the
\* save writes the account, and the e-mail unless that is the same; then the
\* account of this send has gone.
LEMMA SendReloadStudentAccounts ==
  ASSUME CoreInv, AccountsInv, NEW r \in Request, SendReloadStudent(r)
  PROVE  AccountsInv'
<1>. DEFINE l == req[r].learner
            row == student[l]
            d == IF row = None THEN {} ELSE Dirty(StudentEntity(req[r]), row)
<1>1. /\ req[r].pc = "send.student"
      /\ req' = [req EXCEPT ![r] = [@ EXCEPT !.pc = "send.flush", !.insert = (row = None),
                                             !.dirty = d]]
      /\ UNCHANGED <<users, issued, student, past>>
  BY DEF SendReloadStudent, At, tables, history
<1>2. /\ req[r] \in RequestState /\ l \in Learner /\ Writes(req[r])
      /\ OwnAccount(req[r]) /\ req[r].user \in UserId
  BY <1>1, Writing DEF Writes
<1>3. row # None => /\ HasAccount(l) /\ "user" \in d
                    /\ "email" \in d \/ users[req[r].user] = None
  <2>1. SUFFICES ASSUME row # None
                 PROVE  /\ HasAccount(l) /\ "user" \in d
                        /\ "email" \in d \/ users[req[r].user] = None
    OBVIOUS
  <2>2. /\ row \in StudentRow /\ row.user \in UserId /\ users[row.user] = row.email
        /\ row.email # None /\ row.user # req[r].user
    BY <1>2, <2>1, Accounts DEF OwnAccount
  <2>3. DOMAIN row = {"user", "email", "application_status"}
    BY <2>2 DEF StudentRow
  <2>4. /\ "user" \in d
        /\ "email" \notin d => row.email = req[r].entity.email
    BY <2>1, <2>2, <2>3 DEF Dirty, StudentEntity
  <2>5. "email" \notin d => users[req[r].user] = None
    BY <1>2, <2>2, <2>4 DEF OwnAccount, AccountsInv, UsersTrue
  <2>6. QED
    BY <2>1, <2>4, <2>5 DEF HasAccount
<1>4. (row = None) \in BOOLEAN
  OBVIOUS
<1>. HIDE DEF d
<1>5. req'[r] = [req[r] EXCEPT !.pc = "send.flush", !.insert = (row = None), !.dirty = d]
  BY <1>1 DEF CoreInv, RecordsInv, TypeOK
<1>6. /\ OthersStay(r) /\ req'[r].pc = "send.flush" /\ req'[r].insert = (row = None)
      /\ req'[r].dirty = d /\ req'[r].user = req[r].user
      /\ req'[r].entity = req[r].entity /\ req'[r].learner = l
  BY <1>1, <1>2, <1>5 DEF OthersStay, RequestState, CoreInv, RecordsInv, TypeOK
<1>7. OwnAccount(req[r])' /\ NewAccount(r)
  BY <1>1, <1>2, <1>6 DEF OwnAccount, Writes, NewAccount
<1>8. UpdatesBoth(req[r])'
  BY <1>1, <1>3, <1>6 DEF UpdatesBoth, HasAccount
<1>9. StudentsSame /\ MailedFew
  BY <1>1, NobodyMailed DEF StudentsSame
<1>10. QED
  BY <1>1, <1>6, <1>7, <1>8, <1>9, AccountsQuiet

\* The students row is there, or was and has been removed, and the send goes on
\* to the mail.
LEMMA MailNext ==
  ASSUME CoreInv, AccountsInv, NEW r \in Request, Goto(r, "send.mail"),
         req[r].learner \in Learner,
         student'[req[r].learner] # None \/ "removed" \in past'[req[r].learner]
  PROVE  /\ OthersStay(r) /\ NewAccount(r)
         /\ OwnAccount(req[r])' /\ UpdatesBoth(req[r])'
<1>1. OthersStay(r) /\ req'[r].pc = "send.mail" /\ req'[r].learner = req[r].learner
  BY Went DEF CoreInv, Only, Keeps, OthersStay, Awaits
<1>2. QED
  BY <1>1 DEF NewAccount, OwnAccount, UpdatesBoth, Writes, HasAccount

\* The students row of r's learner is written: the account and the e-mail of
\* the send, and the account is still there.
LEMMA StudentWritten ==
  ASSUME CoreInv, AccountsInv, NEW r \in Request, Writes(req[r]), Goto(r, "send.mail"),
         NEW row \in StudentRow, student' = [student EXCEPT ![req[r].learner] = row],
         row.user = req[r].user, row.email = req[r].entity.email,
         users[req[r].user] # None, UNCHANGED <<users, issued, past>>
  PROVE  AccountsInv'
<1>1. /\ req[r].learner \in Learner /\ OwnAccount(req[r])
      /\ student \in [Learner -> StudentRow \cup {None}]
  BY Writing DEF CoreInv, RecordsInv, TypeOK
<1>2. /\ student'[req[r].learner] = row
      /\ \A l \in Learner \ {req[r].learner} : student'[l] = student[l]
      /\ row # None
  BY <1>1, NoneAssumption
<1>3. /\ UsersOnlyGo /\ RowsOfOwn(r) /\ AccountsStay
  <2>1. UsersOnlyGo
    BY DEF UsersOnlyGo
  <2>2. RowsOfOwn(r)
    BY <1>1, <1>2 DEF RowsOfOwn
  <2>3. AccountsStay
    BY <1>1, <1>2 DEF AccountsStay, HasAccount
  <2>4. QED
    BY <2>1, <2>2, <2>3
<1>4. StudentMatchesAccount'
  BY <1>1, <1>2, Accounts DEF StudentMatchesAccount, OwnAccount
<1>5. \A l \in Learner : "mailed" \in past'[l] => HasAccount(l)'
  BY <1>3 DEF AccountsInv, UsersTrue, AccountsStay
<1>6. UsersTrue'
  BY <1>5 DEF AccountsInv, UsersTrue, HasAccount
<1>7. student'[req[r].learner] # None
  BY <1>2
<1>8. QED
  BY <1>1, <1>3, <1>4, <1>6, <1>7, MailNext, AccountsConcluded

LEMMA SendInsertStudentAccounts ==
  ASSUME CoreInv, AccountsInv, NEW r \in Request, SendInsertStudent(r)
  PROVE  AccountsInv'
<1>. DEFINE row == StudentEntity(req[r])
<1>1. /\ req[r].pc = "send.flush" /\ Goto(r, "send.mail") /\ users[req[r].user] # None
      /\ student' = [student EXCEPT ![req[r].learner] = row]
      /\ UNCHANGED <<users, issued, past>>
  BY DEF SendInsertStudent, At, history
<1>2. Writes(req[r])
  BY <1>1 DEF Writes
<1>3. /\ row \in StudentRow
      /\ row.user = req[r].user /\ row.email = req[r].entity.email
  <2>1. row \in StudentRow
    BY <1>2, Writing, StudentEntityType
  <2>2. QED
    BY <2>1 DEF StudentEntity
<1>. HIDE DEF row
<1>4. QED
  BY <1>1, <1>2, <1>3, StudentWritten

\* A save that updates writes both columns, or is refused.
LEMMA SendUpdateStudentAccounts ==
  ASSUME CoreInv, AccountsInv, NEW r \in Request, SendUpdateStudent(r)
  PROVE  AccountsInv'
<1>. DEFINE l == req[r].learner
            row == WriteBack(student[l], StudentEntity(req[r]), req[r].dirty)
<1>1. /\ req[r].pc = "send.flush" /\ ~ req[r].insert /\ Goto(r, "send.mail")
      /\ UNCHANGED <<users, issued, past>>
      /\ \/ UNCHANGED student
         \/ /\ student[l] # None
            /\ "user" \in req[r].dirty => users[req[r].user] # None
            /\ student' = [student EXCEPT ![l] = row]
  BY DEF SendUpdateStudent, At, history
<1>2. Writes(req[r])
  BY <1>1 DEF Writes
<1>3. /\ l \in Learner /\ HasAccount(l) /\ "user" \in req[r].dirty
      /\ "email" \in req[r].dirty \/ users[req[r].user] = None
  BY <1>1, <1>2, Writing DEF UpdatesBoth
<1>4. CASE UNCHANGED student
  <2>1. StudentsSame /\ MailedFew
    BY <1>1, <1>4, NobodyMailed DEF StudentsSame
  <2>2. student'[l] # None \/ "removed" \in past'[l]
    BY <1>1, <1>3, <1>4 DEF HasAccount
  <2>3. QED
    BY <1>1, <1>3, <2>1, <2>2, MailNext, AccountsQuiet
<1>5. CASE /\ student[l] # None
           /\ "user" \in req[r].dirty => users[req[r].user] # None
           /\ student' = [student EXCEPT ![l] = row]
  <2>1. student[l] \in StudentRow /\ StudentEntity(req[r]) \in StudentRow
    BY <1>2, <1>3, <1>5, Accounts, Writing, StudentEntityType
  <2>2. row \in StudentRow
    BY <2>1, WriteBackStudent
  <2>3. row.user = req[r].user /\ row.email = req[r].entity.email
    BY <1>3, <1>5, <2>1 DEF WriteBack, StudentEntity, StudentRow
  <2>. HIDE DEF row
  <2>4. QED
    BY <1>1, <1>2, <1>3, <1>5, <2>2, <2>3, StudentWritten
<1>6. QED
  BY <1>1, <1>4, <1>5

LEMMA SendMailAccounts ==
  ASSUME CoreInv, AccountsInv, NEW r \in Request, SendMail(r)
  PROVE  AccountsInv'
<1>1. /\ req[r].pc = "send.mail" /\ Goto(r, "send.mark")
      /\ Reach(req[r].learner, "mailed")
      /\ UNCHANGED <<users, issued, student>>
  BY DEF SendMail, At, tables
<1>2. req[r].learner \in Learner /\ HasAccount(req[r].learner)
  BY <1>1, Sending DEF CoreInv, AccountsInv, SendsTrue, UpdatesBoth
<1>3. MailedFew
  BY <1>1, <1>2 DEF MailedFew, Reach, CoreInv, RecordsInv, TypeOK
<1>4. OthersStay(r) /\ req'[r].pc = "send.mark" /\ StudentsSame
  BY <1>1, Went DEF CoreInv, Only, OthersStay, Awaits, StudentsSame
<1>5. QED
  BY <1>1, <1>3, <1>4, AccountsApart

LEMMA SendMarkAccounts ==
  ASSUME CoreInv, AccountsInv, NEW r \in Request, SendMark(r)
  PROVE  AccountsInv'
<1>1. /\ req[r].pc = "send.mark" /\ Return(r) /\ UNCHANGED <<users, issued, student>>
      /\ Reach(req[r].learner, "sent") \/ past' = past
  BY DEF SendMark, At, history
<1>2. req[r].learner \in Learner
  BY <1>1, Sending DEF CoreInv
<1>3. MailedFew /\ StudentsSame
  BY <1>1, <1>2, NobodyMailed DEF Milestones, StudentsSame
<1>4. QED
  BY <1>1, <1>3, AccountsReturn

\* An account goes, and the students row with it.
LEMMA DeleteUserAccounts ==
  ASSUME CoreInv, AccountsInv, NEW r \in Request, NEW u \in UserId, DeleteUser(r, u)
  PROVE  AccountsInv'
<1>. DEFINE gone == {l \in Learner : student[l] # None /\ student[l].user = u}
<1>1. /\ student' = [l \in Learner |-> IF l \in gone THEN None ELSE student[l]]
      /\ past' = [l \in Learner |-> IF l \in gone THEN past[l] \cup {"removed"} ELSE past[l]]
      /\ users' = [users EXCEPT ![u] = None]
      /\ issued' = issued /\ Return(r)
  BY DEF DeleteUser
<1>2. /\ users'[u] = None
      /\ \A v \in UserId \ {u} : users'[v] = users[v]
  BY <1>1, Accounts
<1>3. \A l \in Learner :
         /\ student'[l] # None => student'[l] = student[l] /\ student[l].user # u
         /\ student'[l] = None => student[l] = None \/ "removed" \in past'[l]
         /\ past[l] \subseteq past'[l]
         /\ "mailed" \in past'[l] => "mailed" \in past[l]
  BY <1>1
<1>. HIDE DEF gone
<1>4. UsersOnlyGo /\ RowsOfOwn(r)
  <2>1. UsersOnlyGo
    BY <1>2, Accounts DEF UsersOnlyGo
  <2>2. RowsOfOwn(r)
    BY <1>3 DEF RowsOfOwn
  <2>3. QED
    BY <2>1, <2>2
<1>5. AccountsStay
  BY <1>3 DEF AccountsStay, HasAccount
<1>6. OthersStay(r) /\ NewAccount(r) /\ OwnAccount(req[r])' /\ UpdatesBoth(req[r])'
  BY <1>1, OverPc DEF NewAccount, OwnAccount, UpdatesBoth, Writes
<1>7. StudentMatchesAccount'
  BY <1>2, <1>3, Accounts DEF StudentMatchesAccount
<1>8. UsersTrue'
  <2>1. \A l \in Learner : "mailed" \in past'[l] => HasAccount(l)'
    BY <1>3, <1>5 DEF AccountsInv, UsersTrue, AccountsStay
  <2>2. \A v \in UserId : users'[v] # None => users'[v] = users[v]
    BY <1>2
  <2>3. QED
    BY <1>1, <2>1, <2>2 DEF AccountsInv, UsersTrue, HasAccount
<1>9. QED
  BY <1>1, <1>4, <1>5, <1>6, <1>7, <1>8, AccountsConcluded

LEMMA SendAccounts ==
  ASSUME CoreInv, AccountsInv, NEW r \in Request, SendStep(r)
  PROVE  AccountsInv'
<1>1. CASE SendEmailExists(r) \/ SendUserConflict(r) \/ SendStudentConflict(r)
  <2>1. Return(r) /\ UNCHANGED <<users, issued, student, past>>
    BY <1>1 DEF SendEmailExists, SendUserConflict, SendStudentConflict, tables, history
  <2>2. StudentsSame /\ MailedFew
    BY <2>1, NobodyMailed DEF StudentsSame
  <2>3. QED
    BY <2>1, <2>2, AccountsReturn
<1>2. CASE SendEmailFree(r)
  <2>1. Goto(r, "send.user") /\ UNCHANGED <<users, issued, student, past>>
    BY <1>2 DEF SendEmailFree, tables, history
  <2>2. OthersStay(r) /\ req'[r].pc = "send.user"
    BY <2>1, Went DEF CoreInv, Only, OthersStay, Awaits
  <2>3. StudentsSame /\ MailedFew
    BY <2>1, NobodyMailed DEF StudentsSame
  <2>4. QED
    BY <2>1, <2>2, <2>3, AccountsApart
<1>3. QED
  BY <1>1, <1>2, SendCreateUserAccounts, SendReloadStudentAccounts, SendInsertStudentAccounts,
     SendUpdateStudentAccounts, SendMailAccounts, SendMarkAccounts DEF SendStep

-----------------------------------------------------------------------------
(* The theorems. *)

LEMMA InitAccounts == Init => AccountsInv
<1>. SUFFICES ASSUME Init
              PROVE  AccountsInv
  OBVIOUS
<1>1. \A r \in Request : req[r].pc = "idle"
  BY DEF Init, Idle, Holding
<1>2. \A l \in Learner : student[l] = None /\ "mailed" \notin past[l]
  BY DEF Init
<1>3. \A u \in UserId : users[u] = None
  BY DEF Init
<1>4. QED
  BY <1>1, <1>2, <1>3 DEF AccountsInv, StudentMatchesAccount, UsersTrue, SendsTrue,
     OwnAccount, UpdatesBoth, Writes

LEMMA NextAccounts == CoreInv /\ AccountsInv /\ [Next]_vars => AccountsInv'
<1>. SUFFICES ASSUME CoreInv, AccountsInv, [Next]_vars
              PROVE  AccountsInv'
  OBVIOUS
<1>1. ASSUME NEW r \in Request, ClientCall(r)
      PROVE  AccountsInv'
  BY <1>1, CallAccounts, DeleteUserAccounts DEF ClientCall, AccountCall
<1>2. ASSUME NEW r \in Request, HandlerStep(r)
      PROVE  AccountsInv'
  BY <1>2, SendAccounts, RecordAccounts, FormAccounts, DecideAccounts DEF HandlerStep
<1>3. ASSUME NEW r \in Request, Fail(r)
      PROVE  AccountsInv'
  <2>1. Return(r) /\ UNCHANGED <<users, issued, student, past>>
    BY <1>3 DEF Fail, tables, history
  <2>2. StudentsSame /\ MailedFew
    BY <2>1, NobodyMailed DEF StudentsSame
  <2>3. QED
    BY <2>1, <2>2, AccountsReturn
<1>4. CASE UNCHANGED vars
  BY <1>4 DEF vars, AccountsInv, StudentMatchesAccount, UsersTrue, SendsTrue,
     OwnAccount, UpdatesBoth, Writes, HasAccount
<1>5. QED
  BY <1>1, <1>2, <1>3, <1>4 DEF Next

\* The inductive invariant of the pipeline: what the tables say of each other,
\* and what a request holds of them at every await, whatever ran meanwhile.
THEOREM Invariant == Spec => []IInv
<1>1. Spec => []AccountsInv
  BY InitAccounts, NextAccounts, CoreInvariant, PTL DEF Spec
<1>2. CoreInv /\ FormsInv /\ AccountsInv => IInv
  BY DEF IInv
<1>3. QED
  BY <1>1, <1>2, CoreInvariant, FormsInvariant, PTL

\* What finds a student by e-mail finds the owner of the account, however the
\* sends, the edits of e-mails and the removals of accounts interleave.
THEOREM StudentsMatchTheirAccounts == Spec => []StudentMatchesAccount
<1>1. IInv => StudentMatchesAccount
  BY DEF IInv, AccountsInv
<1>2. QED
  BY <1>1, Invariant, PTL

\* Nobody is mailed, or marked 'Sent', without a students row, unless an admin
\* has removed the account.
THEOREM TheMailedHaveAccounts == Spec => []MailedHasAccount
<1>1. IInv => MailedHasAccount
  <2>. SUFFICES ASSUME IInv, NEW l \in Learner,
                       \/ "mailed" \in past[l]
                       \/ learner[l] # None /\ learner[l].application_mail = "Sent"
                PROVE  HasAccount(l)
    BY DEF MailedHasAccount, HasAccount
  <2>1. "mailed" \in past[l] => HasAccount(l)
    BY DEF IInv, AccountsInv, UsersTrue
  <2>2. CASE learner[l] # None /\ learner[l].application_mail = "Sent"
    <3>1. "sent" \in past[l]
      BY <2>2 DEF IInv, CoreInv, RecordsInv, StagesInOrder, Shown
    <3>2. "mailed" \in past[l]
      BY <3>1 DEF IInv, CoreInv, RecordsInv, StagesInOrder, Progress!Before
    <3>3. QED
      BY <2>1, <3>2
  <2>3. QED
    BY <2>1, <2>2
<1>2. QED
  BY <1>1, Invariant, PTL

-----------------------------------------------------------------------------
(* The decisions of an instance whose handlers neither save whole rows nor  *)
(* remove accounts.  What a step of r may change of the rows and the locks. *)

Undisturbed == CoreInv /\ AccountsInv /\ DecisionsInv

\* A students row keeps its account and its e-mail; a new one is that of the
\* send that moves.
KeepsStudents(r) ==
    \A l \in Learner :
       /\ student[l] # None => /\ student'[l] # None
                               /\ student'[l].email = student[l].email
                               /\ student'[l].user = student[l].user
       /\ student[l] = None /\ student'[l] # None =>
             /\ Writes(req[r]) /\ req[r].learner = l
             /\ student'[l].email = req[r].entity.email
             /\ student'[l].user = req[r].user

\* A learner keeps the e-mail; a new one has no past.
KeepsLearners ==
    \A l \in Learner : learner'[l] # None =>
       \/ learner[l] # None /\ learner'[l].email = learner[l].email
       \/ past[l] = {}

\* The locks of the others stay.
KeepsLocks(r) ==
    \A l \in Learner : /\ lock[l] \notin {None, r} => lock'[l] = lock[l]
                       /\ studentLock[l] \notin {None, r} => studentLock'[l] = studentLock[l]

\* r has the entity it had, or the row as it is.
KeepsEntity(r) ==
    Sends(req'[r]) \/ Decides(req'[r]) =>
       \/ /\ Sends(req[r]) \/ Decides(req[r])
          /\ req'[r].learner = req[r].learner /\ req'[r].entity = req[r].entity
       \/ /\ req'[r].learner \in Learner /\ learner[req'[r].learner] # None
          /\ req'[r].entity = learner[req'[r].learner]

LEMMA HolderCreated ==
  ASSUME CoreInv, NEW r \in Request, Sends(req[r]) \/ Decides(req[r])
  PROVE  /\ req[r].learner \in Learner /\ req[r].entity \in LearnerRow
         /\ "created" \in past[req[r].learner]
<1>1. req[r].pc \in SendAwaits \cup DecideAwaits
  BY DEF Sends, Decides, Writes, SendAwaits
<1>2. req[r].pc \in Awaits \ {"create.insert"}
  BY <1>1 DEF SendAwaits, DecideAwaits, Awaits
<1>3. QED
  BY <1>1, <1>2 DEF CoreInv, RecordsInv, RequestsTrue, LocalsSet, EntityTrue

\* What two of the rows and entities of a learner say is one e-mail.
LEMMA SameEmail ==
  ASSUME Undisturbed, NEW l \in Learner
  PROVE  \E e : OneEmail(l, e)
  BY DEF Undisturbed, DecisionsInv, RowsUndisturbed

LEMMA EmailKept ==
  ASSUME Undisturbed, CoreInv', NEW r \in Request, OthersStay(r),
         KeepsStudents(r), KeepsLearners, KeepsEntity(r), NEW l \in Learner
  PROVE  \E e \in Email \cup {None} : OneEmail(l, e)'
<1>1. \A o \in Request \ {r} : req'[o] = req[o]
  BY DEF OthersStay
<1>2. CASE past[l] = {}
  <2>1. learner[l] = None /\ student[l] = None
    BY <1>2 DEF Undisturbed, CoreInv, RecordsInv, RowsCreated, DecisionsInv, RowsUndisturbed
  <2>2. \A o \in Request : Sends(req[o]) \/ Decides(req[o]) => req[o].learner # l
    BY <1>2, HolderCreated DEF Undisturbed
  <2>3. student'[l] = None
    BY <2>1, <2>2 DEF KeepsStudents, Sends
  <2>4. \A o \in Request : Sends(req'[o]) \/ Decides(req'[o]) => req'[o].learner # l
    BY <1>1, <2>1, <2>2 DEF KeepsEntity
  <2>5. CASE learner'[l] = None
    BY <2>3, <2>4, <2>5 DEF OneEmail, Sends, Decides, Writes
  <2>6. CASE learner'[l] # None
    <3>1. learner'[l].email \in Email
      BY <2>6 DEF CoreInv, RecordsInv, TypeOK, LearnerRow
    <3>2. PICK e \in Email : learner'[l].email = e
      BY <3>1
    <3>3. QED
      BY <2>3, <2>4, <3>2 DEF OneEmail, Sends, Decides, Writes
  <2>7. QED
    BY <2>5, <2>6
<1>3. CASE past[l] # {}
  <2>1. PICK e \in Email \cup {None} : OneEmail(l, e)
    BY DEF Undisturbed, DecisionsInv, RowsUndisturbed
  <2>2. learner'[l] # None => learner'[l].email = e
    BY <1>3, <2>1 DEF KeepsLearners, OneEmail
  <2>3. student'[l] # None => student'[l].email = e
    BY <2>1 DEF KeepsStudents, OneEmail, Sends
  <2>4. ASSUME NEW o \in Request, req'[o].learner = l, Sends(req'[o]) \/ Decides(req'[o])
        PROVE  req'[o].entity.email = e
    BY <1>1, <2>1, <2>4 DEF KeepsEntity, OneEmail
  <2>5. QED
    BY <2>2, <2>3, <2>4 DEF OneEmail, Sends, Decides, Writes
<1>4. QED
  BY <1>2, <1>3

\* Two requests do not write the row of one learner: they would have two
\* accounts with the learner's e-mail.
LEMMA OneWrites ==
  ASSUME Undisturbed, NEW r \in Request, NEW o \in Request, Writes(req[r]), Writes(req[o]),
         req[r].learner = req[o].learner
  PROVE  r = o
<1>1. PICK e : OneEmail(req[r].learner, e)
  BY SameEmail, Writing DEF Undisturbed
<1>2. req[r].entity.email = e /\ req[o].entity.email = e
  BY <1>1 DEF OneEmail, Sends
<1>3. ASSUME NEW q \in Request, Writes(req[q])
      PROVE  req[q].user \in UserId /\ users[req[q].user] = req[q].entity.email
                /\ users[req[q].user] # None
  BY <1>3, Writing DEF Undisturbed, OwnAccount, DecisionsInv, RowsUndisturbed
<1>4. req[r].user = req[o].user
  BY <1>2, <1>3 DEF Undisturbed, AccountsInv, UsersTrue
<1>5. QED
  BY <1>4 DEF Undisturbed, AccountsInv, SendsTrue

LEMMA OthersUndisturbed ==
  ASSUME Undisturbed, NEW r \in Request, OthersStay(r), KeepsStudents(r), KeepsLearners,
         KeepsLocks(r), NEW o \in Request \ {r}
  PROVE  RequestUndisturbed(o)'
<1>. DEFINE q == req[o]
            l == req[o].learner
<1>1. req'[o] = q /\ RequestUndisturbed(o)
  BY DEF OthersStay, Undisturbed, DecisionsInv
<1>2. Sends(q) \/ Decides(q) => l \in Learner /\ "created" \in past[l]
  BY HolderCreated DEF Undisturbed
<1>3. Sends(q) /\ student'[l] = None => q.entity.application_status = "Pending"
  BY <1>1, <1>2 DEF RequestUndisturbed, KeepsStudents
<1>4. Writes(q) => student'[l] = None
  <2>1. SUFFICES ASSUME Writes(q), student'[l] # None
                 PROVE  FALSE
    OBVIOUS
  <2>2. l \in Learner /\ student[l] = None
    BY <1>1, <1>2, <2>1 DEF RequestUndisturbed, Sends
  <2>3. Writes(req[r]) /\ req[r].learner = l
    BY <2>1, <2>2 DEF KeepsStudents
  <2>4. QED
    BY <2>1, <2>3, OneWrites
<1>5. Decides(q) => student'[l] # None
  BY <1>1, <1>2 DEF RequestUndisturbed, KeepsStudents
<1>6. q.pc \in {"decide.reload", "decide.commit"} =>
         studentLock'[l] = o /\ (learner'[l] # None => lock'[l] = o)
  <2>1. SUFFICES ASSUME q.pc \in {"decide.reload", "decide.commit"}
                 PROVE  studentLock'[l] = o /\ (learner'[l] # None => lock'[l] = o)
    OBVIOUS
  <2>2. /\ l \in Learner /\ past[l] # {} /\ studentLock[l] = o
        /\ learner[l] # None => lock[l] = o
    BY <1>1, <1>2, <2>1 DEF RequestUndisturbed, Decides, DecideAwaits
  <2>3. o \notin {None, r}
    BY NoneAssumption
  <2>4. QED
    BY <2>2, <2>3 DEF KeepsLocks, KeepsLearners
<1>7. QED
  BY <1>1, <1>3, <1>4, <1>5, <1>6 DEF RequestUndisturbed, Sends, Decides, Writes

\* What has to be shown of a step of r.
LEMMA DecisionsConcluded ==
  ASSUME Undisturbed, CoreInv', NEW r \in Request, OthersStay(r), KeepsStudents(r),
         KeepsLearners, KeepsLocks(r), KeepsEntity(r), RequestUndisturbed(r)',
         \A u \in issued' : users'[u] # None,
         \A l \in Learner :
            /\ past[l] \subseteq past'[l] /\ "removed" \notin past'[l]
            /\ learner'[l] # None /\ student'[l] = None => learner'[l].application_status = "Pending"
            /\ learner'[l] # None /\ student'[l] # None =>
                  learner'[l].application_status = student'[l].application_status
  PROVE  DecisionsInv'
<1>1. DecisionsAgree'
  BY DEF DecisionsAgree
<1>2. \A o \in Request : RequestUndisturbed(o)'
  BY OthersUndisturbed
<1>3. \A l \in Learner : \E e \in Email \cup {None} : OneEmail(l, e)'
  BY EmailKept
<1>4. \A l \in Learner : student'[l] # None => past'[l] # {}
  <2>1. SUFFICES ASSUME NEW l \in Learner, student'[l] # None
                 PROVE  past[l] # {}
    OBVIOUS
  <2>2. CASE student[l] # None
    BY <2>2 DEF Undisturbed, DecisionsInv, RowsUndisturbed
  <2>3. CASE student[l] = None
    BY <2>1, <2>3, HolderCreated DEF KeepsStudents, Undisturbed, Sends
  <2>4. QED
    BY <2>2, <2>3
<1>5. ASSUME NEW k \in Learner, NEW l \in Learner, student'[k] # None, student'[l] # None,
             student'[k].user = student'[l].user
      PROVE  k = l
  <2>1. CASE student[k] # None /\ student[l] # None
    BY <1>5, <2>1 DEF KeepsStudents, Undisturbed, DecisionsInv, RowsUndisturbed
  <2>2. ASSUME NEW i \in Learner, NEW j \in Learner, student[i] = None, student'[i] # None,
               student[j] # None, student'[i].user = student'[j].user
        PROVE  FALSE
    <3>1. Writes(req[r]) /\ student'[i].user = req[r].user
      BY <2>2 DEF KeepsStudents
    <3>2. student[j].user # req[r].user
      BY <2>2, <3>1 DEF Undisturbed, AccountsInv, SendsTrue, OwnAccount
    <3>3. QED
      BY <2>2, <3>1, <3>2 DEF KeepsStudents
  <2>3. CASE student[k] = None /\ student[l] = None
    BY <1>5, <2>3 DEF KeepsStudents
  <2>4. QED
    BY <1>5, <2>1, <2>2, <2>3
<1>6. RowsUndisturbed'
  BY <1>3, <1>4, <1>5 DEF RowsUndisturbed
<1>7. QED
  BY <1>1, <1>2, <1>6 DEF DecisionsInv

-----------------------------------------------------------------------------
(* The steps. *)

\* A step that leaves the rows and the accounts alone.
LEMMA DecisionsQuiet ==
  ASSUME Undisturbed, CoreInv', NEW r \in Request, OthersStay(r),
         UNCHANGED <<learner, users, issued, student>>,
         past' = past \/ \E l \in Learner : \E m \in Milestones \ {"removed"} : Reach(l, m),
         KeepsLocks(r), KeepsEntity(r), RequestUndisturbed(r)'
  PROVE  DecisionsInv'
<1>1. KeepsStudents(r) /\ KeepsLearners
  BY DEF KeepsStudents, KeepsLearners
<1>2. \A l \in Learner : past[l] \subseteq past'[l] /\ "removed" \notin past'[l]
  BY DEF Undisturbed, CoreInv, RecordsInv, TypeOK, DecisionsInv, RowsUndisturbed, Reach
<1>3. /\ \A u \in issued' : users'[u] # None
      /\ \A l \in Learner :
            /\ learner'[l] # None /\ student'[l] = None => learner'[l].application_status = "Pending"
            /\ learner'[l] # None /\ student'[l] # None =>
                  learner'[l].application_status = student'[l].application_status
  BY DEF Undisturbed, DecisionsInv, RowsUndisturbed, DecisionsAgree
<1>4. QED
  BY <1>1, <1>2, <1>3, DecisionsConcluded

\* The request is over, or about forms, or about to delete a learner.
Apart == {"done", "form.insert", "form.save", "delete"}

LEMMA ApartUndisturbed ==
  ASSUME NEW r \in Request, req'[r].pc \in Apart
  PROVE  RequestUndisturbed(r)' /\ KeepsEntity(r)
  BY DEF Apart, RequestUndisturbed, KeepsEntity, Sends, Decides, Writes, DecideAwaits

LEMMA DecisionsApart ==
  ASSUME Undisturbed, CoreInv', NEW r \in Request, OthersStay(r), req'[r].pc \in Apart,
         UNCHANGED <<learner, users, issued, student, past>>, KeepsLocks(r)
  PROVE  DecisionsInv'
  BY ApartUndisturbed, DecisionsQuiet

LEMMA OverApart ==
  ASSUME Undisturbed, NEW r \in Request, Return(r)
  PROVE  OthersStay(r) /\ req'[r].pc \in Apart
  BY OverPc DEF Undisturbed, Apart

LEMMA LocksSame ==
  ASSUME NEW r \in Request, UNCHANGED locks
  PROVE  KeepsLocks(r)
  BY DEF KeepsLocks, locks

\* A handler that is called holds the row it has loaded, or nothing.
LEMMA CallDecisions ==
  ASSUME Undisturbed, CoreInv', Handlers \cap Disturbing = {}, NEW r \in Request,
         ClientCall(r)
  PROVE  DecisionsInv'
<1>0. RecordsInv /\ req \in [Request -> RequestState]
  BY DEF Undisturbed, CoreInv, RecordsInv, TypeOK
<1>1. CASE \E l \in Learner : SendLearnerMail(r, l)
  <2>1. PICK l \in Learner : SendLearnerMail(r, l)
    BY <1>1
  <2>2. /\ learner[l] # None /\ req' = [req EXCEPT ![r] = Holding("send.email", l, learner[l])]
        /\ UNCHANGED <<learner, users, issued, student, past, locks>>
    BY <2>1 DEF SendLearnerMail, tables, history
  <2>3. /\ OthersStay(r) /\ req'[r].pc = "send.email" /\ req'[r].learner = l
        /\ req'[r].entity = learner[l]
    BY <1>0, <2>2, UpdatesOne DEF Holding
  <2>4. student[l] = None => learner[l].application_status = "Pending"
    BY <2>2 DEF Undisturbed, DecisionsInv, RowsUndisturbed
  <2>5. RequestUndisturbed(r)' /\ KeepsEntity(r)
    BY <2>2, <2>3, <2>4 DEF RequestUndisturbed, KeepsEntity, Sends, Decides, Writes, DecideAwaits
  <2>6. QED
    BY <2>2, <2>3, <2>5, LocksSame, DecisionsQuiet
<1>2. CASE \E e \in Email : CreateLearner(r, e)
  <2>1. PICK e \in Email : CreateLearner(r, e)
    BY <1>2
  <2>2. /\ req' = [req EXCEPT ![r] = Holding("create.insert", None, NewLearner(e))]
        /\ UNCHANGED <<learner, users, issued, student, past, locks>>
    BY <2>1 DEF CreateLearner, tables, history
  <2>3. /\ OthersStay(r) /\ req'[r].pc = "create.insert"
        /\ req'[r].entity.application_status = "Pending"
    BY <1>0, <2>2, UpdatesOne DEF Holding, NewLearner
  <2>4. RequestUndisturbed(r)' /\ KeepsEntity(r)
    BY <2>3 DEF RequestUndisturbed, KeepsEntity, Sends, Decides, Writes, DecideAwaits
  <2>5. QED
    BY <2>2, <2>3, <2>4, LocksSame, DecisionsQuiet
<1>3. CASE \E l \in Learner : DeleteStudent(r, l)
  <2>1. PICK l \in Learner : DeleteStudent(r, l)
    BY <1>3
  <2>2. /\ req' = [req EXCEPT ![r] = Holding("delete", l, None)]
        /\ UNCHANGED <<learner, users, issued, student, past, locks>>
    BY <2>1 DEF DeleteStudent, tables, history
  <2>3. OthersStay(r) /\ req'[r].pc \in Apart
    BY <1>0, <2>2, UpdatesOne DEF Holding, Apart
  <2>4. QED
    BY <2>2, <2>3, LocksSame, DecisionsApart
<1>4. CASE FormCall(r)
  <2>1. UNCHANGED <<learner, users, issued, student, past, locks>> /\ OthersStay(r)
    BY <1>0, <1>4 DEF FormCall, CreateSubmission, SubmitForm, UpdateDraft, ReviewSubmission,
       SaveForms, tables, history, OthersStay
  <2>2. req'[r].pc \in Apart
    <3>1. ASSUME NEW l \in Learner, CreateSubmission(r, l)
          PROVE  req'[r].pc \in Apart
      BY <1>0, <3>1 DEF CreateSubmission, Holding, Apart
    <3>2. ASSUME NEW l, NEW entities, SaveForms(r, l, entities)
          PROVE  req'[r].pc \in Apart
      BY <1>0, <3>2 DEF SaveForms, Holding, Apart
    <3>3. QED
      BY <1>4, <3>1, <3>2 DEF FormCall, SubmitForm, UpdateDraft, ReviewSubmission
  <2>3. QED
    BY <2>1, <2>2, LocksSame, DecisionsApart
<1>5. CASE DecideCall(r)
  <2>1. PICK l \in Learner, verdict \in {"Approved", "Rejected"} : Decide(r, l, verdict)
    BY <1>5 DEF DecideCall, ApproveApplication, RejectApplication
  <2>. DEFINE q == [Holding("decide.student", l, learner[l]) EXCEPT !.verdict = verdict]
  <2>2. /\ learner[l] # None /\ learner[l].application_mail = "Sent"
        /\ req' = [req EXCEPT ![r] = q] /\ q.pc = "decide.student"
        /\ q.learner = l /\ q.entity = learner[l]
        /\ UNCHANGED <<learner, users, issued, student, past, locks>>
    BY <2>1 DEF Decide, Holding, tables, history
  <2>. HIDE DEF q
  <2>3. student[l] # None
    <3>1. "sent" \in past[l]
      BY <2>2 DEF Undisturbed, CoreInv, RecordsInv, StagesInOrder, Shown
    <3>2. "mailed" \in past[l]
      BY <3>1 DEF Undisturbed, CoreInv, RecordsInv, StagesInOrder, Progress!Before
    <3>3. QED
      BY <3>2 DEF Undisturbed, AccountsInv, UsersTrue, HasAccount, DecisionsInv, RowsUndisturbed
  <2>4. /\ OthersStay(r) /\ req'[r].pc = "decide.student" /\ req'[r].learner = l
        /\ req'[r].entity = learner[l]
    BY <1>0, <2>2, UpdatesOne
  <2>5. RequestUndisturbed(r)' /\ KeepsEntity(r)
    BY <2>2, <2>3, <2>4 DEF RequestUndisturbed, KeepsEntity, Sends, Decides, Writes, DecideAwaits
  <2>6. QED
    BY <2>2, <2>4, <2>5, LocksSame, DecisionsQuiet
<1>6. ~ \E u \in UserId : DeleteUser(r, u)
  BY DEF DeleteUser, Call, Disturbing
<1>7. RecordCall(r) => \/ \E e \in Email : CreateLearner(r, e)
                       \/ \E l \in Learner : DeleteStudent(r, l)
  BY DEF RecordCall, EditInformation, SendMeetingLink, UpdateAttendanceStatus, ApproveLazer,
     ApproveCertificate, ArchiveStudent, UnarchiveStudent, Call, Disturbing
<1>8. QED
  BY <1>1, <1>2, <1>3, <1>4, <1>5, <1>6, <1>7 DEF ClientCall, AccountCall

\* A send: its learner has no students row until it has written it.
LEMMA SendDecisions ==
  ASSUME Undisturbed, CoreInv', NEW r \in Request, SendStep(r)
  PROVE  DecisionsInv'
<1>. DEFINE l == req[r].learner
            e == req[r].entity.email
<1>0. /\ RecordsInv /\ CoreInv /\ AccountsInv /\ req[r] \in RequestState
      /\ req \in [Request -> RequestState] /\ RequestUndisturbed(r)
  BY DEF Undisturbed, CoreInv, RecordsInv, TypeOK, DecisionsInv
<1>1. CASE SendEmailExists(r) \/ SendUserConflict(r) \/ SendStudentConflict(r)
  <2>1. Return(r) /\ UNCHANGED <<learner, users, issued, student, past, locks>>
    BY <1>1 DEF SendEmailExists, SendUserConflict, SendStudentConflict, tables, history
  <2>2. QED
    BY <2>1, OverApart, LocksSame, DecisionsApart
<1>2. CASE SendEmailFree(r)
  <2>1. /\ req[r].pc = "send.email" /\ Goto(r, "send.user")
        /\ UNCHANGED <<learner, users, issued, student, past, locks>>
    BY <1>2 DEF SendEmailFree, At, tables, history
  <2>2. /\ OthersStay(r) /\ req'[r].pc = "send.user" /\ req'[r].learner = l
        /\ req'[r].entity = req[r].entity
    BY <1>0, <2>1, Went DEF Only, Keeps, OthersStay, Awaits
  <2>3. RequestUndisturbed(r)' /\ KeepsEntity(r)
    BY <1>0, <2>1, <2>2 DEF RequestUndisturbed, KeepsEntity, Sends, Decides, Writes, DecideAwaits
  <2>4. QED
    BY <2>1, <2>2, <2>3, LocksSame, DecisionsQuiet
<1>3. CASE SendCreateUser(r)
  <2>1. PICK u \in UserId \ issued :
          /\ users' = [users EXCEPT ![u] = e]
          /\ issued' = issued \cup {u}
          /\ req' = [req EXCEPT ![r] = [@ EXCEPT !.pc = "send.student", !.user = u]]
    BY <1>3 DEF SendCreateUser
  <2>2. /\ req[r].pc = "send.user" /\ ~ EmailTaken(e)
        /\ Reach(l, "account") /\ UNCHANGED <<learner, student, locks>>
    BY <1>3 DEF SendCreateUser, At
  <2>3. l \in Learner /\ req[r].entity \in LearnerRow /\ e \in Email
    BY <2>2, HolderCreated DEF Undisturbed, Sends, LearnerRow
  <2>4. student[l] = None
    <3>1. SUFFICES ASSUME student[l] # None
                   PROVE  FALSE
      OBVIOUS
    <3>2. PICK x : OneEmail(l, x)
      BY <2>3, SameEmail
    <3>3. student[l].email = e
      BY <2>2, <3>1, <3>2 DEF OneEmail, Sends
    <3>4. QED
      BY <1>0, <2>2, <2>3, <3>1, <3>3, Accounts DEF EmailTaken
  <2>5. /\ OthersStay(r) /\ req'[r].pc = "send.student" /\ req'[r].learner = l
        /\ req'[r].entity = req[r].entity
    BY <1>0, <2>1, UpdatesOne DEF RequestState
  <2>6. RequestUndisturbed(r)' /\ KeepsEntity(r)
    BY <1>0, <2>2, <2>4, <2>5 DEF RequestUndisturbed, KeepsEntity, Sends, Decides, Writes, DecideAwaits
  <2>7. KeepsStudents(r) /\ KeepsLearners /\ KeepsLocks(r)
    BY <2>2 DEF KeepsStudents, KeepsLearners, KeepsLocks, locks
  <2>8. \A v \in issued' : users'[v] # None
    BY <1>0, <2>1, <2>3, Accounts DEF Undisturbed, DecisionsInv, RowsUndisturbed
  <2>9. \A k \in Learner : past[k] \subseteq past'[k] /\ "removed" \notin past'[k]
    BY <1>0, <2>2 DEF RecordsInv, TypeOK, Reach, Undisturbed, DecisionsInv, RowsUndisturbed
  <2>10. \A k \in Learner :
            /\ learner'[k] # None /\ student'[k] = None => learner'[k].application_status = "Pending"
            /\ learner'[k] # None /\ student'[k] # None =>
                  learner'[k].application_status = student'[k].application_status
    BY <2>2 DEF Undisturbed, DecisionsInv, RowsUndisturbed, DecisionsAgree
  <2>11. QED
    BY <2>5, <2>6, <2>7, <2>8, <2>9, <2>10, DecisionsConcluded
<1>4. CASE SendReloadStudent(r)
  <2>. DEFINE d == IF student[l] = None THEN {} ELSE Dirty(StudentEntity(req[r]), student[l])
  <2>1. /\ req[r].pc = "send.student"
        /\ req' = [req EXCEPT ![r] = [@ EXCEPT !.pc = "send.flush", !.insert = (student[l] = None),
                                               !.dirty = d]]
        /\ UNCHANGED <<learner, users, issued, student, past, locks>>
    BY <1>4 DEF SendReloadStudent, At, tables, history
  <2>. HIDE DEF d
  <2>2. student[l] = None
    BY <1>0, <2>1 DEF RequestUndisturbed, Writes
  <2>3. /\ OthersStay(r) /\ req'[r].pc = "send.flush" /\ req'[r].insert /\ req'[r].learner = l
        /\ req'[r].entity = req[r].entity
    BY <1>0, <2>1, <2>2, UpdatesOne DEF RequestState
  <2>4. RequestUndisturbed(r)' /\ KeepsEntity(r)
    BY <1>0, <2>1, <2>2, <2>3 DEF RequestUndisturbed, KeepsEntity, Sends, Decides, Writes, DecideAwaits
  <2>5. QED
    BY <2>1, <2>3, <2>4, LocksSame, DecisionsQuiet
<1>5. CASE SendInsertStudent(r)
  <2>. DEFINE row == StudentEntity(req[r])
  <2>1. /\ req[r].pc = "send.flush" /\ student[l] = None /\ Goto(r, "send.mail")
        /\ student' = [student EXCEPT ![l] = row]
        /\ UNCHANGED <<learner, users, issued, past, locks>>
    BY <1>5 DEF SendInsertStudent, At, history
  <2>2. Writes(req[r]) /\ l \in Learner /\ req[r].entity.application_status = "Pending"
    BY <1>0, <2>1, HolderCreated DEF Writes, Sends, RequestUndisturbed, Undisturbed
  <2>3. /\ row \in StudentRow /\ row.user = req[r].user /\ row.email = e
        /\ row.application_status = "Pending" /\ row # None
    <3>1. row \in StudentRow
      BY <1>0, <2>2, Writing, StudentEntityType
    <3>2. QED
      BY <2>2, <3>1, NoneAssumption DEF StudentEntity
  <2>. HIDE DEF row
  <2>4. student'[l] = row /\ \A k \in Learner \ {l} : student'[k] = student[k]
    BY <1>0, <2>1, <2>2 DEF RecordsInv, TypeOK
  <2>5. KeepsStudents(r)
    BY <2>1, <2>2, <2>3, <2>4 DEF KeepsStudents
  <2>6. KeepsLearners /\ KeepsLocks(r)
    BY <2>1 DEF KeepsLearners, KeepsLocks, locks
  <2>7. OthersStay(r) /\ req'[r].pc = "send.mail"
    BY <1>0, <2>1, Went DEF Only, OthersStay, Awaits
  <2>8. RequestUndisturbed(r)' /\ KeepsEntity(r)
    BY <2>7 DEF RequestUndisturbed, KeepsEntity, Sends, Decides, Writes, DecideAwaits
  <2>9. \A k \in Learner :
           /\ learner'[k] # None /\ student'[k] = None => learner'[k].application_status = "Pending"
           /\ learner'[k] # None /\ student'[k] # None =>
                 learner'[k].application_status = student'[k].application_status
    BY <2>1, <2>3, <2>4 DEF Undisturbed, DecisionsInv, RowsUndisturbed, DecisionsAgree
  <2>10. \A u \in issued' : users'[u] # None
    BY <2>1 DEF Undisturbed, DecisionsInv, RowsUndisturbed
  <2>11. \A k \in Learner : past[k] \subseteq past'[k] /\ "removed" \notin past'[k]
    BY <2>1 DEF Undisturbed, DecisionsInv, RowsUndisturbed
  <2>12. QED
    BY <2>5, <2>6, <2>7, <2>8, <2>9, <2>10, <2>11, DecisionsConcluded
<1>6. CASE SendUpdateStudent(r)
  BY <1>0, <1>6 DEF SendUpdateStudent, At, RequestUndisturbed
<1>7. CASE SendMail(r)
  <2>1. /\ req[r].pc = "send.mail" /\ Goto(r, "send.mark") /\ Reach(l, "mailed")
        /\ UNCHANGED <<learner, users, issued, student, locks>>
    BY <1>7 DEF SendMail, At, tables
  <2>2. OthersStay(r) /\ req'[r].pc = "send.mark" /\ l \in Learner
    BY <1>0, <2>1, Went, Sending DEF Only, OthersStay, Awaits
  <2>3. RequestUndisturbed(r)' /\ KeepsEntity(r)
    BY <2>2 DEF RequestUndisturbed, KeepsEntity, Sends, Decides, Writes, DecideAwaits
  <2>4. QED
    BY <2>1, <2>2, <2>3, LocksSame, DecisionsQuiet DEF Milestones
<1>8. CASE SendMark(r)
  <2>. DEFINE row == [learner[l] EXCEPT !.application_mail = "Sent"]
  <2>1. /\ req[r].pc = "send.mark" /\ Return(r)
        /\ \/ learner[l] # None /\ learner' = [learner EXCEPT ![l] = row] /\ Reach(l, "sent")
           \/ UNCHANGED <<learner, past>>
        /\ UNCHANGED <<users, issued, student, locks>>
    BY <1>8 DEF SendMark, At, history
  <2>2. CASE UNCHANGED <<learner, past>>
    BY <2>1, <2>2, OverApart, LocksSame, DecisionsApart
  <2>3. CASE learner[l] # None /\ learner' = [learner EXCEPT ![l] = row] /\ Reach(l, "sent")
    <3>1. l \in Learner /\ learner[l] \in LearnerRow
      BY <1>0, <2>1, <2>3, Sending DEF RecordsInv, TypeOK
    <3>2. row.email = learner[l].email /\ row.application_status = learner[l].application_status
      BY <3>1 DEF LearnerRow
    <3>. HIDE DEF row
    <3>3. learner'[l] = row /\ \A k \in Learner \ {l} : learner'[k] = learner[k]
      BY <1>0, <2>3, <3>1 DEF RecordsInv, TypeOK
    <3>4. KeepsStudents(r) /\ KeepsLearners /\ KeepsLocks(r)
      BY <2>1, <2>3, <3>2, <3>3 DEF KeepsStudents, KeepsLearners, KeepsLocks, locks
    <3>5. \A k \in Learner :
             /\ learner'[k] # None /\ student'[k] = None => learner'[k].application_status = "Pending"
             /\ learner'[k] # None /\ student'[k] # None =>
                   learner'[k].application_status = student'[k].application_status
      BY <2>1, <2>3, <3>2, <3>3 DEF Undisturbed, DecisionsInv, RowsUndisturbed, DecisionsAgree
    <3>6. \A u \in issued' : users'[u] # None
      BY <2>1 DEF Undisturbed, DecisionsInv, RowsUndisturbed
    <3>7. \A k \in Learner : past[k] \subseteq past'[k] /\ "removed" \notin past'[k]
      BY <1>0, <2>3 DEF RecordsInv, TypeOK, Reach, Undisturbed, DecisionsInv, RowsUndisturbed
    <3>8. QED
      BY <2>1, <3>4, <3>5, <3>6, <3>7, OverApart, ApartUndisturbed, DecisionsConcluded
  <2>4. QED
    BY <2>1, <2>2, <2>3
<1>9. QED
  BY <1>1, <1>2, <1>3, <1>4, <1>5, <1>6, <1>7, <1>8 DEF SendStep

\* The recruiter's steps: a learner that is new has no past, and no row of
\* the learner that is deleted is left.
LEMMA RecordDecisions ==
  ASSUME Undisturbed, CoreInv', NEW r \in Request, RecordStep(r)
  PROVE  DecisionsInv'
<1>0. RecordsInv /\ RequestUndisturbed(r) /\ learner \in [Learner -> LearnerRow \cup {None}]
  BY DEF Undisturbed, CoreInv, RecordsInv, TypeOK, DecisionsInv
<1>1. \A u \in issued : users[u] # None
  BY DEF Undisturbed, DecisionsInv, RowsUndisturbed
<1>2. CASE InsertLearner(r)
  <2>1. PICK l \in Learner : /\ past[l] = {} /\ Reach(l, "created")
                             /\ learner' = [learner EXCEPT ![l] = req[r].entity]
    BY <1>2 DEF InsertLearner
  <2>2. /\ req[r].pc = "create.insert" /\ Return(r)
        /\ UNCHANGED <<users, issued, student, locks>>
    BY <1>2 DEF InsertLearner, At
  <2>3. learner'[l] = req[r].entity /\ \A k \in Learner \ {l} : learner'[k] = learner[k]
    BY <1>0, <2>1
  <2>4. req[r].entity.application_status = "Pending" /\ student[l] = None
    BY <1>0, <2>1, <2>2 DEF RequestUndisturbed, Undisturbed, DecisionsInv, RowsUndisturbed
  <2>5. KeepsStudents(r) /\ KeepsLearners /\ KeepsLocks(r)
    BY <2>1, <2>2, <2>3 DEF KeepsStudents, KeepsLearners, KeepsLocks, locks
  <2>6. \A k \in Learner :
           /\ learner'[k] # None /\ student'[k] = None => learner'[k].application_status = "Pending"
           /\ learner'[k] # None /\ student'[k] # None =>
                 learner'[k].application_status = student'[k].application_status
    BY <2>2, <2>3, <2>4 DEF Undisturbed, DecisionsInv, RowsUndisturbed, DecisionsAgree
  <2>7. \A k \in Learner : past[k] \subseteq past'[k] /\ "removed" \notin past'[k]
    BY <1>0, <2>1 DEF RecordsInv, TypeOK, Reach, Undisturbed, DecisionsInv, RowsUndisturbed
  <2>8. QED
    BY <1>1, <2>2, <2>5, <2>6, <2>7, OverApart, ApartUndisturbed, DecisionsConcluded
<1>3. CASE DeleteLearnerRow(r)
  <2>1. /\ learner' = [learner EXCEPT ![req[r].learner] = None] /\ Return(r)
        /\ UNCHANGED <<users, issued, student, past, locks>>
    BY <1>3 DEF DeleteLearnerRow, history
  <2>2. \A k \in Learner : learner'[k] # None => learner'[k] = learner[k]
    BY <1>0, <2>1
  <2>3. KeepsStudents(r) /\ KeepsLearners /\ KeepsLocks(r)
    BY <2>1, <2>2 DEF KeepsStudents, KeepsLearners, KeepsLocks, locks
  <2>4. \A k \in Learner :
           /\ learner'[k] # None /\ student'[k] = None => learner'[k].application_status = "Pending"
           /\ learner'[k] # None /\ student'[k] # None =>
                 learner'[k].application_status = student'[k].application_status
    BY <2>1, <2>2 DEF Undisturbed, DecisionsInv, RowsUndisturbed, DecisionsAgree
  <2>5. \A k \in Learner : past[k] \subseteq past'[k] /\ "removed" \notin past'[k]
    BY <2>1 DEF Undisturbed, DecisionsInv, RowsUndisturbed
  <2>6. QED
    BY <1>1, <2>1, <2>3, <2>4, <2>5, OverApart, ApartUndisturbed, DecisionsConcluded
<1>4. CASE DeleteRefused(r)
  <2>1. Return(r) /\ UNCHANGED <<learner, users, issued, student, past, locks>>
    BY <1>4 DEF DeleteRefused, tables, history
  <2>2. QED
    BY <2>1, OverApart, LocksSame, DecisionsApart
<1>5. CASE MeetingMail(r) \/ Reload(r) \/ FlushInsert(r) \/ FlushUpdate(r)
  BY <1>0, <1>5 DEF MeetingMail, Reload, FlushInsert, FlushUpdate, At, RequestUndisturbed
<1>6. QED
  BY <1>2, <1>3, <1>4, <1>5 DEF RecordStep

LEMMA FormDecisions ==
  ASSUME Undisturbed, CoreInv', NEW r \in Request, FormStep(r)
  PROVE  DecisionsInv'
<1>1. CoreInv /\ RecordsInv /\ req[r] \in RequestState
  BY DEF Undisturbed, CoreInv, RecordsInv, TypeOK
<1>2. UNCHANGED <<learner, users, issued, student, past, locks>>
  BY DEF FormStep, InsertSubmission, InsertRefused, ReloadForm, FlushForm, SaveFormFails,
     tables, history
<1>3. OthersStay(r) /\ req'[r].pc \in {"done", "form.save"}
  <2>1. CASE Return(r)
    BY <1>1, <2>1, OverPc
  <2>2. ASSUME NEW s \in Submission, ReloadForm(r, s)
        PROVE  OthersStay(r) /\ req'[r].pc = "form.save"
    BY <1>1, <2>2 DEF ReloadForm, At, RequestState, RecordsInv, TypeOK, OthersStay
  <2>3. ASSUME NEW s \in Submission, SaveOver(r, s), At(r, "form.save")
        PROVE  OthersStay(r) /\ req'[r].pc \in {"done", "form.save"}
    <3>1. CASE req' = [req EXCEPT ![r] = [@ EXCEPT !.formPhase[s] = "none", !.formDirty[s] = {},
                                                   !.forms[s] = None]]
      BY <1>1, <2>3, <3>1 DEF At, RequestState, RecordsInv, TypeOK, OthersStay
    <3>2. QED
      BY <2>1, <2>3, <3>1 DEF SaveOver
  <2>4. QED
    BY <2>1, <2>2, <2>3 DEF FormStep, InsertSubmission, InsertRefused, FlushForm, SaveFormFails
<1>4. QED
  BY <1>2, <1>3, LocksSame, DecisionsApart DEF Apart

\* A decision writes both rows of its learner, or the one that is left.
LEMMA DecideDecisions ==
  ASSUME Undisturbed, CoreInv', NEW r \in Request, DecideStep(r)
  PROVE  DecisionsInv'
<1>. DEFINE l == req[r].learner
            p == req[r].peer
<1>0. /\ RecordsInv /\ CoreInv /\ AccountsInv /\ RequestUndisturbed(r)
      /\ req \in [Request -> RequestState] /\ req[r] \in RequestState
  BY DEF Undisturbed, CoreInv, RecordsInv, TypeOK, DecisionsInv
<1>1. Decides(req[r]) /\ l \in Learner /\ student[l] # None
  <2>1. Decides(req[r])
    BY DEF DecideStep, DecideFindStudent, DecideNoStudent, DecideBegin, DecideReload,
       DecideCommit, At, Decides, DecideAwaits
  <2>2. QED
    BY <1>0, <2>1, HolderCreated DEF RequestUndisturbed
<1>2. CASE DecideFindStudent(r)
  <2>1. PICK s \in Learner : /\ student[s] # None /\ student[s].email = req[r].entity.email
                             /\ req' = [req EXCEPT ![r] = [@ EXCEPT !.pc = "decide.begin", !.peer = s]]
    BY <1>2 DEF DecideFindStudent
  <2>2. req[r].pc = "decide.student" /\ UNCHANGED <<learner, users, issued, student, past, locks>>
    BY <1>2 DEF DecideFindStudent, At, tables, history
  <2>3. s = l
    <3>1. PICK e : OneEmail(l, e)
      BY <1>1, SameEmail
    <3>2. student[s].email = student[l].email
      BY <1>1, <2>1, <3>1 DEF OneEmail
    <3>3. student[s].user = student[l].user
      <4>1. /\ student[s].user \in UserId /\ student[l].user \in UserId
            /\ users[student[s].user] = users[student[l].user] /\ users[student[s].user] # None
        BY <1>0, <1>1, <2>1, <3>2, Accounts
      <4>2. QED
        BY <1>0, <4>1 DEF AccountsInv, UsersTrue
    <3>4. QED
      BY <1>1, <2>1, <3>3 DEF Undisturbed, DecisionsInv, RowsUndisturbed
  <2>4. /\ OthersStay(r) /\ req'[r].pc = "decide.begin" /\ req'[r].learner = l
        /\ req'[r].peer = l /\ req'[r].entity = req[r].entity
    BY <1>0, <2>1, <2>3, UpdatesOne DEF RequestState
  <2>5. RequestUndisturbed(r)' /\ KeepsEntity(r)
    BY <1>1, <2>2, <2>4 DEF RequestUndisturbed, KeepsEntity, Sends, Decides, Writes, DecideAwaits
  <2>6. QED
    BY <2>2, <2>4, <2>5, LocksSame, DecisionsQuiet
<1>3. CASE DecideNoStudent(r)
  <2>1. Return(r) /\ UNCHANGED <<learner, users, issued, student, past, locks>>
    BY <1>3 DEF DecideNoStudent, tables, history
  <2>2. QED
    BY <2>1, OverApart, LocksSame, DecisionsApart
<1>4. CASE DecideBegin(r)
  <2>1. /\ req[r].pc = "decide.begin" /\ Writable(l) /\ StudentWritable(p)
        /\ lock' = [lock EXCEPT ![l] = IF learner[l] = None THEN None ELSE r]
        /\ studentLock' = [studentLock EXCEPT ![p] = IF student[p] = None THEN None ELSE r]
        /\ UNCHANGED <<learner, users, issued, student, past>>
    BY <1>4 DEF DecideBegin, At, tables, history
  <2>2. p = l
    BY <1>0, <1>1, <2>1 DEF RequestUndisturbed
  <2>3. lock \in [Learner -> Request \cup {None}] /\ studentLock \in [Learner -> Request \cup {None}]
    BY <1>0 DEF RecordsInv, TypeOK
  <2>4. studentLock'[l] = r /\ (learner[l] # None => lock'[l] = r)
    BY <1>1, <2>1, <2>2, <2>3
  <2>5. KeepsLocks(r)
    BY <1>1, <2>1, <2>2, <2>3 DEF KeepsLocks, Writable, StudentWritable
  <2>6. /\ OthersStay(r) /\ req'[r].pc = "decide.reload" /\ req'[r].learner = l
        /\ req'[r].peer = l /\ req'[r].entity = req[r].entity
    BY <1>0, <1>4, <2>2, UpdatesOne DEF DecideBegin, RequestState
  <2>7. RequestUndisturbed(r)' /\ KeepsEntity(r)
    BY <1>1, <2>1, <2>4, <2>6 DEF RequestUndisturbed, KeepsEntity, Sends, Decides, Writes, DecideAwaits
  <2>8. QED
    BY <2>1, <2>5, <2>6, <2>7, DecisionsQuiet
<1>5. CASE DecideReload(r)
  <2>1. req[r].pc = "decide.reload" /\ UNCHANGED <<learner, users, issued, student, past, locks>>
    BY <1>5 DEF DecideReload, At, tables, history
  <2>2. /\ OthersStay(r) /\ req'[r].pc = "decide.commit" /\ req'[r].learner = l
        /\ req'[r].peer = p /\ req'[r].entity = req[r].entity
    BY <1>0, <1>5, UpdatesOne DEF DecideReload, RequestState
  <2>3. RequestUndisturbed(r)' /\ KeepsEntity(r)
    BY <1>0, <1>1, <2>1, <2>2 DEF RequestUndisturbed, KeepsEntity, Sends, Decides, Writes,
       DecideAwaits, locks
  <2>4. QED
    BY <2>1, <2>2, <2>3, LocksSame, DecisionsQuiet
<1>6. CASE DecideCommit(r)
  <2>. DEFINE v == req[r].verdict
              row == [learner[l] EXCEPT !.application_status = v]
              copy == [student[l] EXCEPT !.application_status = v]
  <2>1. /\ req[r].pc = "decide.commit" /\ Return(r) /\ UNCHANGED <<users, issued>>
        /\ lock' = [k \in Learner |-> IF lock[k] = r THEN None ELSE lock[k]]
        /\ studentLock' = [k \in Learner |-> IF studentLock[k] = r THEN None ELSE studentLock[k]]
    BY <1>6 DEF DecideCommit, At
  <2>2. p = l /\ studentLock[l] = r /\ (learner[l] # None => lock[l] = r)
    BY <1>0, <1>1, <2>1 DEF RequestUndisturbed
  <2>3. student' = [student EXCEPT ![l] = copy]
    BY <1>6, <2>2 DEF DecideCommit
  <2>4. \/ lock[l] = r /\ learner' = [learner EXCEPT ![l] = row]
        \/ learner[l] = None /\ learner' = learner
    BY <1>6, <2>2 DEF DecideCommit
  <2>5. learner[l] \in LearnerRow \cup {None} /\ student[l] \in StudentRow
    BY <1>0, <1>1 DEF RecordsInv, TypeOK
  <2>6. copy.email = student[l].email /\ copy.user = student[l].user /\ copy.application_status = v
    BY <2>5 DEF StudentRow
  <2>7. learner[l] # None => row.email = learner[l].email /\ row.application_status = v
    BY <2>5 DEF LearnerRow
  <2>8. lock[l] = r => learner[l] # None
    BY <1>1, NoneAssumption DEF Undisturbed, CoreInv, LocksHeldByDecisions
  <2>9. \A k \in Learner : student'[k] = IF k = l THEN copy ELSE student[k]
    BY <1>0, <1>1, <2>3 DEF RecordsInv, TypeOK
  <2>. HIDE DEF row, copy
  <2>10. \A k \in Learner : /\ k # l => learner'[k] = learner[k]
                            /\ k = l => \/ learner[l] # None /\ learner'[l] = row
                                        \/ learner[l] = None /\ learner'[l] = None
    BY <1>0, <1>1, <2>4, <2>8 DEF RecordsInv, TypeOK
  <2>11. copy # None
    <3>1. copy \in StudentRow
      BY <1>0, <1>1, <2>5, Deciding DEF copy, StudentRow, Decides
    <3>2. QED
      BY <3>1, NoneAssumption
  <2>12. KeepsStudents(r)
    BY <1>1, <2>6, <2>9, <2>11 DEF KeepsStudents
  <2>13. KeepsLearners
    BY <1>1, <2>7, <2>10 DEF KeepsLearners
  <2>14. KeepsLocks(r)
    BY <2>1 DEF KeepsLocks
  <2>15. \A k \in Learner :
            /\ learner'[k] # None /\ student'[k] = None => learner'[k].application_status = "Pending"
            /\ learner'[k] # None /\ student'[k] # None =>
                  learner'[k].application_status = student'[k].application_status
    BY <2>6, <2>7, <2>9, <2>10, <2>11 DEF Undisturbed, DecisionsInv, RowsUndisturbed, DecisionsAgree
  <2>16. \A u \in issued' : users'[u] # None
    BY <2>1 DEF Undisturbed, DecisionsInv, RowsUndisturbed
  <2>17. \A k \in Learner : past[k] \subseteq past'[k] /\ "removed" \notin past'[k]
    <3>1. past' = past \/ \E m \in {"approved", "rejected"} : Reach(l, m)
      BY <1>6 DEF DecideCommit, history
    <3>2. QED
      BY <1>0, <1>1, <3>1 DEF RecordsInv, TypeOK, Reach, Undisturbed, DecisionsInv, RowsUndisturbed
  <2>18. QED
    BY <2>1, <2>12, <2>13, <2>14, <2>15, <2>16, <2>17, OverApart, ApartUndisturbed, DecisionsConcluded
<1>7. QED
  BY <1>2, <1>3, <1>4, <1>5, <1>6 DEF DecideStep

LEMMA InitDecisions == Init => DecisionsInv
<1>. SUFFICES ASSUME Init
              PROVE  DecisionsInv
  OBVIOUS
<1>1. \A r \in Request : req[r].pc = "idle"
  BY DEF Init, Idle, Holding
<1>2. \A l \in Learner : student[l] = None /\ "removed" \notin past[l]
  BY DEF Init
<1>3. issued = {}
  BY DEF Init
<1>4. \A l \in Learner : learner[l] # None =>
         learner[l].application_status = "Pending" /\ learner[l].email \in Email
  <2>. TAKE l \in Learner
  <2>. HAVE learner[l] # None
  <2>1. PICK e \in Email : learner[l] = NewLearner(e)
    BY Zenon DEF Init
  <2>2. NewLearner(e).application_status = "Pending" /\ NewLearner(e).email = e
    BY DEF NewLearner
  <2>3. QED
    BY <2>1, <2>2
<1>5. \A r \in Request : ~ Sends(req[r]) /\ ~ Decides(req[r]) /\ ~ Writes(req[r])
  BY <1>1 DEF Sends, Decides, Writes, DecideAwaits
<1>6. \A l \in Learner : \E e \in Email \cup {None} : OneEmail(l, e)
  BY <1>2, <1>4, <1>5 DEF OneEmail
<1>7. \A r \in Request : RequestUndisturbed(r)
  BY <1>1, <1>5 DEF RequestUndisturbed
<1>8. QED
  BY <1>2, <1>3, <1>4, <1>6, <1>7 DEF DecisionsInv, DecisionsAgree, RowsUndisturbed

LEMMA NextDecisions ==
  ASSUME Handlers \cap Disturbing = {}
  PROVE  Undisturbed /\ CoreInv' /\ [Next]_vars => DecisionsInv'
<1>. SUFFICES ASSUME Undisturbed, CoreInv', [Next]_vars
              PROVE  DecisionsInv'
  OBVIOUS
<1>1. ASSUME NEW r \in Request, ClientCall(r)
      PROVE  DecisionsInv'
  BY <1>1, CallDecisions
<1>2. ASSUME NEW r \in Request, HandlerStep(r)
      PROVE  DecisionsInv'
  BY <1>2, SendDecisions, RecordDecisions, FormDecisions, DecideDecisions DEF HandlerStep
<1>3. ASSUME NEW r \in Request, Fail(r)
      PROVE  DecisionsInv'
  <2>1. Return(r) /\ UNCHANGED <<learner, users, issued, student, past>>
    BY <1>3 DEF Fail, tables, history
  <2>2. KeepsLocks(r)
    BY <1>3 DEF Fail, KeepsLocks
  <2>3. QED
    BY <2>1, <2>2, OverApart, DecisionsApart
<1>4. CASE UNCHANGED vars
  BY <1>4 DEF vars, Undisturbed, DecisionsInv, DecisionsAgree, RowsUndisturbed, OneEmail,
     RequestUndisturbed, Sends, Decides, Writes
<1>5. QED
  BY <1>1, <1>2, <1>3, <1>4 DEF Next

\* The learner's row and its students row say the same about the application,
\* for any number of learners, e-mails shared by several of them, and sends,
\* decisions and deletions of learners at once, and whichever of them fail or
\* die, as long as no handler saves whole rows and no account is removed.
THEOREM TheDecisionsAgree ==
  ASSUME Handlers \cap Disturbing = {}
  PROVE  Spec => []DecisionsAgree
<1>1. DecisionsInv => DecisionsAgree
  BY DEF DecisionsInv
<1>2. Spec => [](CoreInv /\ AccountsInv)
  <2>1. IInv => CoreInv /\ AccountsInv
    BY DEF IInv
  <2>2. QED
    BY <2>1, Invariant, PTL
<1>3. CoreInv /\ AccountsInv /\ DecisionsInv /\ CoreInv' /\ [Next]_vars => DecisionsInv'
  BY NextDecisions DEF Undisturbed
<1>4. Spec => []DecisionsInv
  BY <1>2, <1>3, InitDecisions, PTL DEF Spec
<1>5. QED
  BY <1>1, <1>4, PTL
=============================================================================
