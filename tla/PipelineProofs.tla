--------------------------- MODULE PipelineProofs ---------------------------
(***************************************************************************)
(* RecordsInv and CoreInv are invariants of the pipeline, for any number   *)
(* of learners, accounts, forms and concurrent requests and any set of     *)
(* handlers.  First the lemmas about save(), about the request that moves, *)
(* and about the milestones and rows a step may change; then one lemma per *)
(* action, module by module; then the theorems.                            *)
(***************************************************************************)
EXTENDS Pipeline, TLAPS

-----------------------------------------------------------------------------
(* Rows and save(). *)

\* Whatever columns save() writes, the row it leaves is a row, and it shows
\* no more than the row and the entity did.
LEMMA WriteBackLearner ==
  ASSUME NEW row \in LearnerRow, NEW entity \in LearnerRow, NEW columns
  PROVE  /\ WriteBack(row, entity, columns) \in LearnerRow
         /\ Shown(WriteBack(row, entity, columns))
               \subseteq Shown(row) \cup Shown(entity)
<1>. DEFINE w == WriteBack(row, entity, columns)
<1>1. DOMAIN row = {"email", "application_mail", "application_status",
                    "inductor_status", "attendance_status", "lazer_status",
                    "certificate_status", "is_archived"}
  BY DEF LearnerRow
<1>2. w = [c \in DOMAIN row |-> IF c \in columns THEN entity[c] ELSE row[c]]
  BY DEF WriteBack
<1>3. \A c \in DOMAIN row : w[c] = row[c] \/ w[c] = entity[c]
  BY <1>2
<1>4. w = [ email              |-> w.email,
            application_mail   |-> w.application_mail,
            application_status |-> w.application_status,
            inductor_status    |-> w.inductor_status,
            attendance_status  |-> w.attendance_status,
            lazer_status       |-> w.lazer_status,
            certificate_status |-> w.certificate_status,
            is_archived        |-> w.is_archived ]
  BY <1>1, <1>2
<1>5. w.email \in Email /\ w.application_mail \in {"Not sent", "Sent"}
  BY <1>1, <1>3 DEF LearnerRow
<1>6. /\ w.application_status \in {"Pending", "Approved", "Rejected"}
      /\ w.inductor_status \in {"Not sent", "Sent"}
  BY <1>1, <1>3 DEF LearnerRow
<1>7. /\ w.attendance_status \in {"absent", "present"}
      /\ w.lazer_status \in {"Pending", "Approved"}
      /\ w.certificate_status \in {"Pending", "Approved"}
  BY <1>1, <1>3 DEF LearnerRow
<1>8. w.is_archived \in BOOLEAN
  BY <1>1, <1>3 DEF LearnerRow
<1>9. /\ w.application_mail \in {row.application_mail, entity.application_mail}
      /\ w.application_status \in
            {row.application_status, entity.application_status}
      /\ w.inductor_status \in {row.inductor_status, entity.inductor_status}
      /\ w.attendance_status \in
            {row.attendance_status, entity.attendance_status}
  BY <1>1, <1>3
<1>. HIDE DEF w
<1>10. w \in LearnerRow
  BY <1>4, <1>5, <1>6, <1>7, <1>8 DEF LearnerRow
<1>11. Shown(w) \subseteq Shown(row) \cup Shown(entity)
  BY <1>9, <1>10, NoneAssumption DEF Shown
<1>12. QED
  BY <1>10, <1>11 DEF w

LEMMA WriteBackStudent ==
  ASSUME NEW row \in StudentRow, NEW entity \in StudentRow, NEW columns
  PROVE  WriteBack(row, entity, columns) \in StudentRow
  BY DEF WriteBack, StudentRow

LEMMA WriteBackSubmission ==
  ASSUME NEW row \in SubmissionRow, NEW entity \in SubmissionRow, NEW columns
  PROVE  WriteBack(row, entity, columns) \in SubmissionRow
  BY DEF WriteBack, SubmissionRow

LEMMA DirtyColumns ==
  /\ \A row \in LearnerRow : \A e : Dirty(e, row) \subseteq Columns
  /\ \A row \in StudentRow : \A e : Dirty(e, row) \subseteq Columns
  /\ \A row \in SubmissionRow : \A e : Dirty(e, row) \subseteq FormColumns
  BY DEF Dirty, LearnerRow, StudentRow, SubmissionRow, Columns, FormColumns

LEMMA NewLearnerType ==
  ASSUME NEW e \in Email
  PROVE  NewLearner(e) \in LearnerRow /\ Shown(NewLearner(e)) = {}
  BY DEF NewLearner, LearnerRow, Shown

\* What the handlers' changes to a row add to what it shows.
LEMMA ShownMore ==
  ASSUME NEW row \in LearnerRow, NEW w \in LearnerRow, NEW S,
         w.application_mail = "Sent" =>
            row.application_mail = "Sent" \/ "sent" \in S,
         w.application_status = "Approved" =>
            row.application_status = "Approved" \/ "approved" \in S,
         w.application_status = "Rejected" =>
            row.application_status = "Rejected" \/ "rejected" \in S,
         w.inductor_status = "Sent" =>
            row.inductor_status = "Sent" \/ "linked" \in S,
         w.attendance_status = "present" =>
            row.attendance_status = "present" \/ "present" \in S
  PROVE  Shown(w) \subseteq Shown(row) \cup S
  BY NoneAssumption DEF Shown

LEMMA EditedRow ==
  ASSUME NEW row \in LearnerRow
  PROVE  /\ \A e \in Email :
               LET w == [row EXCEPT !.email = e] IN
               w \in LearnerRow /\ Shown(w) \subseteq Shown(row)
         /\ LET w == [row EXCEPT !.lazer_status = "Approved"] IN
               w \in LearnerRow /\ Shown(w) \subseteq Shown(row)
         /\ LET w == [row EXCEPT !.certificate_status = "Approved"] IN
               w \in LearnerRow /\ Shown(w) \subseteq Shown(row)
         /\ \A b \in BOOLEAN :
               LET w == [row EXCEPT !.is_archived = b] IN
               w \in LearnerRow /\ Shown(w) \subseteq Shown(row)
<1>1. ASSUME NEW w \in LearnerRow,
             w.application_mail = row.application_mail,
             w.application_status = row.application_status,
             w.inductor_status = row.inductor_status,
             w.attendance_status = row.attendance_status
      PROVE  Shown(w) \subseteq Shown(row)
  <2>1. Shown(w) \subseteq Shown(row) \cup {}
    BY <1>1, ShownMore
  <2>2. QED
    BY <2>1
<1>2. ASSUME NEW e \in Email
      PROVE  LET w == [row EXCEPT !.email = e] IN
             w \in LearnerRow /\ Shown(w) \subseteq Shown(row)
  <2>. DEFINE w == [row EXCEPT !.email = e]
  <2>1. /\ w \in LearnerRow
        /\ w.application_mail = row.application_mail
        /\ w.application_status = row.application_status
        /\ w.inductor_status = row.inductor_status
        /\ w.attendance_status = row.attendance_status
    BY DEF LearnerRow
  <2>2. QED
    BY <2>1, <1>1
<1>3. LET w == [row EXCEPT !.lazer_status = "Approved"] IN
      w \in LearnerRow /\ Shown(w) \subseteq Shown(row)
  <2>. DEFINE w == [row EXCEPT !.lazer_status = "Approved"]
  <2>1. /\ w \in LearnerRow
        /\ w.application_mail = row.application_mail
        /\ w.application_status = row.application_status
        /\ w.inductor_status = row.inductor_status
        /\ w.attendance_status = row.attendance_status
    BY DEF LearnerRow
  <2>2. QED
    BY <2>1, <1>1
<1>4. LET w == [row EXCEPT !.certificate_status = "Approved"] IN
      w \in LearnerRow /\ Shown(w) \subseteq Shown(row)
  <2>. DEFINE w == [row EXCEPT !.certificate_status = "Approved"]
  <2>1. /\ w \in LearnerRow
        /\ w.application_mail = row.application_mail
        /\ w.application_status = row.application_status
        /\ w.inductor_status = row.inductor_status
        /\ w.attendance_status = row.attendance_status
    BY DEF LearnerRow
  <2>2. QED
    BY <2>1, <1>1
<1>5. ASSUME NEW b \in BOOLEAN
      PROVE  LET w == [row EXCEPT !.is_archived = b] IN
             w \in LearnerRow /\ Shown(w) \subseteq Shown(row)
  <2>. DEFINE w == [row EXCEPT !.is_archived = b]
  <2>1. /\ w \in LearnerRow
        /\ w.application_mail = row.application_mail
        /\ w.application_status = row.application_status
        /\ w.inductor_status = row.inductor_status
        /\ w.attendance_status = row.attendance_status
    BY DEF LearnerRow
  <2>2. QED
    BY <2>1, <1>1
<1>6. QED
  BY <1>2, <1>3, <1>4, <1>5

LEMMA StagedRow ==
  ASSUME NEW row \in LearnerRow
  PROVE  /\ LET w == [row EXCEPT !.application_mail = "Sent"] IN
               w \in LearnerRow /\ Shown(w) \subseteq Shown(row) \cup {"sent"}
         /\ LET w == [row EXCEPT !.application_status = "Approved"] IN
               w \in LearnerRow /\ Shown(w) \subseteq Shown(row) \cup {"approved"}
         /\ LET w == [row EXCEPT !.application_status = "Rejected"] IN
               w \in LearnerRow /\ Shown(w) \subseteq Shown(row) \cup {"rejected"}
         /\ LET w == [row EXCEPT !.inductor_status = "Sent"] IN
               w \in LearnerRow /\ Shown(w) \subseteq Shown(row) \cup {"linked"}
         /\ LET w == [row EXCEPT !.attendance_status = "present"] IN
               w \in LearnerRow /\ Shown(w) \subseteq Shown(row) \cup {"present"}
         /\ LET w == [row EXCEPT !.attendance_status = "absent"] IN
               w \in LearnerRow /\ Shown(w) \subseteq Shown(row) \cup {}
<1>1. LET w == [row EXCEPT !.application_mail = "Sent"] IN
      w \in LearnerRow /\ Shown(w) \subseteq Shown(row) \cup {"sent"}
  <2>. DEFINE w == [row EXCEPT !.application_mail = "Sent"]
  <2>1. /\ w \in LearnerRow
        /\ w.application_status = row.application_status
        /\ w.inductor_status = row.inductor_status
        /\ w.attendance_status = row.attendance_status
    BY DEF LearnerRow
  <2>. QED
    BY <2>1, ShownMore
<1>2. LET w == [row EXCEPT !.application_status = "Approved"] IN
      w \in LearnerRow /\ Shown(w) \subseteq Shown(row) \cup {"approved"}
  <2>. DEFINE w == [row EXCEPT !.application_status = "Approved"]
  <2>1. /\ w \in LearnerRow
        /\ w.application_mail = row.application_mail
        /\ w.application_status = "Approved"
        /\ w.inductor_status = row.inductor_status
        /\ w.attendance_status = row.attendance_status
    BY DEF LearnerRow
  <2>. QED
    BY <2>1, ShownMore
<1>3. LET w == [row EXCEPT !.application_status = "Rejected"] IN
      w \in LearnerRow /\ Shown(w) \subseteq Shown(row) \cup {"rejected"}
  <2>. DEFINE w == [row EXCEPT !.application_status = "Rejected"]
  <2>1. /\ w \in LearnerRow
        /\ w.application_mail = row.application_mail
        /\ w.application_status = "Rejected"
        /\ w.inductor_status = row.inductor_status
        /\ w.attendance_status = row.attendance_status
    BY DEF LearnerRow
  <2>. QED
    BY <2>1, ShownMore
<1>4. LET w == [row EXCEPT !.inductor_status = "Sent"] IN
      w \in LearnerRow /\ Shown(w) \subseteq Shown(row) \cup {"linked"}
  <2>. DEFINE w == [row EXCEPT !.inductor_status = "Sent"]
  <2>1. /\ w \in LearnerRow
        /\ w.application_mail = row.application_mail
        /\ w.application_status = row.application_status
        /\ w.attendance_status = row.attendance_status
    BY DEF LearnerRow
  <2>. QED
    BY <2>1, ShownMore
<1>5. LET w == [row EXCEPT !.attendance_status = "present"] IN
      w \in LearnerRow /\ Shown(w) \subseteq Shown(row) \cup {"present"}
  <2>. DEFINE w == [row EXCEPT !.attendance_status = "present"]
  <2>1. /\ w \in LearnerRow
        /\ w.application_mail = row.application_mail
        /\ w.application_status = row.application_status
        /\ w.inductor_status = row.inductor_status
    BY DEF LearnerRow
  <2>. QED
    BY <2>1, ShownMore
<1>6. LET w == [row EXCEPT !.attendance_status = "absent"] IN
      w \in LearnerRow /\ Shown(w) \subseteq Shown(row) \cup {}
  <2>. DEFINE w == [row EXCEPT !.attendance_status = "absent"]
  <2>1. /\ w \in LearnerRow
        /\ w.application_mail = row.application_mail
        /\ w.application_status = row.application_status
        /\ w.inductor_status = row.inductor_status
        /\ w.attendance_status = "absent"
    BY DEF LearnerRow
  <2>. QED
    BY <2>1, ShownMore
<1>7. QED
  BY <1>1, <1>2, <1>3, <1>4, <1>5, <1>6

-----------------------------------------------------------------------------
(* What a step does to the requests. *)

\* The locals of a request are right, before and after it moves.
RequestTrue(q) == LocalsSet(q) /\ EntityTrue(q) /\ AwaitReached(q)

LEMMA HoldingType ==
  ASSUME NEW pc \in {"idle", "done"} \cup Awaits,
         NEW l \in Learner \cup {None}, NEW e \in LearnerRow \cup {None}
  PROVE  Holding(pc, l, e) \in RequestState
  BY DEF Holding, RequestState, NoForms, NoPhases, NoDirty

LEMMA NotStarted ==
  ASSUME NEW pc \in {"idle", "done"}
  PROVE  /\ Holding(pc, None, None) \in RequestState
         /\ RequestTrue(Holding(pc, None, None))
  BY HoldingType DEF Holding, RequestTrue, LocalsSet, EntityTrue, AwaitReached,
                     NoForms, NoPhases, Awaits, SendAwaits, DecideAwaits

\* A step of r leaves the other requests' knowledge true as long as the past
\* only grows and no form disappears.
LEMMA OthersTrue ==
  ASSUME RecordsInv, NEW r \in Request,
         \A o \in Request \ {r} : req'[o] = req[o],
         \A l \in Learner : past[l] \subseteq past'[l],
         \A s \in Submission : submission[s] # None => submission'[s] # None,
         RequestTrue(req[r])'
  PROVE  RequestsTrue'
<1>. SUFFICES ASSUME NEW o \in Request, o # r
              PROVE  RequestTrue(req[o])'
  BY DEF RequestsTrue, RequestTrue
<1>1. LocalsSet(req[o]) /\ EntityTrue(req[o]) /\ AwaitReached(req[o])
  BY DEF RecordsInv, RequestsTrue
<1>2. req'[o] = req[o]
  OBVIOUS
<1>3. LocalsSet(req[o])'
  BY <1>1, <1>2 DEF LocalsSet
<1>4. req[o].pc \in Awaits \ {"create.insert"} => req[o].learner \in Learner
  BY <1>1 DEF LocalsSet
<1>5. EntityTrue(req[o])'
  BY <1>1, <1>2, <1>4 DEF EntityTrue, SendAwaits, DecideAwaits, Awaits
<1>6. AwaitReached(req[o])'
  BY <1>1, <1>2, <1>4 DEF AwaitReached, SendAwaits, DecideAwaits, Awaits
<1>7. QED
  BY <1>3, <1>5, <1>6 DEF RequestTrue

\* Only r's own state changes.
Only(r) ==
    /\ req' \in [Request -> RequestState]
    /\ \A o \in Request \ {r} : req'[o] = req[o]

LEMMA Returned ==
  ASSUME RecordsInv, NEW r \in Request, Return(r)
  PROVE  Only(r) /\ RequestTrue(req[r])'
<1>1. req'[r] = Done /\ Only(r)
  BY NotStarted DEF Return, Done, RecordsInv, TypeOK, Only
<1>2. /\ req'[r].pc = "done"
      /\ req'[r].forms = NoForms
      /\ req'[r].formPhase = NoPhases
  BY <1>1 DEF Done, Holding
<1>3. QED
  BY <1>1, <1>2 DEF RequestTrue, LocalsSet, EntityTrue, AwaitReached, NoForms,
                    NoPhases, Awaits, SendAwaits, DecideAwaits

\* What the requests' own invariant says of the one that moves.
LEMMA Mine ==
  ASSUME RecordsInv, NEW r \in Request
  PROVE  req[r] \in RequestState /\ RequestTrue(req[r])
  BY DEF RecordsInv, TypeOK, RequestsTrue, RequestTrue

\* The locals other than the position are kept.
Keeps(r) ==
    /\ req'[r].learner = req[r].learner
    /\ req'[r].entity = req[r].entity
    /\ req'[r].user = req[r].user
    /\ req'[r].peer = req[r].peer
    /\ req'[r].verdict = req[r].verdict
    /\ req'[r].forms = req[r].forms
    /\ req'[r].formPhase = req[r].formPhase

LEMMA Went ==
  ASSUME RecordsInv, NEW r \in Request, NEW pc \in Awaits, Goto(r, pc)
  PROVE  Only(r) /\ Keeps(r) /\ req'[r].pc = pc
<1>1. req[r] \in RequestState /\ req'[r] = [req[r] EXCEPT !.pc = pc]
  BY DEF RecordsInv, TypeOK, Goto
<1>2. req'[r] \in RequestState
  BY <1>1 DEF RequestState
<1>3. Keeps(r) /\ req'[r].pc = pc
  BY <1>1 DEF RequestState, Keeps
<1>4. QED
  BY <1>2, <1>3 DEF Goto, RecordsInv, TypeOK, Only

\* The handler has been called and holds what it has loaded.
LEMMA Called ==
  ASSUME RecordsInv, NEW r \in Request, NEW pc \in Awaits,
         NEW l \in Learner \cup {None}, NEW e \in LearnerRow \cup {None},
         req' = [req EXCEPT ![r] = Holding(pc, l, e)]
  PROVE  /\ Only(r)
         /\ req'[r].pc = pc /\ req'[r].learner = l /\ req'[r].entity = e
         /\ req'[r].forms = NoForms
         /\ req'[r].formPhase = NoPhases
<1>1. req'[r] = Holding(pc, l, e) /\ Only(r)
  BY HoldingType DEF RecordsInv, TypeOK, Only
<1>2. QED
  BY <1>1 DEF Holding

-----------------------------------------------------------------------------
(* What a step does to the learners' rows and milestones. *)

\* The milestones come in order.
PastOrdered ==
    \A l \in Learner : \A m \in past[l] \ {"removed"} :
       Progress!Before(m) \subseteq past[l]

Grows ==
    /\ past' \in [Learner -> SUBSET Milestones]
    /\ \A l \in Learner : past[l] \subseteq past'[l]
    /\ PastOrdered'

LEMMA Reached ==
  ASSUME RecordsInv, NEW l \in Learner, NEW m \in Milestones, Reach(l, m),
         m = "removed" \/ Progress!Before(m) \subseteq past[l]
  PROVE  Grows /\ m \in past'[l] /\ turnedIn' = turnedIn
<1>1. /\ past \in [Learner -> SUBSET Milestones]
      /\ PastOrdered
  BY DEF RecordsInv, TypeOK, StagesInOrder, PastOrdered
<1>2. /\ past' = [past EXCEPT ![l] = @ \cup {m}]
      /\ turnedIn' = turnedIn
  BY DEF Reach
<1>3. QED
  BY <1>1, <1>2 DEF Grows, PastOrdered

LEMMA NotReached ==
  ASSUME RecordsInv, past' = past
  PROVE  Grows
  BY DEF RecordsInv, TypeOK, StagesInOrder, Grows, PastOrdered

\* A step that leaves the rows alone.
LEMMA RowsKept ==
  ASSUME RecordsInv, Grows, learner' = learner
  PROVE  StagesInOrder' /\ RowsCreated'
  BY DEF RecordsInv, StagesInOrder, RowsCreated, Grows, PastOrdered

\* A step that writes the row of l.
LEMMA RowWritten ==
  ASSUME RecordsInv, Grows, NEW l \in Learner,
         NEW row \in LearnerRow \cup {None},
         learner' = [learner EXCEPT ![l] = row],
         Shown(row) \subseteq past'[l],
         row # None => "created" \in past'[l]
  PROVE  /\ learner' \in [Learner -> LearnerRow \cup {None}]
         /\ StagesInOrder' /\ RowsCreated'
<1>1. learner' \in [Learner -> LearnerRow \cup {None}]
  BY DEF RecordsInv, TypeOK
<1>2. /\ learner'[l] = row
      /\ \A k \in Learner \ {l} : learner'[k] = learner[k]
  BY DEF RecordsInv, TypeOK
<1>3. \A k \in Learner : Shown(learner'[k]) \subseteq past'[k]
  BY <1>2 DEF RecordsInv, StagesInOrder, Grows
<1>4. \A k \in Learner : Shown(learner[k])' = Shown(learner'[k])
  BY DEF Shown
<1>5. StagesInOrder'
  BY <1>3, <1>4 DEF StagesInOrder, Grows, PastOrdered
<1>6. RowsCreated'
  BY <1>2 DEF RecordsInv, RowsCreated, Grows
<1>7. QED
  BY <1>1, <1>5, <1>6

-----------------------------------------------------------------------------
(* Steps. *)

\* The tables, locks and submitted forms are well-typed after the step.
TablesTyped ==
    /\ learner \in [Learner -> LearnerRow \cup {None}]
    /\ users \in [UserId -> Email \cup {None}]
    /\ issued \subseteq UserId
    /\ student \in [Learner -> StudentRow \cup {None}]
    /\ submission \in [Submission -> SubmissionRow \cup {None}]
    /\ lock \in [Learner -> Request \cup {None}]
    /\ studentLock \in [Learner -> Request \cup {None}]
    /\ turnedIn \subseteq Submission

FormsStay == \A s \in Submission : submission[s] # None => submission'[s] # None

LEMMA TablesSame ==
  ASSUME RecordsInv, UNCHANGED <<tables, locks, turnedIn>>
  PROVE  TablesTyped' /\ FormsStay
  BY DEF RecordsInv, TypeOK, tables, locks, TablesTyped, FormsStay

\* What has to be shown of a step of r.
LEMMA Concluded ==
  ASSUME RecordsInv, NEW r \in Request, Only(r), RequestTrue(req[r])',
         Grows, TablesTyped', FormsStay, StagesInOrder', RowsCreated'
  PROVE  RecordsInv'
<1>1. TypeOK'
  BY DEF TypeOK, TablesTyped, Only, Grows
<1>2. RequestsTrue'
  BY OthersTrue DEF Only, Grows, FormsStay
<1>3. QED
  BY <1>1, <1>2 DEF RecordsInv

\* A step of r that changes no row and reaches no milestone.
LEMMA Quiet ==
  ASSUME RecordsInv, NEW r \in Request, Only(r), RequestTrue(req[r])',
         UNCHANGED <<tables, past>>, TablesTyped'
  PROVE  RecordsInv'
<1>1. Grows /\ StagesInOrder' /\ RowsCreated'
  BY NotReached, RowsKept DEF tables
<1>2. FormsStay
  BY DEF tables, FormsStay
<1>3. QED
  BY <1>1, <1>2, Concluded

\* The common case: only r moves.
LEMMA OnlyMoves ==
  ASSUME RecordsInv, NEW r \in Request, Only(r), RequestTrue(req[r])',
         UNCHANGED <<tables, locks, history>>
  PROVE  RecordsInv'
  BY Quiet, TablesSame DEF history

\* r has loaded the row of l and goes on to save it, mail it or send it.
LEMMA Loaded ==
  ASSUME RecordsInv, NEW r \in Request, NEW l \in Learner, NEW e \in LearnerRow,
         NEW pc \in {"send.email", "save", "meeting.mail"},
         req' = [req EXCEPT ![r] = Holding(pc, l, e)],
         Shown(e) \cup {"created"} \subseteq past'[l],
         pc = "meeting.mail" => "approved" \in past'[l]
  PROVE  Only(r) /\ RequestTrue(req[r])'
<1>1. pc \in Awaits
  BY DEF Awaits
<1>2. /\ Only(r)
      /\ req'[r].pc = pc /\ req'[r].learner = l /\ req'[r].entity = e
      /\ req'[r].forms = NoForms
      /\ req'[r].formPhase = NoPhases
  BY <1>1, Called
<1>3. LocalsSet(req[r])'
  BY <1>2 DEF LocalsSet, Awaits, SendAwaits, DecideAwaits, NoForms, NoPhases
<1>4. EntityTrue(req[r])'
  BY <1>2 DEF EntityTrue, SendAwaits, DecideAwaits, Shown
<1>5. AwaitReached(req[r])'
  BY <1>2 DEF AwaitReached, SendAwaits, DecideAwaits
<1>6. QED
  BY <1>2, <1>3, <1>4, <1>5 DEF RequestTrue

\* What the row of a learner shows has happened.
LEMMA RowTrue ==
  ASSUME RecordsInv, NEW l \in Learner, learner[l] # None
  PROVE  /\ learner[l] \in LearnerRow
         /\ Shown(learner[l]) \cup {"created"} \subseteq past[l]
  BY DEF RecordsInv, TypeOK, StagesInOrder, RowsCreated

-----------------------------------------------------------------------------
(* Accounts. *)

LEMMA SendLearnerMailStep ==
  ASSUME RecordsInv, NEW r \in Request, NEW l \in Learner, SendLearnerMail(r, l)
  PROVE  RecordsInv'
<1>1. /\ req' = [req EXCEPT ![r] = Holding("send.email", l, learner[l])]
      /\ UNCHANGED <<tables, locks, history>>
      /\ learner[l] # None
  BY DEF SendLearnerMail
<1>2. past' = past
  BY <1>1 DEF history
<1>3. QED
  BY <1>1, <1>2, RowTrue, Loaded, OnlyMoves

LEMMA SendEmailFreeStep ==
  ASSUME RecordsInv, NEW r \in Request, SendEmailFree(r)
  PROVE  RecordsInv'
<1>1. /\ req[r].pc = "send.email" /\ Goto(r, "send.user")
      /\ UNCHANGED <<tables, locks, history>>
  BY DEF SendEmailFree, At
<1>2. Only(r) /\ Keeps(r) /\ req'[r].pc = "send.user"
  BY <1>1, Went DEF Awaits
<1>3. RequestTrue(req[r])'
  BY <1>1, <1>2, Mine DEF RequestTrue, LocalsSet, EntityTrue, AwaitReached, Keeps,
     SendAwaits, DecideAwaits, Awaits, tables, history
<1>4. QED
  BY <1>1, <1>2, <1>3, OnlyMoves

\* SendEmailExists, SendUserConflict, SendStudentConflict, DeleteRefused,
\* InsertRefused and DecideNoStudent.
LEMMA RefusedStep ==
  ASSUME RecordsInv, NEW r \in Request, Return(r), UNCHANGED <<tables, locks, history>>
  PROVE  RecordsInv'
  BY Returned, OnlyMoves

LEMMA SendCreateUserStep ==
  ASSUME RecordsInv, NEW r \in Request, SendCreateUser(r)
  PROVE  RecordsInv'
<1>1. /\ req[r].pc = "send.user"
      /\ Reach(req[r].learner, "account")
      /\ UNCHANGED <<learner, student, submission, locks>>
  BY DEF SendCreateUser, At
<1>2. PICK u \in UserId \ issued :
        /\ users' = [users EXCEPT ![u] = req[r].entity.email]
        /\ issued' = issued \cup {u}
        /\ req' = [req EXCEPT ![r] =
                      [@ EXCEPT !.pc = "send.student", !.user = u]]
  BY DEF SendCreateUser
<1>3. /\ req[r] \in RequestState /\ RequestTrue(req[r])
      /\ req[r].learner \in Learner /\ req[r].entity \in LearnerRow
      /\ Shown(req[r].entity) \cup {"created"} \subseteq past[req[r].learner]
  BY <1>1, Mine DEF RequestTrue, LocalsSet, EntityTrue, Awaits, SendAwaits
<1>4. Grows /\ "account" \in past'[req[r].learner] /\ turnedIn' = turnedIn
  BY <1>1, <1>3, Reached DEF Milestones, Progress!Before
<1>5. req'[r] = [req[r] EXCEPT !.pc = "send.student", !.user = u]
  BY <1>2 DEF RecordsInv, TypeOK
<1>6. Only(r)
  BY <1>2, <1>3, <1>5 DEF Only, RecordsInv, TypeOK, RequestState, Awaits
<1>7. /\ req'[r].pc = "send.student" /\ req'[r].user = u
      /\ req'[r].learner = req[r].learner /\ req'[r].entity = req[r].entity
      /\ req'[r].forms = req[r].forms /\ req'[r].formPhase = req[r].formPhase
  BY <1>3, <1>5 DEF RequestState
<1>8. RequestTrue(req[r])'
  BY <1>1, <1>3, <1>4, <1>7 DEF RequestTrue, LocalsSet, EntityTrue, AwaitReached,
     SendAwaits, DecideAwaits, Awaits, Grows
<1>9. TablesTyped' /\ FormsStay
  BY <1>1, <1>2, <1>3, <1>4 DEF RecordsInv, TypeOK, TablesTyped, FormsStay, locks,
     LearnerRow
<1>10. QED
  BY <1>1, <1>4, <1>6, <1>8, <1>9, RowsKept, Concluded

\* The students row a send writes.
LEMMA StudentEntityType ==
  ASSUME NEW q, q.user \in UserId, q.entity \in LearnerRow
  PROVE  StudentEntity(q) \in StudentRow
  BY DEF StudentEntity, StudentRow, LearnerRow

\* The request's locals while it writes the students row, mails and marks.
LEMMA Sending ==
  ASSUME RecordsInv, NEW r \in Request,
         req[r].pc \in {"send.student", "send.flush", "send.mail", "send.mark"}
  PROVE  /\ req[r].learner \in Learner /\ req[r].entity \in LearnerRow
         /\ req[r].user \in UserId
         /\ Shown(req[r].entity) \cup {"created", "account"}
               \subseteq past[req[r].learner]
         /\ req[r].pc = "send.mark" => "mailed" \in past[req[r].learner]
  BY Mine DEF RequestTrue, LocalsSet, EntityTrue, AwaitReached, Awaits, SendAwaits

\* A send goes on to its next await.
LEMMA SendGoesOn ==
  ASSUME RecordsInv, NEW r \in Request, Grows, FormsStay,
         req[r].pc \in {"send.student", "send.flush", "send.mail"},
         NEW pc \in {"send.flush", "send.mail", "send.mark"},
         req'[r].pc = pc, Keeps(r),
         pc = "send.mark" => "mailed" \in past'[req[r].learner]
  PROVE  RequestTrue(req[r])'
<1>1. RequestTrue(req[r])
  BY Mine
<1>2. LocalsSet(req[r])'
  BY <1>1, Sending DEF RequestTrue, LocalsSet, Keeps, SendAwaits, DecideAwaits,
     Awaits, FormsStay
<1>3. EntityTrue(req[r])'
  BY Sending DEF EntityTrue, Keeps, SendAwaits, DecideAwaits, Grows
<1>4. AwaitReached(req[r])'
  BY Sending DEF AwaitReached, Keeps, SendAwaits, DecideAwaits, Grows
<1>5. QED
  BY <1>2, <1>3, <1>4 DEF RequestTrue

LEMMA SendReloadStudentStep ==
  ASSUME RecordsInv, NEW r \in Request, SendReloadStudent(r)
  PROVE  RecordsInv'
<1>. DEFINE row == student[req[r].learner]
            d == IF row = None THEN {} ELSE Dirty(StudentEntity(req[r]), row)
<1>1. /\ req[r].pc = "send.student"
      /\ req' = [req EXCEPT ![r] =
                    [@ EXCEPT !.pc = "send.flush", !.insert = (row = None),
                              !.dirty = d]]
      /\ UNCHANGED <<tables, locks, history>>
  BY DEF SendReloadStudent, At
<1>2. row \in StudentRow \cup {None} /\ req[r] \in RequestState
  BY <1>1, Sending DEF RecordsInv, TypeOK
<1>3. d \subseteq Columns
  BY <1>2, DirtyColumns
<1>4. req'[r] = [req[r] EXCEPT !.pc = "send.flush", !.insert = (row = None),
                               !.dirty = d]
  BY <1>1 DEF RecordsInv, TypeOK
<1>. HIDE DEF row, d
<1>5. (row = None) \in BOOLEAN
  OBVIOUS
<1>6. req'[r] \in RequestState
  <2>. DEFINE i == row = None
              at == [req[r] EXCEPT !.pc = "send.flush"]
              plan == [at EXCEPT !.insert = i]
  <2>1. at \in RequestState
    BY <1>2 DEF RequestState, Awaits
  <2>2. i \in BOOLEAN /\ req'[r] = [plan EXCEPT !.dirty = d]
    BY <1>4
  <2>. HIDE DEF i, at
  <2>3. plan \in RequestState
    BY <2>1, <2>2 DEF RequestState
  <2>. HIDE DEF plan
  <2>4. QED
    BY <1>3, <2>2, <2>3 DEF RequestState
<1>7. Keeps(r) /\ req'[r].pc = "send.flush"
  BY <1>2, <1>4 DEF Keeps, RequestState
<1>8. Only(r)
  BY <1>1, <1>6 DEF Only, RecordsInv, TypeOK
<1>9. Grows /\ FormsStay
  BY <1>1, NotReached DEF history, tables, FormsStay
<1>10. QED
  BY <1>1, <1>7, <1>8, <1>9, SendGoesOn, OnlyMoves

LEMMA SendInsertStudentStep ==
  ASSUME RecordsInv, NEW r \in Request, SendInsertStudent(r)
  PROVE  RecordsInv'
<1>1. /\ req[r].pc = "send.flush" /\ Goto(r, "send.mail")
      /\ student' = [student EXCEPT ![req[r].learner] = StudentEntity(req[r])]
      /\ UNCHANGED <<learner, users, issued, submission, locks, history>>
  BY DEF SendInsertStudent, At
<1>2. Only(r) /\ Keeps(r) /\ req'[r].pc = "send.mail"
  BY <1>1, Went DEF Awaits
<1>3. Grows
  BY <1>1, NotReached DEF history
<1>4. StudentEntity(req[r]) \in StudentRow
  BY <1>1, Sending, StudentEntityType
<1>5. TablesTyped' /\ FormsStay
  BY <1>1, <1>4 DEF RecordsInv, TypeOK, TablesTyped, FormsStay, locks, history
<1>6. QED
  BY <1>1, <1>2, <1>3, <1>5, SendGoesOn, RowsKept, Concluded

LEMMA SendUpdateStudentStep ==
  ASSUME RecordsInv, NEW r \in Request, SendUpdateStudent(r)
  PROVE  RecordsInv'
<1>. DEFINE l == req[r].learner
            row == WriteBack(student[l], StudentEntity(req[r]), req[r].dirty)
<1>1. /\ req[r].pc = "send.flush" /\ Goto(r, "send.mail")
      /\ UNCHANGED <<learner, users, issued, submission, locks, history>>
      /\ \/ UNCHANGED student
         \/ student[l] # None /\ student' = [student EXCEPT ![l] = row]
  BY DEF SendUpdateStudent, At
<1>2. Only(r) /\ Keeps(r) /\ req'[r].pc = "send.mail"
  BY <1>1, Went DEF Awaits
<1>3. Grows
  BY <1>1, NotReached DEF history
<1>4. StudentEntity(req[r]) \in StudentRow /\ l \in Learner
  BY <1>1, Sending, StudentEntityType
<1>5. student[l] # None => row \in StudentRow
  BY <1>4, WriteBackStudent DEF RecordsInv, TypeOK
<1>. HIDE DEF l, row
<1>6. TablesTyped' /\ FormsStay
  BY <1>1, <1>4, <1>5 DEF RecordsInv, TypeOK, TablesTyped, FormsStay, locks, history
<1>7. QED
  BY <1>1, <1>2, <1>3, <1>6, SendGoesOn, RowsKept, Concluded

LEMMA SendMailStep ==
  ASSUME RecordsInv, NEW r \in Request, SendMail(r)
  PROVE  RecordsInv'
<1>1. /\ req[r].pc = "send.mail" /\ Goto(r, "send.mark")
      /\ Reach(req[r].learner, "mailed")
      /\ UNCHANGED <<tables, locks>>
  BY DEF SendMail, At
<1>2. Only(r) /\ Keeps(r) /\ req'[r].pc = "send.mark"
  BY <1>1, Went DEF Awaits
<1>3. /\ req[r].learner \in Learner
      /\ {"created", "account"} \subseteq past[req[r].learner]
  BY <1>1, Sending
<1>4. Grows /\ "mailed" \in past'[req[r].learner] /\ turnedIn' = turnedIn
  BY <1>1, <1>3, Reached DEF Milestones, Progress!Before
<1>5. TablesTyped' /\ FormsStay
  BY <1>1, <1>4, TablesSame
<1>6. QED
  BY <1>1, <1>2, <1>4, <1>5, SendGoesOn, RowsKept, Concluded DEF tables

LEMMA SendMarkStep ==
  ASSUME RecordsInv, NEW r \in Request, SendMark(r)
  PROVE  RecordsInv'
<1>. DEFINE l == req[r].learner
            row == [learner[l] EXCEPT !.application_mail = "Sent"]
<1>1. /\ req[r].pc = "send.mark" /\ Return(r)
      /\ UNCHANGED <<users, issued, student, submission, locks>>
      /\ \/ /\ learner[l] # None
            /\ learner' = [learner EXCEPT ![l].application_mail = "Sent"]
            /\ Reach(l, "sent")
         \/ UNCHANGED <<learner, history>>
  BY DEF SendMark, At
<1>2. Only(r) /\ RequestTrue(req[r])'
  BY <1>1, Returned
<1>3. l \in Learner /\ {"created", "account", "mailed"} \subseteq past[l]
  BY <1>1, Sending
<1>4. CASE UNCHANGED <<learner, history>>
  <2>1. UNCHANGED <<tables, locks, history>>
    BY <1>1, <1>4 DEF tables
  <2>2. QED
    BY <1>2, <2>1, OnlyMoves
<1>5. CASE /\ learner[l] # None
           /\ learner' = [learner EXCEPT ![l].application_mail = "Sent"]
           /\ Reach(l, "sent")
  <2>1. Grows /\ "sent" \in past'[l] /\ turnedIn' = turnedIn
    BY <1>3, <1>5, Reached DEF Milestones, Progress!Before
  <2>2. /\ learner[l] \in LearnerRow
        /\ Shown(learner[l]) \cup {"created"} \subseteq past'[l]
    BY <1>3, <1>5, <2>1, RowTrue DEF Grows
  <2>3. learner' = [learner EXCEPT ![l] = row]
    BY <1>5
  <2>4. row \in LearnerRow /\ Shown(row) \subseteq Shown(learner[l]) \cup {"sent"}
    BY <2>2, StagedRow
  <2>5. /\ learner' \in [Learner -> LearnerRow \cup {None}]
        /\ StagesInOrder' /\ RowsCreated'
    BY <1>3, <2>1, <2>2, <2>3, <2>4, RowWritten
  <2>6. TablesTyped' /\ FormsStay
    BY <1>1, <2>1, <2>5 DEF RecordsInv, TypeOK, TablesTyped, FormsStay, locks
  <2>7. QED
    BY <1>2, <2>1, <2>5, <2>6, Concluded
<1>6. QED
  BY <1>1, <1>4, <1>5

LEMMA DeleteUserStep ==
  ASSUME RecordsInv, NEW r \in Request, NEW u \in UserId, DeleteUser(r, u)
  PROVE  RecordsInv'
<1>. DEFINE gone == {l \in Learner : student[l] # None /\ student[l].user = u}
<1>1. /\ student' = [l \in Learner |-> IF l \in gone THEN None ELSE student[l]]
      /\ past' = [l \in Learner |->
                    IF l \in gone THEN past[l] \cup {"removed"} ELSE past[l]]
      /\ users' = [users EXCEPT ![u] = None]
      /\ Return(r)
      /\ UNCHANGED <<learner, issued, submission, locks, turnedIn>>
  BY DEF DeleteUser
<1>. HIDE DEF gone
<1>2. Only(r) /\ RequestTrue(req[r])'
  BY <1>1, Returned
<1>3. /\ past' \in [Learner -> SUBSET Milestones]
      /\ \A l \in Learner : past[l] \subseteq past'[l]
      /\ \A l \in Learner : past'[l] \ {"removed"} = past[l] \ {"removed"}
  BY <1>1 DEF RecordsInv, TypeOK, Milestones
<1>4. PastOrdered'
  BY <1>3 DEF RecordsInv, StagesInOrder, PastOrdered, Progress!Before
<1>5. Grows
  BY <1>3, <1>4 DEF Grows
<1>6. TablesTyped' /\ FormsStay
  BY <1>1 DEF RecordsInv, TypeOK, TablesTyped, FormsStay, locks
<1>7. QED
  BY <1>1, <1>2, <1>5, <1>6, RowsKept, Concluded

LEMMA SendPreserves ==
  ASSUME RecordsInv, NEW r \in Request, SendStep(r)
  PROVE  RecordsInv'
  BY RefusedStep, SendEmailFreeStep, SendCreateUserStep, SendReloadStudentStep,
     SendInsertStudentStep, SendUpdateStudentStep, SendMailStep, SendMarkStep
     DEF SendStep, SendEmailExists, SendUserConflict, SendStudentConflict

-----------------------------------------------------------------------------
(* LearnerRecord. *)

LEMMA CreateLearnerStep ==
  ASSUME RecordsInv, NEW r \in Request, NEW e \in Email, CreateLearner(r, e)
  PROVE  RecordsInv'
<1>1. /\ req' = [req EXCEPT ![r] = Holding("create.insert", None, NewLearner(e))]
      /\ UNCHANGED <<tables, locks, history>>
  BY DEF CreateLearner
<1>2. /\ Only(r)
      /\ req'[r].pc = "create.insert" /\ req'[r].entity = NewLearner(e)
      /\ req'[r].forms = NoForms
      /\ req'[r].formPhase = NoPhases
  <2>1. "create.insert" \in Awaits
    BY DEF Awaits
  <2>2. QED
    BY <1>1, <2>1, Called, NewLearnerType
<1>3. RequestTrue(req[r])'
  BY <1>2, NewLearnerType DEF RequestTrue, LocalsSet, EntityTrue, AwaitReached,
     Awaits, SendAwaits, DecideAwaits, NoForms, NoPhases, Shown
<1>4. QED
  BY <1>1, <1>2, <1>3, OnlyMoves

LEMMA InsertLearnerStep ==
  ASSUME RecordsInv, NEW r \in Request, InsertLearner(r)
  PROVE  RecordsInv'
<1>1. /\ req[r].pc = "create.insert" /\ Return(r)
      /\ UNCHANGED <<users, issued, student, submission, locks>>
  BY DEF InsertLearner, At
<1>2. PICK l \in Learner : /\ learner' = [learner EXCEPT ![l] = req[r].entity]
                           /\ Reach(l, "created")
  BY DEF InsertLearner
<1>3. req[r].entity \in LearnerRow /\ Shown(req[r].entity) = {}
  BY <1>1, Mine DEF RequestTrue, LocalsSet, EntityTrue
<1>4. Only(r) /\ RequestTrue(req[r])'
  BY <1>1, Returned
<1>5. Grows /\ "created" \in past'[l] /\ turnedIn' = turnedIn
  BY <1>2, Reached DEF Milestones, Progress!Before
<1>6. /\ learner' \in [Learner -> LearnerRow \cup {None}]
      /\ StagesInOrder' /\ RowsCreated'
  BY <1>2, <1>3, <1>5, RowWritten
<1>7. TablesTyped' /\ FormsStay
  BY <1>1, <1>5, <1>6 DEF RecordsInv, TypeOK, TablesTyped, FormsStay, locks
<1>8. QED
  BY <1>4, <1>5, <1>6, <1>7, Concluded

\* EditInformation, UpdateAttendanceStatus, ApproveLazer, ApproveCertificate,
\* ArchiveStudent and UnarchiveStudent: the changed entity is still true.
LEMMA LoadAndSaveStep ==
  ASSUME RecordsInv, NEW r \in Request, NEW l \in Learner, NEW e \in LearnerRow,
         learner[l] # None, LoadAndSave(r, l, e), UNCHANGED turnedIn, Grows,
         Shown(e) \subseteq Shown(learner[l]) \cup past'[l]
  PROVE  RecordsInv'
<1>1. /\ req' = [req EXCEPT ![r] = Holding("save", l, e)]
      /\ UNCHANGED <<tables, locks>>
  BY DEF LoadAndSave
<1>2. Shown(e) \cup {"created"} \subseteq past'[l]
  BY RowTrue DEF Grows
<1>3. Only(r) /\ RequestTrue(req[r])'
  BY <1>1, <1>2, Loaded
<1>4. TablesTyped' /\ FormsStay
  BY <1>1, TablesSame
<1>5. QED
  BY <1>1, <1>3, <1>4, RowsKept, Concluded DEF tables

LEMMA EditStep ==
  ASSUME RecordsInv, NEW r \in Request, NEW l \in Learner,
         \/ \E e \in Email : EditInformation(r, l, e)
         \/ ApproveLazer(r, l)
         \/ ApproveCertificate(r, l) \/ ArchiveStudent(r, l)
         \/ UnarchiveStudent(r, l)
  PROVE  RecordsInv'
<1>1. learner[l] # None /\ UNCHANGED history
  BY DEF EditInformation, ApproveLazer, ApproveCertificate, ArchiveStudent,
         UnarchiveStudent
<1>2. UNCHANGED turnedIn /\ Grows
  BY <1>1, NotReached DEF history
<1>3. PICK row \in LearnerRow :
        LoadAndSave(r, l, row) /\ Shown(row) \subseteq Shown(learner[l])
  <2>1. learner[l] \in LearnerRow
    BY <1>1, RowTrue
  <2>2. CASE \E e \in Email : EditInformation(r, l, e)
    BY <2>1, <2>2, EditedRow DEF EditInformation
  <2>3. CASE ApproveLazer(r, l)
    BY <2>1, <2>3, EditedRow DEF ApproveLazer
  <2>4. CASE ApproveCertificate(r, l)
    BY <2>1, <2>4, EditedRow DEF ApproveCertificate
  <2>5. CASE ArchiveStudent(r, l)
    BY <2>1, <2>5, EditedRow DEF ArchiveStudent
  <2>6. CASE UnarchiveStudent(r, l)
    BY <2>1, <2>6, EditedRow DEF UnarchiveStudent
  <2>7. QED
    BY <2>2, <2>3, <2>4, <2>5, <2>6
<1>4. QED
  BY <1>1, <1>2, <1>3, LoadAndSaveStep

LEMMA UpdateAttendanceStatusStep ==
  ASSUME RecordsInv, NEW r \in Request, NEW l \in Learner,
         NEW status \in {"present", "absent"}, UpdateAttendanceStatus(r, l, status)
  PROVE  RecordsInv'
<1>. DEFINE row == [learner[l] EXCEPT !.attendance_status = status]
<1>1. /\ learner[l] # None /\ learner[l].application_status = "Approved"
      /\ LoadAndSave(r, l, row)
  BY DEF UpdateAttendanceStatus
<1>2. learner[l] \in LearnerRow /\ "approved" \in past[l]
  BY <1>1, RowTrue DEF Shown
<1>3. CASE status = "present"
  <2>1. Reach(l, "present")
    BY <1>3 DEF UpdateAttendanceStatus
  <2>2. Progress!Before("present") \subseteq past[l]
    BY <1>2 DEF RecordsInv, StagesInOrder, Progress!Before
  <2>3. Grows /\ "present" \in past'[l] /\ turnedIn' = turnedIn
    BY <2>1, <2>2, Reached DEF Milestones
  <2>4. row \in LearnerRow /\ Shown(row) \subseteq Shown(learner[l]) \cup {"present"}
    BY <1>2, <1>3, StagedRow
  <2>5. QED
    BY <1>1, <2>3, <2>4, LoadAndSaveStep
<1>4. CASE status = "absent"
  <2>1. UNCHANGED turnedIn /\ Grows
    BY <1>4, NotReached DEF UpdateAttendanceStatus, history
  <2>2. row \in LearnerRow /\ Shown(row) \subseteq Shown(learner[l]) \cup {}
    BY <1>2, <1>4, StagedRow
  <2>3. QED
    BY <1>1, <2>1, <2>2, LoadAndSaveStep
<1>5. QED
  BY <1>3, <1>4

\* DeleteStudent and CreateSubmission: only the learner's id is held.
LEMMA HoldsIdStep ==
  ASSUME RecordsInv, NEW r \in Request, NEW l \in Learner,
         NEW pc \in {"delete", "form.insert"},
         req' = [req EXCEPT ![r] = Holding(pc, l, None)],
         UNCHANGED <<tables, locks, history>>
  PROVE  RecordsInv'
<1>1. /\ Only(r)
      /\ req'[r].pc = pc /\ req'[r].learner = l
      /\ req'[r].forms = NoForms
      /\ req'[r].formPhase = NoPhases
  BY Called DEF Awaits
<1>2. RequestTrue(req[r])'
  BY <1>1 DEF RequestTrue, LocalsSet, EntityTrue, AwaitReached,
     Awaits, SendAwaits, DecideAwaits, NoForms, NoPhases
<1>3. QED
  BY <1>1, <1>2, OnlyMoves

LEMMA DeleteLearnerRowStep ==
  ASSUME RecordsInv, NEW r \in Request, DeleteLearnerRow(r)
  PROVE  RecordsInv'
<1>1. /\ req[r].pc = "delete" /\ Return(r)
      /\ learner' = [learner EXCEPT ![req[r].learner] = None]
      /\ UNCHANGED <<users, issued, student, submission, locks, history>>
  BY DEF DeleteLearnerRow, At
<1>2. req[r].learner \in Learner
  BY <1>1, Mine DEF RequestTrue, LocalsSet, Awaits
<1>3. Only(r) /\ RequestTrue(req[r])' /\ Grows
  BY <1>1, Returned, NotReached DEF history
<1>4. Shown(None) = {}
  BY DEF Shown
<1>5. /\ learner' \in [Learner -> LearnerRow \cup {None}]
      /\ StagesInOrder' /\ RowsCreated'
  BY <1>1, <1>2, <1>3, <1>4, RowWritten
<1>6. TablesTyped' /\ FormsStay
  BY <1>1, <1>5 DEF RecordsInv, TypeOK, TablesTyped, FormsStay, locks, history
<1>7. QED
  BY <1>3, <1>5, <1>6, Concluded

LEMMA SendMeetingLinkStep ==
  ASSUME RecordsInv, NEW r \in Request, NEW l \in Learner, SendMeetingLink(r, l)
  PROVE  RecordsInv'
<1>1. /\ req' = [req EXCEPT ![r] = Holding("meeting.mail", l, learner[l])]
      /\ UNCHANGED <<tables, locks, history>>
      /\ learner[l] # None
      /\ learner[l].application_status = "Approved"
  BY DEF SendMeetingLink
<1>2. "approved" \in past[l] /\ past' = past
  BY <1>1, RowTrue DEF Shown, history
<1>3. QED
  BY <1>1, <1>2, RowTrue, Loaded, OnlyMoves

\* The request's entity while it is saved.
LEMMA Saving ==
  ASSUME RecordsInv, NEW r \in Request, req[r].pc \in {"save", "flush", "meeting.mail"}
  PROVE  /\ req[r] \in RequestState
         /\ req[r].learner \in Learner /\ req[r].entity \in LearnerRow
         /\ Shown(req[r].entity) \cup {"created"} \subseteq past[req[r].learner]
         /\ req[r].pc = "meeting.mail" => "approved" \in past[req[r].learner]
  BY Mine DEF RequestTrue, LocalsSet, EntityTrue, AwaitReached, Awaits

\* A save goes on to its SELECT or its write.
LEMMA SaveGoesOn ==
  ASSUME RecordsInv, NEW r \in Request, Grows, FormsStay,
         req[r].pc \in {"save", "meeting.mail"},
         NEW pc \in {"save", "flush"}, req'[r].pc = pc,
         req'[r].learner = req[r].learner,
         req'[r].forms = req[r].forms, req'[r].formPhase = req[r].formPhase,
         req'[r].entity \in LearnerRow,
         Shown(req'[r].entity) \subseteq past'[req[r].learner]
  PROVE  RequestTrue(req[r])'
<1>1. LocalsSet(req[r])
  BY Mine DEF RequestTrue
<1>2. LocalsSet(req[r])'
  BY <1>1, Saving DEF LocalsSet, SendAwaits, DecideAwaits, Awaits, FormsStay
<1>3. Shown(req[r].entity)' = Shown(req'[r].entity)
  BY DEF Shown
<1>4. EntityTrue(req[r])'
  BY <1>3, Saving DEF EntityTrue, SendAwaits, DecideAwaits, Grows
<1>5. AwaitReached(req[r])'
  BY DEF AwaitReached, SendAwaits, DecideAwaits
<1>6. QED
  BY <1>2, <1>4, <1>5 DEF RequestTrue

LEMMA MeetingMailStep ==
  ASSUME RecordsInv, NEW r \in Request, MeetingMail(r)
  PROVE  RecordsInv'
<1>. DEFINE l == req[r].learner
            e == [req[r].entity EXCEPT !.inductor_status = "Sent"]
<1>1. /\ req[r].pc = "meeting.mail" /\ Reach(l, "linked")
      /\ req' = [req EXCEPT ![r] =
                    [@ EXCEPT !.pc = "save", !.entity.inductor_status = "Sent"]]
      /\ UNCHANGED <<tables, locks>>
  BY DEF MeetingMail, At
<1>2. /\ l \in Learner /\ "approved" \in past[l] /\ req[r] \in RequestState
      /\ req[r].entity \in LearnerRow /\ Shown(req[r].entity) \subseteq past[l]
  BY <1>1, Saving
<1>3. Progress!Before("linked") \subseteq past[l]
  BY <1>2 DEF RecordsInv, StagesInOrder, Progress!Before
<1>4. Grows /\ "linked" \in past'[l] /\ turnedIn' = turnedIn
  BY <1>1, <1>2, <1>3, Reached DEF Milestones
<1>5. e \in LearnerRow /\ Shown(e) \subseteq Shown(req[r].entity) \cup {"linked"}
  BY <1>2, StagedRow
<1>6. req'[r] = [req[r] EXCEPT !.pc = "save", !.entity = e]
  BY <1>1, <1>2 DEF RecordsInv, TypeOK, RequestState
<1>. HIDE DEF e
<1>7. req'[r] \in RequestState
  <2>. DEFINE at == [req[r] EXCEPT !.pc = "save"]
  <2>1. at \in RequestState /\ req'[r] = [at EXCEPT !.entity = e]
    BY <1>2, <1>6 DEF RequestState, Awaits
  <2>. HIDE DEF at
  <2>2. QED
    BY <1>5, <2>1 DEF RequestState
<1>8. Only(r)
  BY <1>1, <1>7 DEF Only, RecordsInv, TypeOK
<1>9. /\ req'[r].pc = "save" /\ req'[r].entity = e
      /\ req'[r].learner = l /\ req'[r].forms = req[r].forms
      /\ req'[r].formPhase = req[r].formPhase
  BY <1>2, <1>6 DEF RequestState
<1>10. TablesTyped' /\ FormsStay
  BY <1>1, <1>4, TablesSame
<1>11. Shown(e) \subseteq past'[l]
  BY <1>2, <1>4, <1>5 DEF Grows
<1>12. RequestTrue(req[r])'
  BY <1>1, <1>4, <1>5, <1>9, <1>10, <1>11, SaveGoesOn
<1>13. QED
  BY <1>1, <1>4, <1>8, <1>10, <1>12, RowsKept, Concluded DEF tables

LEMMA ReloadStep ==
  ASSUME RecordsInv, NEW r \in Request, Reload(r)
  PROVE  RecordsInv'
<1>. DEFINE row == learner[req[r].learner]
            d == IF row = None THEN {} ELSE Dirty(req[r].entity, row)
<1>1. /\ req[r].pc = "save"
      /\ req' = [req EXCEPT ![r] =
                    [@ EXCEPT !.pc = "flush", !.insert = (row = None),
                              !.dirty = d]]
      /\ UNCHANGED <<tables, locks, history>>
  BY DEF Reload, At
<1>2. row \in LearnerRow \cup {None} /\ req[r] \in RequestState
  BY <1>1, Saving DEF RecordsInv, TypeOK
<1>3. d \subseteq Columns
  BY <1>2, DirtyColumns
<1>4. req'[r] = [req[r] EXCEPT !.pc = "flush", !.insert = (row = None), !.dirty = d]
  BY <1>1 DEF RecordsInv, TypeOK
<1>. HIDE DEF row, d
<1>5. (row = None) \in BOOLEAN
  OBVIOUS
<1>6. req'[r] \in RequestState
  <2>. DEFINE i == row = None
              at == [req[r] EXCEPT !.pc = "flush"]
              plan == [at EXCEPT !.insert = i]
  <2>1. at \in RequestState
    BY <1>2 DEF RequestState, Awaits
  <2>2. i \in BOOLEAN /\ req'[r] = [plan EXCEPT !.dirty = d]
    BY <1>4
  <2>. HIDE DEF i, at
  <2>3. plan \in RequestState
    BY <2>1, <2>2 DEF RequestState
  <2>. HIDE DEF plan
  <2>4. QED
    BY <1>3, <2>2, <2>3 DEF RequestState
<1>7. Keeps(r) /\ req'[r].pc = "flush"
  BY <1>2, <1>4 DEF Keeps, RequestState
<1>8. Only(r)
  BY <1>1, <1>6 DEF Only, RecordsInv, TypeOK
<1>9. Grows /\ FormsStay
  BY <1>1, NotReached DEF history, tables, FormsStay
<1>10. RequestTrue(req[r])'
  BY <1>1, <1>7, <1>9, Saving, SaveGoesOn DEF Keeps, Grows
<1>11. QED
  BY <1>1, <1>8, <1>10, OnlyMoves

\* FlushInsert and FlushUpdate: the row becomes the entity, or the row with
\* some of the entity's columns, or stays as it is.
LEMMA FlushStep ==
  ASSUME RecordsInv, NEW r \in Request, FlushInsert(r) \/ FlushUpdate(r)
  PROVE  RecordsInv'
<1>. DEFINE l == req[r].learner
            e == req[r].entity
<1>1. /\ req[r].pc = "flush" /\ Return(r)
      /\ UNCHANGED <<users, issued, student, submission, locks, history>>
  BY DEF FlushInsert, FlushUpdate, At
<1>2. /\ l \in Learner /\ e \in LearnerRow
      /\ Shown(e) \cup {"created"} \subseteq past[l]
  BY <1>1, Saving
<1>3. Only(r) /\ RequestTrue(req[r])' /\ Grows /\ past' = past
  BY <1>1, Returned, NotReached DEF history
<1>4. CASE UNCHANGED learner
  <2>1. UNCHANGED <<tables, locks, history>>
    BY <1>1, <1>4 DEF tables
  <2>2. QED
    BY <1>3, <2>1, OnlyMoves
<1>5. ASSUME NEW row \in LearnerRow, learner' = [learner EXCEPT ![l] = row],
             Shown(row) \subseteq past[l]
      PROVE  RecordsInv'
  <2>1. /\ learner' \in [Learner -> LearnerRow \cup {None}]
        /\ StagesInOrder' /\ RowsCreated'
    BY <1>2, <1>3, <1>5, RowWritten
  <2>2. TablesTyped' /\ FormsStay
    BY <1>1, <2>1 DEF RecordsInv, TypeOK, TablesTyped, FormsStay, locks, history
  <2>3. QED
    BY <1>3, <2>1, <2>2, Concluded
<1>6. CASE FlushInsert(r) /\ learner' # learner
  BY <1>2, <1>5, <1>6 DEF FlushInsert
<1>7. CASE FlushUpdate(r) /\ learner' # learner
  <2>1. /\ learner[l] # None
        /\ learner' = [learner EXCEPT ![l] = WriteBack(learner[l], e, req[r].dirty)]
    BY <1>7 DEF FlushUpdate
  <2>2. learner[l] \in LearnerRow /\ Shown(learner[l]) \subseteq past[l]
    BY <1>2, <2>1, RowTrue
  <2>3. QED
    BY <1>2, <1>5, <2>1, <2>2, WriteBackLearner
<1>8. QED
  BY <1>4, <1>6, <1>7

LEMMA RecordPreserves ==
  ASSUME RecordsInv, NEW r \in Request, RecordStep(r)
  PROVE  RecordsInv'
  BY RefusedStep, InsertLearnerStep, DeleteLearnerRowStep, MeetingMailStep,
     ReloadStep, FlushStep DEF RecordStep, DeleteRefused

-----------------------------------------------------------------------------
(* Forms. *)

\* Entities for existing submissions of a learner are being saved.
LEMMA SaveFormsStep ==
  ASSUME RecordsInv, NEW r \in Request, NEW l \in Learner,
         NEW entities \in [Submission -> SubmissionRow \cup {None}],
         SaveForms(r, l, entities),
         \A s \in Submission : entities[s] # None => submission[s] # None,
         turnedIn' \subseteq Submission
  PROVE  RecordsInv'
<1>. DEFINE phases == [s \in Submission |->
                         IF entities[s] = None THEN "none" ELSE "save"]
            h == Holding("form.save", l, None)
<1>1. /\ req' = [req EXCEPT ![r] = [h EXCEPT !.forms = entities,
                                             !.formPhase = phases]]
      /\ UNCHANGED <<tables, locks, past>>
  BY DEF SaveForms
<1>2. h \in RequestState /\ h.pc = "form.save" /\ h.learner = l
  BY HoldingType DEF Awaits, Holding
<1>3. phases \in [Submission -> {"none", "save", "update"}]
  OBVIOUS
<1>4. \A s \in Submission : phases[s] # "none" => entities[s] # None
  OBVIOUS
<1>. HIDE DEF phases, h
<1>5. req'[r] = [h EXCEPT !.forms = entities, !.formPhase = phases]
  BY <1>1 DEF RecordsInv, TypeOK
<1>6. req'[r] \in RequestState
  <2>. DEFINE f == [h EXCEPT !.forms = entities]
  <2>1. f \in RequestState
    BY <1>2 DEF RequestState
  <2>2. req'[r] = [f EXCEPT !.formPhase = phases]
    BY <1>5
  <2>. HIDE DEF f
  <2>3. QED
    BY <1>3, <2>1, <2>2 DEF RequestState
<1>7. /\ req'[r].pc = "form.save" /\ req'[r].learner = l
      /\ req'[r].forms = entities /\ req'[r].formPhase = phases
  BY <1>2, <1>5 DEF RequestState
<1>8. Only(r)
  BY <1>1, <1>6 DEF Only, RecordsInv, TypeOK
<1>9. RequestTrue(req[r])'
  BY <1>1, <1>4, <1>7 DEF RequestTrue, LocalsSet, EntityTrue, AwaitReached, Awaits,
     SendAwaits, DecideAwaits, tables
<1>10. TablesTyped'
  BY <1>1 DEF RecordsInv, TypeOK, TablesTyped, tables, locks
<1>11. QED
  BY <1>1, <1>8, <1>9, <1>10, Quiet

\* One entity, and none for the other submissions.
LEMMA OneForm ==
  ASSUME NEW s \in Submission, NEW e \in SubmissionRow
  PROVE  /\ [NoForms EXCEPT ![s] = e] \in [Submission -> SubmissionRow \cup {None}]
         /\ \A t \in Submission : [NoForms EXCEPT ![s] = e][t] # None => t = s
  BY DEF NoForms

LEMMA UpdateDraftStep ==
  ASSUME RecordsInv, NEW r \in Request, NEW s \in Submission, NEW answer \in Answer,
         UpdateDraft(r, s, answer)
  PROVE  RecordsInv'
<1>. DEFINE e == [submission[s] EXCEPT !.data = @ \cup {answer}]
<1>1. /\ submission[s] # None /\ UNCHANGED turnedIn
      /\ SaveForms(r, submission[s].student, [NoForms EXCEPT ![s] = e])
  BY DEF UpdateDraft
<1>2. submission[s] \in SubmissionRow
  BY <1>1 DEF RecordsInv, TypeOK
<1>3. e \in SubmissionRow /\ submission[s].student \in Learner
  BY <1>2 DEF SubmissionRow
<1>. HIDE DEF e
<1>4. turnedIn' \subseteq Submission
  BY <1>1 DEF RecordsInv, TypeOK
<1>5. QED
  BY <1>1, <1>3, <1>4, OneForm, SaveFormsStep

LEMMA ReviewSubmissionStep ==
  ASSUME RecordsInv, NEW r \in Request, NEW s \in Submission,
         NEW status \in SubmissionStatus, ReviewSubmission(r, s, status)
  PROVE  RecordsInv'
<1>. DEFINE e == [submission[s] EXCEPT !.status = status]
<1>1. /\ submission[s] # None /\ UNCHANGED turnedIn
      /\ SaveForms(r, submission[s].student, [NoForms EXCEPT ![s] = e])
  BY DEF ReviewSubmission
<1>2. submission[s] \in SubmissionRow
  BY <1>1 DEF RecordsInv, TypeOK
<1>3. e \in SubmissionRow /\ submission[s].student \in Learner
  BY <1>2 DEF SubmissionRow
<1>. HIDE DEF e
<1>4. turnedIn' \subseteq Submission
  BY <1>1 DEF RecordsInv, TypeOK
<1>5. QED
  BY <1>1, <1>3, <1>4, OneForm, SaveFormsStep

LEMMA SubmitFormStep ==
  ASSUME RecordsInv, NEW r \in Request, NEW l \in Learner, SubmitForm(r, l)
  PROVE  RecordsInv'
<1>. DEFINE entities == [s \in Submission |->
                           IF s \in SubmissionsOf(l)
                             THEN [submission[s] EXCEPT !.status = "submitted",
                                                        !.is_submitted = TRUE]
                             ELSE None]
<1>1. /\ SaveForms(r, l, entities)
      /\ turnedIn' = turnedIn \cup SubmissionsOf(l)
  BY DEF SubmitForm
<1>2. \A s \in SubmissionsOf(l) : submission[s] \in SubmissionRow
  BY DEF SubmissionsOf, RecordsInv, TypeOK
<1>3. ASSUME NEW row \in SubmissionRow
      PROVE  [row EXCEPT !.status = "submitted", !.is_submitted = TRUE]
                \in SubmissionRow
  BY DEF SubmissionRow, SubmissionStatus
<1>4. entities \in [Submission -> SubmissionRow \cup {None}]
  BY <1>2, <1>3
<1>5. \A s \in Submission : entities[s] # None => submission[s] # None
  BY DEF SubmissionsOf
<1>6. turnedIn' \subseteq Submission
  BY <1>1 DEF SubmissionsOf, RecordsInv, TypeOK
<1>7. QED
  BY <1>1, <1>4, <1>5, <1>6, SaveFormsStep

LEMMA InsertSubmissionStep ==
  ASSUME RecordsInv, NEW r \in Request, InsertSubmission(r)
  PROVE  RecordsInv'
<1>1. /\ req[r].pc = "form.insert" /\ Return(r)
      /\ UNCHANGED <<learner, users, issued, student, locks, history>>
  BY DEF InsertSubmission, At
<1>2. req[r].learner \in Learner
  BY <1>1, Mine DEF RequestTrue, LocalsSet, Awaits
<1>3. PICK s \in Submission, data \in SUBSET Answer :
        submission' = [submission EXCEPT ![s] =
            [ student |-> req[r].learner, status |-> "draft",
              is_submitted |-> FALSE, data |-> data ]]
  BY DEF InsertSubmission
<1>. DEFINE row == [ student |-> req[r].learner, status |-> "draft",
                     is_submitted |-> FALSE, data |-> data ]
<1>4. row \in SubmissionRow /\ row # None
  <2>1. row \in SubmissionRow
    BY <1>2 DEF SubmissionRow, SubmissionStatus
  <2>2. QED
    BY <2>1, NoneAssumption
<1>5. submission' = [submission EXCEPT ![s] = row]
  BY <1>3
<1>. HIDE DEF row
<1>6. TablesTyped' /\ FormsStay
  BY <1>1, <1>4, <1>5 DEF RecordsInv, TypeOK, TablesTyped, FormsStay, locks, history
<1>7. Only(r) /\ RequestTrue(req[r])' /\ Grows
  BY <1>1, Returned, NotReached DEF history
<1>8. QED
  BY <1>1, <1>6, <1>7, RowsKept, Concluded

\* What a request saving forms knows of the submission s it is saving.
LEMMA SavingForm ==
  ASSUME RecordsInv, NEW r \in Request, NEW s \in Submission, At(r, "form.save"),
         req[r].formPhase[s] # "none"
  PROVE  /\ req[r] \in RequestState /\ req[r].learner \in Learner
         /\ req[r].forms[s] \in SubmissionRow /\ submission[s] \in SubmissionRow
  BY Mine DEF At, RequestTrue, LocalsSet, Awaits, RecordsInv, TypeOK, RequestState

LEMMA ReloadFormStep ==
  ASSUME RecordsInv, NEW r \in Request, NEW s \in Submission, ReloadForm(r, s)
  PROVE  RecordsInv'
<1>. DEFINE d == Dirty(req[r].forms[s], submission[s])
<1>1. /\ req[r].pc = "form.save" /\ req[r].formPhase[s] = "save"
      /\ req' = [req EXCEPT ![r] = [@ EXCEPT !.formPhase[s] = "update",
                                             !.formDirty[s] = d]]
      /\ UNCHANGED <<tables, locks, history>>
  BY DEF ReloadForm, At
<1>2. /\ req[r] \in RequestState /\ req[r].learner \in Learner
      /\ submission[s] \in SubmissionRow /\ RequestTrue(req[r])
      /\ req[r].pc = "form.save"
  BY <1>1, SavingForm, Mine DEF At
<1>3. d \subseteq FormColumns
  BY <1>2, DirtyColumns
<1>. HIDE DEF d
<1>. DEFINE phases == [req[r].formPhase EXCEPT ![s] = "update"]
            dirty == [req[r].formDirty EXCEPT ![s] = d]
<1>4. req'[r] = [req[r] EXCEPT !.formPhase = phases, !.formDirty = dirty]
  BY <1>1, <1>2 DEF RecordsInv, TypeOK, RequestState
<1>5. /\ phases \in [Submission -> {"none", "save", "update"}]
      /\ dirty \in [Submission -> SUBSET FormColumns]
      /\ \A t \in Submission : phases[t] # "none" => req[r].formPhase[t] # "none"
  <2>1. /\ req[r].formPhase \in [Submission -> {"none", "save", "update"}]
        /\ req[r].formDirty \in [Submission -> SUBSET FormColumns]
    BY <1>2 DEF RequestState
  <2>2. QED
    BY <1>1, <1>3, <2>1
<1>. HIDE DEF phases, dirty
<1>6. req'[r] \in RequestState
  BY <1>2, <1>4, <1>5 DEF RequestState
<1>7. /\ req'[r].pc = "form.save" /\ req'[r].learner = req[r].learner
      /\ req'[r].forms = req[r].forms /\ req'[r].formPhase = phases
  BY <1>2, <1>4 DEF RequestState
<1>8. Only(r)
  BY <1>1, <1>6 DEF Only, RecordsInv, TypeOK
<1>9. RequestTrue(req[r])'
  BY <1>1, <1>2, <1>5, <1>7 DEF RequestTrue, LocalsSet, EntityTrue, AwaitReached,
     Awaits, SendAwaits, DecideAwaits, tables
<1>10. QED
  BY <1>1, <1>8, <1>9, OnlyMoves

\* FlushForm and SaveFormFails end the save of s.
LEMMA SaveIsOver ==
  ASSUME RecordsInv, NEW r \in Request, NEW s \in Submission, At(r, "form.save"),
         req[r].formPhase[s] # "none", SaveOver(r, s), FormsStay
  PROVE  Only(r) /\ RequestTrue(req[r])'
<1>1. CASE Return(r)
  BY <1>1, Returned
<1>2. CASE req' = [req EXCEPT ![r] =
                      [@ EXCEPT !.formPhase[s] = "none", !.formDirty[s] = {},
                                !.forms[s] = None]]
  <2>1. /\ req[r] \in RequestState /\ req[r].learner \in Learner
        /\ req[r].pc = "form.save" /\ RequestTrue(req[r])
    BY SavingForm, Mine DEF At
  <2>. DEFINE phases == [req[r].formPhase EXCEPT ![s] = "none"]
              dirty  == [req[r].formDirty EXCEPT ![s] = {}]
              forms  == [req[r].forms EXCEPT ![s] = None]
  <2>2. req'[r] = [req[r] EXCEPT !.formPhase = phases, !.formDirty = dirty,
                                 !.forms = forms]
    BY <1>2, <2>1 DEF RecordsInv, TypeOK, RequestState
  <2>3. /\ phases \in [Submission -> {"none", "save", "update"}]
        /\ dirty \in [Submission -> SUBSET FormColumns]
        /\ forms \in [Submission -> SubmissionRow \cup {None}]
    BY <2>1 DEF RequestState
  <2>4. /\ \A t \in Submission : phases[t] # "none" => forms[t] # None
        /\ \A t \in Submission : forms[t] # None => submission[t] # None
    BY <2>1 DEF RequestState, RequestTrue, LocalsSet
  <2>. HIDE DEF phases, dirty, forms
  <2>5. req'[r] \in RequestState
    BY <2>1, <2>2, <2>3 DEF RequestState
  <2>6. /\ req'[r].pc = "form.save" /\ req'[r].learner = req[r].learner
        /\ req'[r].forms = forms /\ req'[r].formPhase = phases
    BY <2>1, <2>2 DEF RequestState
  <2>7. Only(r)
    BY <1>2, <2>5 DEF Only, RecordsInv, TypeOK
  <2>8. RequestTrue(req[r])'
    BY <2>1, <2>4, <2>6 DEF RequestTrue, LocalsSet, EntityTrue, AwaitReached,
       Awaits, SendAwaits, DecideAwaits, FormsStay
  <2>9. QED
    BY <2>7, <2>8
<1>3. QED
  BY <1>1, <1>2 DEF SaveOver

LEMMA FlushFormStep ==
  ASSUME RecordsInv, NEW r \in Request, NEW s \in Submission, FlushForm(r, s)
  PROVE  RecordsInv'
<1>. DEFINE row == WriteBack(submission[s], req[r].forms[s], req[r].formDirty[s])
<1>1. /\ At(r, "form.save") /\ req[r].formPhase[s] # "none" /\ SaveOver(r, s)
      /\ submission' = [submission EXCEPT ![s] = row]
      /\ UNCHANGED <<learner, users, issued, student, locks, history>>
  BY DEF FlushForm
<1>2. row \in SubmissionRow /\ row # None
  BY <1>1, SavingForm, WriteBackSubmission, NoneAssumption
<1>. HIDE DEF row
<1>3. TablesTyped' /\ FormsStay
  BY <1>1, <1>2 DEF RecordsInv, TypeOK, TablesTyped, FormsStay, locks, history
<1>4. Only(r) /\ RequestTrue(req[r])' /\ Grows
  BY <1>1, <1>3, SaveIsOver, NotReached DEF history
<1>5. QED
  BY <1>1, <1>3, <1>4, RowsKept, Concluded

LEMMA SaveFormFailsStep ==
  ASSUME RecordsInv, NEW r \in Request, NEW s \in Submission, SaveFormFails(r, s)
  PROVE  RecordsInv'
<1>1. /\ At(r, "form.save") /\ req[r].formPhase[s] # "none" /\ SaveOver(r, s)
      /\ UNCHANGED <<tables, locks, history>>
  BY DEF SaveFormFails
<1>2. Only(r) /\ RequestTrue(req[r])'
  BY <1>1, SaveIsOver DEF FormsStay, tables
<1>3. QED
  BY <1>1, <1>2, OnlyMoves

LEMMA FormPreserves ==
  ASSUME RecordsInv, NEW r \in Request, FormStep(r)
  PROVE  RecordsInv'
  BY RefusedStep, InsertSubmissionStep, ReloadFormStep, FlushFormStep,
     SaveFormFailsStep DEF FormStep, InsertRefused

-----------------------------------------------------------------------------
(* Decisions. *)

LEMMA DecideCallStep ==
  ASSUME RecordsInv, NEW r \in Request, NEW l \in Learner,
         NEW verdict \in {"Approved", "Rejected"}, Decide(r, l, verdict)
  PROVE  RecordsInv'
<1>. DEFINE h == Holding("decide.student", l, learner[l])
<1>1. /\ learner[l] # None /\ learner[l].application_mail = "Sent"
      /\ req' = [req EXCEPT ![r] = [h EXCEPT !.verdict = verdict]]
      /\ UNCHANGED <<tables, locks, history>>
  BY DEF Decide
<1>2. /\ learner[l] \in LearnerRow
      /\ Shown(learner[l]) \cup {"created"} \subseteq past[l]
      /\ "sent" \in past[l] /\ past' = past
  BY <1>1, RowTrue DEF Shown, history
<1>3. /\ h \in RequestState /\ h.pc = "decide.student" /\ h.learner = l
      /\ h.entity = learner[l] /\ h.forms = NoForms /\ h.formPhase = NoPhases
  BY <1>2, HoldingType DEF Awaits, Holding
<1>. HIDE DEF h
<1>4. req'[r] = [h EXCEPT !.verdict = verdict]
  BY <1>1 DEF RecordsInv, TypeOK
<1>5. req'[r] \in RequestState
  BY <1>3, <1>4 DEF RequestState
<1>6. /\ req'[r].pc = "decide.student" /\ req'[r].learner = l
      /\ req'[r].entity = learner[l] /\ req'[r].verdict = verdict
      /\ req'[r].forms = NoForms /\ req'[r].formPhase = NoPhases
  BY <1>3, <1>4 DEF RequestState
<1>7. Only(r)
  BY <1>1, <1>5 DEF Only, RecordsInv, TypeOK
<1>8. LocalsSet(req[r])'
  BY <1>2, <1>6 DEF LocalsSet, Awaits, SendAwaits, DecideAwaits, NoForms, NoPhases
<1>9. EntityTrue(req[r])' /\ AwaitReached(req[r])'
  BY <1>2, <1>6 DEF EntityTrue, AwaitReached, SendAwaits, DecideAwaits, Shown
<1>10. QED
  BY <1>1, <1>7, <1>8, <1>9, OnlyMoves DEF RequestTrue

\* A decision's locals.
LEMMA Deciding ==
  ASSUME RecordsInv, NEW r \in Request, req[r].pc \in DecideAwaits
  PROVE  /\ req[r] \in RequestState /\ req[r].learner \in Learner
         /\ req[r].entity \in LearnerRow
         /\ req[r].verdict \in {"Approved", "Rejected"}
         /\ req[r].pc # "decide.student" => req[r].peer \in Learner
         /\ Shown(req[r].entity) \cup {"created", "sent"}
               \subseteq past[req[r].learner]
         /\ \A s \in Submission : /\ req[r].formPhase[s] = "none"
                                  /\ req[r].forms[s] # None => submission[s] # None
  BY Mine DEF RequestTrue, LocalsSet, EntityTrue, AwaitReached, Awaits, DecideAwaits

\* A decision goes on to its next await.
LEMMA DecideGoesOn ==
  ASSUME RecordsInv, NEW r \in Request, req[r].pc \in DecideAwaits,
         NEW pc \in DecideAwaits \ {"decide.student"}, req'[r].pc = pc,
         req'[r].learner = req[r].learner, req'[r].entity = req[r].entity,
         req'[r].verdict = req[r].verdict, req'[r].peer \in Learner,
         req'[r].formPhase = req[r].formPhase,
         \A s \in Submission : req'[r].forms[s] # None => submission[s] # None,
         UNCHANGED <<tables, past>>
  PROVE  RequestTrue(req[r])'
<1>1. LocalsSet(req[r])'
  BY Deciding DEF LocalsSet, SendAwaits, DecideAwaits, Awaits, tables
<1>2. EntityTrue(req[r])'
  BY Deciding DEF EntityTrue, SendAwaits, DecideAwaits
<1>3. AwaitReached(req[r])'
  BY Deciding DEF AwaitReached, SendAwaits, DecideAwaits
<1>4. QED
  BY <1>1, <1>2, <1>3 DEF RequestTrue

LEMMA DecideFindStudentStep ==
  ASSUME RecordsInv, NEW r \in Request, DecideFindStudent(r)
  PROVE  RecordsInv'
<1>1. /\ req[r].pc = "decide.student" /\ UNCHANGED <<tables, locks, history>>
  BY DEF DecideFindStudent, At
<1>2. PICK p \in Learner :
        req' = [req EXCEPT ![r] = [@ EXCEPT !.pc = "decide.begin", !.peer = p]]
  BY DEF DecideFindStudent
<1>3. req'[r] = [req[r] EXCEPT !.pc = "decide.begin", !.peer = p]
  BY <1>2 DEF RecordsInv, TypeOK
<1>4. req[r] \in RequestState
  BY Mine
<1>5. req'[r] \in RequestState
  BY <1>3, <1>4 DEF RequestState, Awaits
<1>6. /\ req'[r].pc = "decide.begin" /\ req'[r].peer = p
      /\ req'[r].learner = req[r].learner /\ req'[r].entity = req[r].entity
      /\ req'[r].verdict = req[r].verdict /\ req'[r].forms = req[r].forms
      /\ req'[r].formPhase = req[r].formPhase
  BY <1>3, <1>4 DEF RequestState
<1>7. Only(r)
  BY <1>2, <1>5 DEF Only, RecordsInv, TypeOK
<1>8. req[r].pc \in DecideAwaits /\ "decide.begin" \in DecideAwaits \ {"decide.student"}
  BY <1>1 DEF DecideAwaits
<1>9. RequestTrue(req[r])'
  BY <1>1, <1>6, <1>8, Deciding, DecideGoesOn DEF history
<1>10. QED
  BY <1>1, <1>7, <1>9, OnlyMoves

\* What a decision does to a submission leaves a submission.
LEMMA DecidedType ==
  ASSUME NEW row \in SubmissionRow, NEW verdict
  PROVE  Decided(row, verdict) \in SubmissionRow
<1>1. [row EXCEPT !.is_submitted = TRUE] \in SubmissionRow
  BY DEF SubmissionRow
<1>2. [row EXCEPT !.is_submitted = FALSE, !.status = "rejected"] \in SubmissionRow
  BY DEF SubmissionRow, SubmissionStatus
<1>3. QED
  BY <1>1, <1>2 DEF Decided

LEMMA DecideBeginStep ==
  ASSUME RecordsInv, NEW r \in Request, DecideBegin(r)
  PROVE  RecordsInv'
<1>. DEFINE l == req[r].learner
            p == req[r].peer
            forms == [s \in Submission |->
                        IF /\ s \in SubmissionsOf(l)
                           /\ submission[s].status = "submitted"
                          THEN Decided(submission[s], req[r].verdict)
                          ELSE None]
<1>1. /\ req[r].pc = "decide.begin"
      /\ lock' = [lock EXCEPT ![l] = IF learner[l] = None THEN None ELSE r]
      /\ studentLock' =
            [studentLock EXCEPT ![p] = IF student[p] = None THEN None ELSE r]
      /\ req' = [req EXCEPT ![r] =
                    [@ EXCEPT !.pc = "decide.reload", !.forms = forms]]
      /\ UNCHANGED <<tables, history>>
  BY DEF DecideBegin, At
<1>2. /\ req[r].pc \in DecideAwaits
      /\ "decide.reload" \in DecideAwaits \ {"decide.student"}
  BY <1>1 DEF DecideAwaits
<1>3. req[r] \in RequestState /\ p \in Learner
  BY <1>1, <1>2, Deciding
<1>4. forms \in [Submission -> SubmissionRow \cup {None}]
  <2>1. \A s \in SubmissionsOf(l) : submission[s] \in SubmissionRow
    BY DEF SubmissionsOf, RecordsInv, TypeOK
  <2>2. QED
    BY <2>1, DecidedType
<1>5. \A s \in Submission : forms[s] # None => submission[s] # None
  BY DEF SubmissionsOf
<1>6. req'[r] = [req[r] EXCEPT !.pc = "decide.reload", !.forms = forms]
  BY <1>1 DEF RecordsInv, TypeOK
<1>7. TablesTyped'
  BY <1>1 DEF RecordsInv, TypeOK, TablesTyped, tables, history
<1>. HIDE DEF forms
<1>8. req'[r] \in RequestState
  BY <1>3, <1>4, <1>6 DEF RequestState, Awaits
<1>9. /\ req'[r].pc = "decide.reload" /\ req'[r].peer = p
      /\ req'[r].learner = l /\ req'[r].entity = req[r].entity
      /\ req'[r].verdict = req[r].verdict /\ req'[r].forms = forms
      /\ req'[r].formPhase = req[r].formPhase
  BY <1>3, <1>6 DEF RequestState
<1>10. Only(r)
  BY <1>1, <1>8 DEF Only, RecordsInv, TypeOK
<1>11. UNCHANGED <<tables, past>>
  BY <1>1 DEF history
<1>12. RequestTrue(req[r])'
  BY <1>2, <1>3, <1>5, <1>9, <1>11, DecideGoesOn
<1>13. QED
  BY <1>7, <1>10, <1>11, <1>12, Quiet

LEMMA DecideReloadStep ==
  ASSUME RecordsInv, NEW r \in Request, DecideReload(r)
  PROVE  RecordsInv'
<1>. DEFINE dirty == [s \in Submission |->
                        IF req[r].forms[s] = None THEN {}
                        ELSE Dirty(req[r].forms[s], submission[s])]
<1>1. /\ req[r].pc = "decide.reload"
      /\ req' = [req EXCEPT ![r] =
                    [@ EXCEPT !.pc = "decide.commit", !.formDirty = dirty]]
      /\ UNCHANGED <<tables, locks, history>>
  BY DEF DecideReload, At
<1>2. /\ req[r].pc \in DecideAwaits
      /\ "decide.commit" \in DecideAwaits \ {"decide.student"}
  BY <1>1 DEF DecideAwaits
<1>3. /\ req[r] \in RequestState /\ req[r].peer \in Learner
      /\ \A s \in Submission : req[r].forms[s] # None => submission[s] # None
  BY <1>1, <1>2, Deciding
<1>4. dirty \in [Submission -> SUBSET FormColumns]
  <2>1. \A s \in Submission : submission[s] \in SubmissionRow \cup {None}
    BY DEF RecordsInv, TypeOK
  <2>2. QED
    BY <1>3, <2>1, DirtyColumns
<1>5. req'[r] = [req[r] EXCEPT !.pc = "decide.commit", !.formDirty = dirty]
  BY <1>1 DEF RecordsInv, TypeOK
<1>. HIDE DEF dirty
<1>6. req'[r] \in RequestState
  BY <1>3, <1>4, <1>5 DEF RequestState, Awaits
<1>7. /\ req'[r].pc = "decide.commit" /\ req'[r].peer = req[r].peer
      /\ req'[r].learner = req[r].learner /\ req'[r].entity = req[r].entity
      /\ req'[r].verdict = req[r].verdict /\ req'[r].forms = req[r].forms
      /\ req'[r].formPhase = req[r].formPhase
  BY <1>3, <1>5 DEF RequestState
<1>8. Only(r)
  BY <1>1, <1>6 DEF Only, RecordsInv, TypeOK
<1>9. RequestTrue(req[r])'
  BY <1>1, <1>2, <1>3, <1>7, DecideGoesOn DEF history
<1>10. QED
  BY <1>1, <1>8, <1>9, OnlyMoves

\* What a commit writes to the submissions.
LEMMA CommitForms ==
  ASSUME RecordsInv, NEW r \in Request,
         req[r].pc \in DecideAwaits,
         submission' = [s \in Submission |->
            IF req[r].forms[s] = None THEN submission[s]
            ELSE WriteBack(submission[s], req[r].forms[s], req[r].formDirty[s])]
  PROVE  submission' \in [Submission -> SubmissionRow \cup {None}] /\ FormsStay
<1>1. ASSUME NEW s \in Submission, req[r].forms[s] # None
      PROVE  WriteBack(submission[s], req[r].forms[s], req[r].formDirty[s])
                \in SubmissionRow
  <2>1. submission[s] \in SubmissionRow /\ req[r].forms[s] \in SubmissionRow
    BY <1>1, Deciding DEF RecordsInv, TypeOK, RequestState
  <2>2. QED
    BY <2>1, WriteBackSubmission
<1>2. submission \in [Submission -> SubmissionRow \cup {None}]
  BY DEF RecordsInv, TypeOK
<1>3. QED
  BY <1>1, <1>2, NoneAssumption DEF FormsStay

\* A transaction that ends leaves well-typed locks.
LEMMA Unlocked ==
  ASSUME RecordsInv, NEW r
  PROVE  /\ [l \in Learner |-> IF lock[l] = r THEN None ELSE lock[l]]
               \in [Learner -> Request \cup {None}]
         /\ [l \in Learner |-> IF studentLock[l] = r THEN None ELSE studentLock[l]]
               \in [Learner -> Request \cup {None}]
  BY DEF RecordsInv, TypeOK

LEMMA DecideCommitStep ==
  ASSUME CoreInv, NEW r \in Request, DecideCommit(r)
  PROVE  RecordsInv'
<1>. DEFINE l == req[r].learner
            p == req[r].peer
            v == req[r].verdict
            m == IF v = "Approved" THEN "approved" ELSE "rejected"
            row == [learner[l] EXCEPT !.application_status = v]
            copy == [student[p] EXCEPT !.application_status = v]
<1>1. /\ req[r].pc = "decide.commit" /\ Return(r)
      /\ \/ /\ lock[l] = r
            /\ learner' = [learner EXCEPT ![l] = row]
            /\ Reach(l, m)
         \/ UNCHANGED <<learner, history>>
      /\ \/ /\ studentLock[p] = r
            /\ student' = [student EXCEPT ![p] = copy]
         \/ UNCHANGED student
      /\ UNCHANGED <<users, issued>>
  BY DEF DecideCommit, At
<1>2. RecordsInv
  BY DEF CoreInv
<1>3. /\ l \in Learner /\ v \in {"Approved", "Rejected"} /\ p \in Learner
      /\ {"created", "sent"} \subseteq past[l] /\ req[r].pc \in DecideAwaits
  BY <1>1, <1>2, Deciding DEF DecideAwaits
<1>4. Only(r) /\ RequestTrue(req[r])'
  BY <1>1, <1>2, Returned
<1>5. submission' \in [Submission -> SubmissionRow \cup {None}] /\ FormsStay
  BY <1>2, <1>3, CommitForms DEF DecideCommit
<1>6. /\ lock' \in [Learner -> Request \cup {None}]
      /\ studentLock' \in [Learner -> Request \cup {None}]
  BY <1>2, Unlocked DEF DecideCommit
<1>7. student' \in [Learner -> StudentRow \cup {None}]
  <2>1. student[p] # None => copy \in StudentRow
    BY <1>2, <1>3 DEF RecordsInv, TypeOK, StudentRow
  <2>2. studentLock[p] = r => student[p] # None
    BY <1>3, NoneAssumption DEF CoreInv, LocksHeldByDecisions
  <2>. HIDE DEF copy
  <2>3. QED
    BY <1>1, <1>2, <1>3, <2>1, <2>2 DEF RecordsInv, TypeOK
<1>8. CASE UNCHANGED <<learner, history>>
  <2>1. Grows /\ StagesInOrder' /\ RowsCreated'
    BY <1>2, <1>8, NotReached, RowsKept DEF history
  <2>2. TablesTyped'
    BY <1>1, <1>2, <1>5, <1>6, <1>7, <1>8
       DEF RecordsInv, TypeOK, TablesTyped, history
  <2>3. QED
    BY <1>2, <1>4, <1>5, <2>1, <2>2, Concluded
<1>9. CASE /\ lock[l] = r
           /\ learner' = [learner EXCEPT ![l] = row]
           /\ Reach(l, m)
  <2>1. learner[l] # None
    BY <1>3, <1>9, NoneAssumption DEF CoreInv, LocksHeldByDecisions
  <2>2. /\ learner[l] \in LearnerRow
        /\ Shown(learner[l]) \cup {"created"} \subseteq past[l]
    BY <1>2, <1>3, <2>1, RowTrue
  <2>3. Progress!Before(m) \subseteq past[l]
    BY <1>2, <1>3 DEF RecordsInv, StagesInOrder, Progress!Before
  <2>4. Grows /\ m \in past'[l] /\ turnedIn' = turnedIn
    BY <1>2, <1>3, <1>9, <2>3, Reached DEF Milestones
  <2>5. row \in LearnerRow /\ Shown(row) \subseteq Shown(learner[l]) \cup {m}
    BY <1>3, <2>2, StagedRow
  <2>. HIDE DEF row
  <2>6. Shown(row) \subseteq past'[l] /\ "created" \in past'[l]
    BY <1>3, <2>2, <2>4, <2>5 DEF Grows
  <2>7. /\ learner' \in [Learner -> LearnerRow \cup {None}]
        /\ StagesInOrder' /\ RowsCreated'
    BY <1>2, <1>3, <1>9, <2>4, <2>5, <2>6, RowWritten
  <2>8. TablesTyped'
    BY <1>1, <1>2, <1>5, <1>6, <1>7, <2>4, <2>7
       DEF RecordsInv, TypeOK, TablesTyped
  <2>9. QED
    BY <1>2, <1>4, <1>5, <2>4, <2>7, <2>8, Concluded
<1>10. QED
  BY <1>1, <1>8, <1>9

LEMMA DecidePreserves ==
  ASSUME CoreInv, NEW r \in Request, DecideStep(r)
  PROVE  RecordsInv'
  BY RefusedStep, DecideFindStudentStep, DecideBeginStep, DecideReloadStep,
     DecideCommitStep DEF DecideStep, DecideNoStudent, CoreInv

-----------------------------------------------------------------------------
(* All steps. *)

LEMMA FailStep ==
  ASSUME RecordsInv, NEW r \in Request, Fail(r)
  PROVE  RecordsInv'
<1>1. Return(r) /\ UNCHANGED <<tables, history>>
  BY DEF Fail
<1>2. TablesTyped'
  BY <1>1, Unlocked DEF Fail, RecordsInv, TypeOK, TablesTyped, tables, history
<1>3. QED
  BY <1>1, <1>2, Returned, Quiet DEF history

LEMMA CallPreserves ==
  ASSUME RecordsInv, NEW r \in Request, ClientCall(r)
  PROVE  RecordsInv'
<1>1. CASE AccountCall(r)
  BY <1>1, SendLearnerMailStep, DeleteUserStep DEF AccountCall
<1>2. CASE RecordCall(r)
  <2>1. ASSUME NEW l \in Learner, DeleteStudent(r, l)
        PROVE  RecordsInv'
    BY <2>1, HoldsIdStep DEF DeleteStudent
  <2>2. QED
    BY <1>2, <2>1, CreateLearnerStep, EditStep, SendMeetingLinkStep,
       UpdateAttendanceStatusStep DEF RecordCall
<1>3. CASE FormCall(r)
  <2>1. ASSUME NEW l \in Learner, CreateSubmission(r, l)
        PROVE  RecordsInv'
    BY <2>1, HoldsIdStep DEF CreateSubmission
  <2>2. QED
    BY <1>3, <2>1, SubmitFormStep, UpdateDraftStep, ReviewSubmissionStep DEF FormCall
<1>4. CASE DecideCall(r)
  BY <1>4, DecideCallStep DEF DecideCall, ApproveApplication, RejectApplication
<1>5. QED
  BY <1>1, <1>2, <1>3, <1>4 DEF ClientCall

LEMMA RecordsPreserved ==
  ASSUME CoreInv, Next
  PROVE  RecordsInv'
  BY SendPreserves, RecordPreserves, FormPreserves, DecidePreserves,
     CallPreserves, FailStep DEF Next, HandlerStep, CoreInv

-----------------------------------------------------------------------------
(* The row locks. *)

\* The requests but r have not moved.
OthersStay(r) == \A o \in Request \ {r} : req'[o] = req[o]

\* A locked row is not deleted.
LockedStay ==
    \A l \in Learner : /\ lock[l] # None => learner'[l] # None
                       /\ studentLock[l] # None => student'[l] # None

LEMMA UpdatesOne ==
  ASSUME RecordsInv, NEW r \in Request, NEW q, req' = [req EXCEPT ![r] = q]
  PROVE  OthersStay(r)
  BY DEF OthersStay, RecordsInv, TypeOK

LEMMA RowsStay ==
  ASSUME CoreInv, UNCHANGED <<learner, student>>
  PROVE  LockedStay
  BY DEF CoreInv, LocksHeldByDecisions, LockedStay

\* A row that is written stays.
LEMMA LearnerRowStays ==
  ASSUME CoreInv, NEW l, NEW row \in LearnerRow,
         learner' = [learner EXCEPT ![l] = row], UNCHANGED student
  PROVE  LockedStay
  BY NoneAssumption DEF CoreInv, LocksHeldByDecisions, LockedStay, RecordsInv, TypeOK

LEMMA StudentRowStays ==
  ASSUME CoreInv, NEW l, NEW row \in StudentRow,
         student' = [student EXCEPT ![l] = row], UNCHANGED learner
  PROVE  LockedStay
  BY NoneAssumption DEF CoreInv, LocksHeldByDecisions, LockedStay, RecordsInv, TypeOK

\* A step of a request that is not in a transaction.
LEMMA LocksStay ==
  ASSUME CoreInv, NEW r \in Request, OthersStay(r), UNCHANGED locks, LockedStay,
         req[r].pc \notin {"decide.reload", "decide.commit"}
  PROVE  LocksHeldByDecisions'
<1>1. \A l \in Learner : /\ lock[l] \in Request \cup {None}
                         /\ studentLock[l] \in Request \cup {None}
  BY DEF CoreInv, RecordsInv, TypeOK
<1>2. \A l \in Learner : /\ lock[l] # r /\ studentLock[l] # r
                         /\ lock'[l] = lock[l] /\ studentLock'[l] = studentLock[l]
  BY NoneAssumption DEF CoreInv, LocksHeldByDecisions, locks
<1>3. QED
  BY <1>1, <1>2 DEF CoreInv, LocksHeldByDecisions, OthersStay, LockedStay

LEMMA CallLocks ==
  ASSUME CoreInv, NEW r \in Request, ClientCall(r)
  PROVE  LocksHeldByDecisions'
<1>. USE DEF Call
<1>1. RecordsInv
  BY DEF CoreInv
<1>2. CASE \E u \in UserId : DeleteUser(r, u)
  <2>1. PICK u \in UserId : DeleteUser(r, u)
    BY <1>2
  <2>2. req[r].pc = "idle" /\ UNCHANGED locks /\ OthersStay(r)
    BY <1>1, <2>1, UpdatesOne DEF DeleteUser, Return
  <2>3. LockedStay
    BY <2>1 DEF DeleteUser, StudentWritable, CoreInv, LocksHeldByDecisions, LockedStay
  <2>4. QED
    BY <2>2, <2>3, LocksStay
<1>3. ASSUME NEW q, req' = [req EXCEPT ![r] = q], req[r].pc = "idle",
             UNCHANGED <<tables, locks>>
      PROVE  LocksHeldByDecisions'
  BY <1>1, <1>3, UpdatesOne, RowsStay, LocksStay DEF tables
<1>4. CASE \E l \in Learner : SendLearnerMail(r, l)
  BY <1>3, <1>4 DEF SendLearnerMail
<1>5. CASE RecordCall(r)
  BY <1>3, <1>5 DEF RecordCall, CreateLearner, EditInformation, DeleteStudent,
     SendMeetingLink, UpdateAttendanceStatus, ApproveLazer, ApproveCertificate,
     ArchiveStudent, UnarchiveStudent, LoadAndSave
<1>6. CASE FormCall(r)
  BY <1>3, <1>6 DEF FormCall, CreateSubmission, SubmitForm, UpdateDraft,
     ReviewSubmission, SaveForms
<1>7. CASE DecideCall(r)
  BY <1>3, <1>7 DEF DecideCall, ApproveApplication, RejectApplication, Decide
<1>8. QED
  BY <1>2, <1>4, <1>5, <1>6, <1>7 DEF ClientCall, AccountCall

LEMMA SendLocks ==
  ASSUME CoreInv, NEW r \in Request, SendStep(r)
  PROVE  LocksHeldByDecisions'
<1>1. RecordsInv
  BY DEF CoreInv
<1>2. /\ UNCHANGED locks
      /\ req[r].pc \notin {"decide.reload", "decide.commit"}
  BY DEF SendStep, SendEmailExists, SendEmailFree, SendCreateUser,
     SendUserConflict, SendReloadStudent, SendInsertStudent, SendUpdateStudent,
     SendStudentConflict, SendMail, SendMark, At
<1>3. OthersStay(r)
  BY <1>1 DEF SendStep, SendEmailExists, SendEmailFree, SendCreateUser,
     SendUserConflict, SendReloadStudent, SendInsertStudent, SendUpdateStudent,
     SendStudentConflict, SendMail, SendMark, Goto, Return, OthersStay,
     RecordsInv, TypeOK
<1>4. LockedStay
  <2>1. CASE SendMark(r)
    <3>. DEFINE l == req[r].learner
                row == [learner[l] EXCEPT !.application_mail = "Sent"]
    <3>1. /\ req[r].pc = "send.mark" /\ UNCHANGED student
          /\ \/ learner[l] # None /\ learner' = [learner EXCEPT ![l] = row]
             \/ UNCHANGED learner
      BY <2>1 DEF SendMark, At
    <3>2. l \in Learner /\ (learner[l] # None => row \in LearnerRow)
      BY <1>1, <3>1, Sending, RowTrue, StagedRow
    <3>. HIDE DEF row
    <3>3. QED
      BY <3>1, <3>2, RowsStay, LearnerRowStays
  <2>2. CASE SendInsertStudent(r)
    <3>1. /\ req[r].pc = "send.flush" /\ UNCHANGED learner
          /\ student' = [student EXCEPT ![req[r].learner] = StudentEntity(req[r])]
      BY <2>2 DEF SendInsertStudent, At
    <3>2. StudentEntity(req[r]) \in StudentRow
      BY <1>1, <3>1, Sending, StudentEntityType
    <3>3. QED
      BY <3>1, <3>2, StudentRowStays
  <2>3. CASE SendUpdateStudent(r)
    <3>. DEFINE l == req[r].learner
                row == WriteBack(student[l], StudentEntity(req[r]), req[r].dirty)
    <3>1. /\ req[r].pc = "send.flush" /\ UNCHANGED learner
          /\ \/ UNCHANGED student
             \/ student[l] # None /\ student' = [student EXCEPT ![l] = row]
      BY <2>3 DEF SendUpdateStudent, At
    <3>2. student[l] # None => row \in StudentRow
      BY <1>1, <3>1, Sending, StudentEntityType, WriteBackStudent
         DEF RecordsInv, TypeOK
    <3>. HIDE DEF row
    <3>3. QED
      BY <3>1, <3>2, RowsStay, StudentRowStays
  <2>4. CASE UNCHANGED <<learner, student>>
    BY <2>4, RowsStay
  <2>5. QED
    BY <2>1, <2>2, <2>3, <2>4 DEF SendStep, SendEmailExists, SendEmailFree,
       SendCreateUser, SendUserConflict, SendReloadStudent, SendStudentConflict,
       SendMail, tables
<1>5. QED
  BY <1>2, <1>3, <1>4, LocksStay

LEMMA RecordLocks ==
  ASSUME CoreInv, NEW r \in Request, RecordStep(r)
  PROVE  LocksHeldByDecisions'
<1>. DEFINE l == req[r].learner
            e == req[r].entity
<1>1. RecordsInv
  BY DEF CoreInv
<1>2. /\ UNCHANGED locks /\ UNCHANGED student
      /\ req[r].pc \notin {"decide.reload", "decide.commit"}
  BY DEF RecordStep, InsertLearner, DeleteLearnerRow, DeleteRefused, MeetingMail,
     Reload, FlushInsert, FlushUpdate, At, tables
<1>3. OthersStay(r)
  BY <1>1 DEF RecordStep, InsertLearner, DeleteLearnerRow, DeleteRefused,
     MeetingMail, Reload, FlushInsert, FlushUpdate, Return, OthersStay,
     RecordsInv, TypeOK
<1>4. LockedStay
  <2>1. CASE InsertLearner(r)
    <3>1. e \in LearnerRow
      BY <1>1, <2>1, Mine DEF InsertLearner, At, RequestTrue, LocalsSet
    <3>2. QED
      BY <1>2, <2>1, <3>1, LearnerRowStays DEF InsertLearner
  <2>2. CASE DeleteLearnerRow(r)
    <3>1. /\ req[r].pc = "delete" /\ lock[l] = None
          /\ learner' = [learner EXCEPT ![l] = None]
      BY <2>2 DEF DeleteLearnerRow, Writable, At
    <3>2. QED
      BY <1>1, <1>2, <3>1 DEF CoreInv, LocksHeldByDecisions, LockedStay,
         RecordsInv, TypeOK
  <2>3. CASE FlushInsert(r) \/ FlushUpdate(r)
    <3>1. req[r].pc = "flush"
      BY <2>3 DEF FlushInsert, FlushUpdate, At
    <3>2. l \in Learner /\ e \in LearnerRow
      BY <1>1, <3>1, Saving
    <3>. DEFINE row == WriteBack(learner[l], e, req[r].dirty)
    <3>3. \/ UNCHANGED learner
          \/ learner' = [learner EXCEPT ![l] = e]
          \/ learner[l] # None /\ learner' = [learner EXCEPT ![l] = row]
      BY <2>3 DEF FlushInsert, FlushUpdate
    <3>4. learner[l] # None => row \in LearnerRow
      BY <1>1, <3>2, RowTrue, WriteBackLearner
    <3>. HIDE DEF row
    <3>5. QED
      BY <1>2, <3>2, <3>3, <3>4, RowsStay, LearnerRowStays
  <2>4. CASE UNCHANGED learner
    BY <1>2, <2>4, RowsStay
  <2>5. QED
    BY <2>1, <2>2, <2>3, <2>4 DEF RecordStep, DeleteRefused, MeetingMail, Reload,
       tables
<1>5. QED
  BY <1>2, <1>3, <1>4, LocksStay

LEMMA FormLocks ==
  ASSUME CoreInv, NEW r \in Request, FormStep(r)
  PROVE  LocksHeldByDecisions'
<1>1. /\ UNCHANGED <<locks, learner, student>>
      /\ req[r].pc \notin {"decide.reload", "decide.commit"}
  BY DEF FormStep, InsertSubmission, InsertRefused, ReloadForm, FlushForm,
     SaveFormFails, At, tables
<1>2. OthersStay(r)
  BY DEF FormStep, InsertSubmission, InsertRefused, ReloadForm, FlushForm,
     SaveFormFails, SaveOver, Return, OthersStay, CoreInv, RecordsInv, TypeOK
<1>3. QED
  BY <1>1, <1>2, RowsStay, LocksStay

\* The end of r's transaction.
LEMMA LocksReleased ==
  ASSUME CoreInv, NEW r \in Request, OthersStay(r),
         lock' = [l \in Learner |-> IF lock[l] = r THEN None ELSE lock[l]],
         studentLock' = [l \in Learner |->
                           IF studentLock[l] = r THEN None ELSE studentLock[l]],
         \A l \in Learner :
            /\ lock[l] \notin {None, r} => learner'[l] # None
            /\ studentLock[l] \notin {None, r} => student'[l] # None
  PROVE  LocksHeldByDecisions'
<1>1. \A l \in Learner : /\ lock[l] \in Request \cup {None}
                         /\ studentLock[l] \in Request \cup {None}
  BY DEF CoreInv, RecordsInv, TypeOK
<1>2. QED
  BY <1>1 DEF CoreInv, LocksHeldByDecisions, OthersStay

LEMMA FailLocks ==
  ASSUME CoreInv, NEW r \in Request, Fail(r)
  PROVE  LocksHeldByDecisions'
<1>1. OthersStay(r)
  BY UpdatesOne DEF Fail, Return, CoreInv
<1>2. UNCHANGED <<learner, student>>
  BY DEF Fail, tables
<1>3. \A l \in Learner : /\ lock[l] # None => learner'[l] # None
                         /\ studentLock[l] # None => student'[l] # None
  BY <1>2 DEF CoreInv, LocksHeldByDecisions
<1>4. QED
  BY <1>1, <1>3, LocksReleased DEF Fail

LEMMA DecideBeginLocks ==
  ASSUME CoreInv, NEW r \in Request, DecideBegin(r)
  PROVE  LocksHeldByDecisions'
<1>. DEFINE k == req[r].learner
            p == req[r].peer
<1>1. /\ req[r].pc = "decide.begin"
      /\ lock' = [lock EXCEPT ![k] = IF learner[k] = None THEN None ELSE r]
      /\ studentLock' =
            [studentLock EXCEPT ![p] = IF student[p] = None THEN None ELSE r]
      /\ UNCHANGED <<learner, student>>
      /\ OthersStay(r)
      /\ req'[r].pc = "decide.reload" /\ req'[r].learner = k /\ req'[r].peer = p
  <2>1. req[r] \in RequestState /\ RecordsInv
    BY DEF CoreInv, RecordsInv, TypeOK
  <2>2. QED
    BY <2>1, UpdatesOne DEF DecideBegin, At, tables, RecordsInv, TypeOK, RequestState
<1>2. k \in Learner /\ p \in Learner
  BY <1>1, Deciding DEF DecideAwaits, CoreInv
<1>3. \A l \in Learner : /\ lock[l] \in Request \cup {None} /\ lock[l] # r
                         /\ studentLock[l] \in Request \cup {None}
                         /\ studentLock[l] # r
  BY <1>1, NoneAssumption DEF CoreInv, LocksHeldByDecisions, RecordsInv, TypeOK
<1>4. \A l \in Learner :
         /\ lock'[l] = IF l # k THEN lock[l]
                       ELSE IF learner[k] = None THEN None ELSE r
         /\ studentLock'[l] = IF l # p THEN studentLock[l]
                              ELSE IF student[p] = None THEN None ELSE r
  BY <1>1 DEF CoreInv, RecordsInv, TypeOK
<1>5. QED
  BY <1>1, <1>2, <1>3, <1>4 DEF CoreInv, LocksHeldByDecisions, OthersStay

LEMMA DecideLocks ==
  ASSUME CoreInv, NEW r \in Request, DecideStep(r)
  PROVE  LocksHeldByDecisions'
<1>1. RecordsInv /\ req[r] \in RequestState
  BY DEF CoreInv, RecordsInv, TypeOK
<1>2. OthersStay(r)
  BY <1>1 DEF DecideStep, DecideFindStudent, DecideNoStudent, DecideBegin,
     DecideReload, DecideCommit, Return, OthersStay, RecordsInv, TypeOK
<1>3. CASE DecideFindStudent(r) \/ DecideNoStudent(r)
  <2>1. /\ UNCHANGED <<locks, learner, student>>
        /\ req[r].pc \notin {"decide.reload", "decide.commit"}
    BY <1>3 DEF DecideFindStudent, DecideNoStudent, At, tables
  <2>2. QED
    BY <1>2, <2>1, RowsStay, LocksStay
<1>4. CASE DecideBegin(r)
  BY <1>4, DecideBeginLocks
<1>5. CASE DecideReload(r)
  <2>1. /\ UNCHANGED <<locks, learner, student>>
        /\ req'[r].pc = "decide.commit"
        /\ req'[r].learner = req[r].learner /\ req'[r].peer = req[r].peer
    BY <1>1, <1>5 DEF DecideReload, tables, RecordsInv, TypeOK, RequestState
  <2>2. \A l \in Learner : /\ lock[l] \in Request \cup {None}
                           /\ studentLock[l] \in Request \cup {None}
    BY <1>1 DEF RecordsInv, TypeOK
  <2>3. QED
    BY <1>2, <2>1, <2>2 DEF CoreInv, LocksHeldByDecisions, OthersStay, locks
<1>6. CASE DecideCommit(r)
  <2>1. \A l \in Learner : /\ lock[l] \notin {None, r} => learner'[l] # None
                           /\ studentLock[l] \notin {None, r} => student'[l] # None
    BY <1>1, <1>6 DEF DecideCommit, CoreInv, LocksHeldByDecisions, RecordsInv, TypeOK
  <2>2. QED
    BY <1>2, <1>6, <2>1, LocksReleased DEF DecideCommit
<1>7. QED
  BY <1>3, <1>4, <1>5, <1>6 DEF DecideStep

LEMMA LocksPreserved ==
  ASSUME CoreInv, Next
  PROVE  LocksHeldByDecisions'
  BY CallLocks, SendLocks, RecordLocks, FormLocks, DecideLocks, FailLocks
     DEF Next, HandlerStep

-----------------------------------------------------------------------------
(* The theorems. *)

LEMMA InitCoreInv == Init => CoreInv
<1>. SUFFICES ASSUME Init
              PROVE  CoreInv
  OBVIOUS
<1>1. \A l \in Learner : \/ learner[l] = None /\ past[l] = {}
                         \/ /\ \E e \in Email : learner[l] = NewLearner(e)
                            /\ learner[l] # None /\ past[l] = {"created"}
  BY NewLearnerType, NoneAssumption DEF Init
<1>2. req \in [Request -> RequestState] /\ \A r \in Request : RequestTrue(req[r])
  BY NotStarted DEF Init, Idle
<1>3. TypeOK
  BY <1>2, NewLearnerType DEF Init, TypeOK, Milestones
<1>4. StagesInOrder
  BY <1>1, NewLearnerType DEF StagesInOrder, Progress!Before, Shown
<1>5. RowsCreated
  BY <1>1 DEF RowsCreated
<1>6. RequestsTrue
  BY <1>2 DEF RequestsTrue, RequestTrue
<1>7. LocksHeldByDecisions
  BY DEF Init, LocksHeldByDecisions
<1>8. QED
  BY <1>3, <1>4, <1>5, <1>6, <1>7 DEF CoreInv, RecordsInv

LEMMA NextCoreInv == CoreInv /\ [Next]_vars => CoreInv'
<1>. SUFFICES ASSUME CoreInv, [Next]_vars
              PROVE  CoreInv'
  OBVIOUS
<1>1. CASE Next
  BY <1>1, RecordsPreserved, LocksPreserved DEF CoreInv
<1>2. CASE UNCHANGED vars
  <2>1. RecordsInv'
    BY <1>2 DEF vars, CoreInv, RecordsInv, TypeOK, StagesInOrder, RowsCreated,
       RequestsTrue, LocalsSet, EntityTrue, AwaitReached
  <2>2. LocksHeldByDecisions'
    BY <1>2 DEF vars, CoreInv, LocksHeldByDecisions
  <2>3. QED
    BY <2>1, <2>2 DEF CoreInv
<1>3. QED
  BY <1>1, <1>2

\* The inductive invariant: at every await of every handler, what the request
\* holds in memory is true of what has happened, whatever ran meanwhile.
THEOREM CoreInvariant == Spec => []CoreInv
  BY InitCoreInv, NextCoreInv, PTL DEF Spec

\* Every variable keeps its type.
THEOREM TypeCorrect == Spec => []TypeOK
<1>1. CoreInv => TypeOK
  BY DEF CoreInv, RecordsInv
<1>2. QED
  BY <1>1, CoreInvariant, PTL

\* No interleaving of stale saves, mails, failures and decisions makes a
\* learner's record show a stage the learner has not been through in order.
THEOREM StagesAreInOrder == Spec => []StagesInOrder
<1>1. CoreInv => StagesInOrder
  BY DEF CoreInv, RecordsInv
<1>2. QED
  BY <1>1, CoreInvariant, PTL

\* A row lock belongs to a decision in flight that will release it.
THEOREM LocksAreHeldByDecisions == Spec => []LocksHeldByDecisions
<1>1. CoreInv => LocksHeldByDecisions
  BY DEF CoreInv
<1>2. QED
  BY <1>1, CoreInvariant, PTL
=============================================================================
