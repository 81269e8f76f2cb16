---------------------------- MODULE DeployProofs ----------------------------
(***************************************************************************)
(* Half a migration is left behind only from AddRolesToRoleTable on, for   *)
(* every release a database is installed with, every release it is         *)
(* upgraded from, and any number of crashes and reverts in any order.  The *)
(* reason is read off the files: no other one sends a COMMIT.              *)
(***************************************************************************)
EXTENDS Deploy, FiniteSetTheorems, SequenceTheorems, TLAPS

-----------------------------------------------------------------------------
(* Queries that leave the transaction open. *)

\* A query that begins with another statement, or has none.
Speaks(query) == Len(query) # 1 \/ query[1].verb # "commit"

LEMMA NoCommit ==
  ASSUME NEW query, Speaks(query)
  PROVE  query # <<Commit>>
<1>1. Len(<<Commit>>) = 1 /\ <<Commit>>[1].verb = "commit"
  BY DEF Commit
<1>2. QED
  BY <1>1 DEF Speaks

\* Statements that are no COMMIT, alone in a query.
LEMMA OneStatement ==
  ASSUME NEW f
  PROVE  /\ Speaks(<<Create(f)>>) /\ Speaks(<<Ensure(f)>>) /\ Speaks(<<EnsureNamed(f)>>)
         /\ Speaks(<<Drop(f)>>) /\ Speaks(<<Discard(f)>>) /\ Speaks(<<Alter(f)>>)
  BY DEF Speaks, Create, Ensure, EnsureNamed, Drop, Discard, Alter

LEMMA SeveralStatements ==
  ASSUME NEW s, NEW t, NEW u
  PROVE  Speaks(<<>>) /\ Speaks(<<s, t>>) /\ Speaks(<<s, t, u>>) /\ Speaks(<<s>> \o <<t>>)
  BY DEF Speaks

LEMMA Helpers ==
  ASSUME NEW t, NEW name, NEW column, NEW to, NEW names
  PROVE  /\ Speaks(Seeded(names)) /\ Speaks(Cascade(t, name, column, to))
         /\ Speaks(DropKeyIfFound(t, name)) /\ Speaks(CheckOnboarding(t, name))
         /\ Speaks(ApplicationStatus)
  BY OneStatement DEF Seeded, Cascade, DropKeyIfFound, CheckOnboarding, ApplicationStatus

-----------------------------------------------------------------------------
(* The files. *)

\* Queries of a file, no more than TypeOK counts and none of them a COMMIT.
Quiet(queries) ==
  /\ Len(queries) \in 0..18
  /\ \A i \in 1..Len(queries) : Speaks(queries[i])

LEMMA QuietOne ==
  ASSUME NEW q1, Speaks(q1)
  PROVE  Quiet(<<q1>>)
  BY DEF Quiet
LEMMA QuietTwo ==
  ASSUME NEW q1, NEW q2, Speaks(q1), Speaks(q2)
  PROVE  Quiet(<<q1, q2>>)
  BY DEF Quiet
LEMMA QuietThree ==
  ASSUME NEW q1, NEW q2, NEW q3, Speaks(q1), Speaks(q2), Speaks(q3)
  PROVE  Quiet(<<q1, q2, q3>>)
  BY DEF Quiet
LEMMA QuietFour ==
  ASSUME NEW q1, NEW q2, NEW q3, NEW q4, Speaks(q1), Speaks(q2), Speaks(q3),
         Speaks(q4)
  PROVE  Quiet(<<q1, q2, q3, q4>>)
  BY DEF Quiet
LEMMA QuietFive ==
  ASSUME NEW q1, NEW q2, NEW q3, NEW q4, NEW q5, Speaks(q1), Speaks(q2),
         Speaks(q3), Speaks(q4), Speaks(q5)
  PROVE  Quiet(<<q1, q2, q3, q4, q5>>)
  BY DEF Quiet
LEMMA QuietSix ==
  ASSUME NEW q1, NEW q2, NEW q3, NEW q4, NEW q5, NEW q6, Speaks(q1), Speaks(q2),
         Speaks(q3), Speaks(q4), Speaks(q5), Speaks(q6)
  PROVE  Quiet(<<q1, q2, q3, q4, q5, q6>>)
  BY DEF Quiet
LEMMA QuietEight ==
  ASSUME NEW q1, NEW q2, NEW q3, NEW q4, NEW q5, NEW q6, NEW q7, NEW q8,
         Speaks(q1), Speaks(q2), Speaks(q3), Speaks(q4), Speaks(q5), Speaks(q6),
         Speaks(q7), Speaks(q8)
  PROVE  Quiet(<<q1, q2, q3, q4, q5, q6, q7, q8>>)
  BY DEF Quiet
LEMMA QuietNine ==
  ASSUME NEW q1, NEW q2, NEW q3, NEW q4, NEW q5, NEW q6, NEW q7, NEW q8, NEW q9,
         Speaks(q1), Speaks(q2), Speaks(q3), Speaks(q4), Speaks(q5), Speaks(q6),
         Speaks(q7), Speaks(q8), Speaks(q9)
  PROVE  Quiet(<<q1, q2, q3, q4, q5, q6, q7, q8, q9>>)
  BY DEF Quiet
LEMMA QuietTwelve ==
  ASSUME NEW q1, NEW q2, NEW q3, NEW q4, NEW q5, NEW q6, NEW q7, NEW q8, NEW q9,
         NEW q10, NEW q11, NEW q12, Speaks(q1), Speaks(q2), Speaks(q3),
         Speaks(q4), Speaks(q5), Speaks(q6), Speaks(q7), Speaks(q8), Speaks(q9),
         Speaks(q10), Speaks(q11), Speaks(q12)
  PROVE  Quiet(<<q1, q2, q3, q4, q5, q6, q7, q8, q9, q10, q11, q12>>)
  BY DEF Quiet

\* The one file whose queries are put together from two lists.
LEMMA QuietSync == Quiet(DatabaseSchemaSync.up) /\ MostQueries = 18
<1>. DEFINE Q == {SyncColumns[i] : i \in 1..12} \cup {SyncTables[i] : i \in 1..6}
<1>1. Len(SyncColumns) = 12 /\ Len(SyncTables) = 6
  BY DEF SyncColumns, SyncTables
<1>2. Quiet(SyncColumns)
  BY QuietTwelve, OneStatement, Helpers DEF SyncColumns
<1>3. Quiet(SyncTables)
  BY QuietSix, OneStatement, Helpers DEF SyncTables
<1>4. SyncColumns \in Seq(Q)
  <2>1. SyncColumns = [i \in 1..12 |-> SyncColumns[i]]
    BY DEF SyncColumns
  <2>2. QED
    BY <2>1
<1>5. SyncTables \in Seq(Q)
  <2>1. SyncTables = [i \in 1..6 |-> SyncTables[i]]
    BY DEF SyncTables
  <2>2. QED
    BY <2>1
<1>6. \A q \in Q : Speaks(q)
  BY <1>1, <1>2, <1>3 DEF Quiet
<1>. HIDE DEF Q
<1>7. DatabaseSchemaSync.up = SyncColumns \o SyncTables
  BY DEF DatabaseSchemaSync
<1>8. /\ SyncColumns \o SyncTables \in Seq(Q)
      /\ Len(SyncColumns \o SyncTables) = Len(SyncColumns) + Len(SyncTables)
  BY <1>4, <1>5, ConcatProperties
<1>9. PICK both : both = SyncColumns \o SyncTables
  OBVIOUS
<1>10. both \in Seq(Q) /\ Len(both) = 18
  BY <1>1, <1>8, <1>9
<1>11. \A i \in 1..18 : both[i] \in Q
  BY <1>10, ElementOfSeq
<1>12. Quiet(both)
  BY <1>6, <1>10, <1>11 DEF Quiet
<1>13. QED
  BY <1>7, <1>9, <1>10, <1>12 DEF MostQueries

\* Every file but AddRolesToRoleTable.
LEMMA QuietFiles == \A n \in 1..46 : n # 13 => Quiet(Files[n].up)
<1>1. \A n \in 1..6 : Quiet(Files[n].up)
  <2>1. /\ Quiet(CreateRole.up)
        /\ Quiet(CreatePermission.up)
        /\ Quiet(CreateRolepermission.up)
        /\ Quiet(CreateSchool.up)
        /\ Quiet(CreateUsers.up)
        /\ Quiet(CreateToken.up)
    BY QuietOne, QuietTwo, QuietThree, QuietFour, OneStatement, SeveralStatements,
       Helpers DEF CreateRole, CreatePermission, CreateRolepermission, CreateSchool,
       CreateUsers, CreateToken
  <2>2. QED
    BY <2>1 DEF Files
<1>2. \A n \in 7..12 : Quiet(Files[n].up)
  <2>1. /\ Quiet(CreateRecruitersTable.up)
        /\ Quiet(CreateFinancialAidOfficers.up)
        /\ Quiet(CreateStudents.up)
        /\ Quiet(CreateProspectiveStudents.up)
        /\ Quiet(CreateDocument.up)
        /\ Quiet(CreateAccessor.up)
    BY QuietThree, OneStatement, SeveralStatements, Helpers DEF CreateRecruitersTable,
       CreateFinancialAidOfficers, CreateStudents, CreateProspectiveStudents,
       CreateDocument, CreateAccessor, PersonTable
  <2>2. QED
    BY <2>1 DEF Files
<1>3. \A n \in 14..18 : Quiet(Files[n].up)
  <2>1. /\ Quiet(AddApplicationStatusToProspectiveStudentsTable.up)
        /\ Quiet(AddDefaultValuesToProspectiveStudents.up)
        /\ Quiet(AddNewColumnsToProspectiveStudentsTable.up)
        /\ Quiet(AppLogs.up)
        /\ Quiet(AlterRole.up)
    BY QuietOne, QuietTwo, QuietThree, QuietFour, OneStatement, SeveralStatements,
       Helpers DEF AddApplicationStatusToProspectiveStudentsTable,
       AddDefaultValuesToProspectiveStudents, AddNewColumnsToProspectiveStudentsTable,
       AppLogs, AlterRole, SetDefaults, AddSchoolKey
  <2>2. QED
    BY <2>1 DEF Files
<1>4. \A n \in 19..23 : Quiet(Files[n].up)
  <2>1. /\ Quiet(CreateFolder.up)
        /\ Quiet(AlterSchool.up)
        /\ Quiet(AlterUsers.up)
        /\ Quiet(PopulatePermissions.up)
        /\ Quiet(AlterRoleColumn.up)
    BY QuietOne, QuietThree, OneStatement, SeveralStatements, Helpers DEF
       CreateFolder, AlterSchool, AlterUsers, PopulatePermissions, AlterRoleColumn,
       AddSchoolKey
  <2>2. QED
    BY <2>1 DEF Files
<1>5. \A n \in 24..28 : Quiet(Files[n].up)
  <2>1. /\ Quiet(CreateStaff.up)
        /\ Quiet(AddNewColumnsToStudents.up)
        /\ Quiet(AlterRolepermission.up)
        /\ Quiet(AddUsersToExpirations.up)
        /\ Quiet(AddStatusColumn.up)
    BY QuietOne, QuietTwo, QuietThree, OneStatement, SeveralStatements, Helpers DEF
       CreateStaff, AddNewColumnsToStudents, AlterRolepermission,
       AddUsersToExpirations, AddStatusColumn, DropKey
  <2>2. QED
    BY <2>1 DEF Files
<1>6. \A n \in 29..34 : Quiet(Files[n].up)
  <2>1. /\ Quiet(RolePermissionUpdate.up)
        /\ Quiet(RemoveRecruiter.up)
        /\ Quiet(CreateWorkflow.up)
        /\ Quiet(CreateAccessorDashboard.up)
        /\ Quiet(CreateBksdDashboard.up)
        /\ Quiet(CreateInductorDashboard.up)
    BY QuietOne, QuietTwo, OneStatement, SeveralStatements, Helpers DEF
       RolePermissionUpdate, RemoveRecruiter, CreateWorkflow, CreateAccessorDashboard,
       CreateBksdDashboard, CreateInductorDashboard
  <2>2. QED
    BY <2>1 DEF Files
<1>7. \A n \in 35..38 : Quiet(Files[n].up)
  <2>1. /\ Quiet(CreateForm.up)
        /\ Quiet(CreateFormSubmission.up)
        /\ Quiet(UpdateFormSubmission.up)
        /\ Quiet(Createfolderupdatedocument.up)
    BY QuietTwo, QuietFour, QuietFive, QuietSix, OneStatement, SeveralStatements,
       Helpers DEF CreateForm, CreateFormSubmission, UpdateFormSubmission,
       Createfolderupdatedocument, PointStudentTo
  <2>2. QED
    BY <2>1 DEF Files
<1>8. \A n \in 40..41 : Quiet(Files[n].up)
  <2>1. /\ Quiet(AddMissingEnumTypes.up)
        /\ Quiet(FixMissingConstraints.up)
    BY QuietEight, QuietNine, OneStatement, SeveralStatements, Helpers DEF
       AddMissingEnumTypes, FixMissingConstraints
  <2>2. QED
    BY <2>1 DEF Files
<1>9. \A n \in 42..46 : Quiet(Files[n].up)
  <2>1. /\ Quiet(AddPasswordChanged.up)
        /\ Quiet(AddAttendanceStatus.up)
        /\ Quiet(AddStudentArchive.up)
        /\ Quiet(Addarchivetoroles.up)
        /\ Quiet(Addlastlogincolumn.up)
    BY QuietOne, OneStatement, SeveralStatements, Helpers DEF AddPasswordChanged,
       AddAttendanceStatus, AddStudentArchive, Addarchivetoroles, Addlastlogincolumn
  <2>2. QED
    BY <2>1 DEF Files
<1>10. Quiet(Files[39].up)
  BY QuietSync DEF Files
<1>11. QED
  BY <1>1, <1>2, <1>3, <1>4, <1>5, <1>6, <1>7, <1>8, <1>9, <1>10

\* Only the thirteenth of the forty-six files commits: it is the second of its
\* four queries, and no query of another file is a COMMIT.
THEOREM TheCommit ==
  /\ Len(Files) = 46
  /\ Len(AddRolesToRoleTable.up) = 4
  /\ AddRolesToRoleTable.up[2] = <<Commit>>
  /\ FileNo(AddRolesToRoleTable) = 13
<1>1. Len(Files) = 46 /\ Files[13] = AddRolesToRoleTable
  BY DEF Files
<1>2. Len(AddRolesToRoleTable.up) = 4 /\ AddRolesToRoleTable.up[2] = <<Commit>>
  BY DEF AddRolesToRoleTable
<1>3. ~ Quiet(AddRolesToRoleTable.up)
  BY <1>2, NoCommit DEF Quiet
<1>4. \A n \in 1..46 : Files[n] = AddRolesToRoleTable => n = 13
  BY <1>3, QuietFiles
<1>5. QED
  BY <1>1, <1>2, <1>4 DEF FileNo

\* What a step needs to know of the file it is in.
LEMMA TheFiles ==
  ASSUME NEW n \in 1..Len(Files)
  PROVE  /\ Len(Files[n].up) \in 0..MostQueries
         /\ \A i \in 1..Len(Files[n].up) : Files[n].up[i] = <<Commit>> => n = BeforeTheCommit + 1
<1>1. CASE n = 13
  <2>1. Files[n] = AddRolesToRoleTable
    BY <1>1 DEF Files
  <2>2. QED
    BY <1>1, <2>1, TheCommit, QuietSync DEF BeforeTheCommit
<1>2. CASE n # 13
  BY <1>2, TheCommit, QuietFiles, QuietSync, NoCommit DEF Quiet
<1>3. QED
  BY <1>1, <1>2

-----------------------------------------------------------------------------
(* The steps. *)

LEMMA Numbers ==
  /\ Len(Files) = 46 /\ MostQueries = 18 /\ BeforeTheCommit = 12
  /\ MaxFaults \in Nat
  BY TheCommit, QuietSync, DeployAssumption DEF BeforeTheCommit

\* What TypeOK says, in these numbers.
LEMMA Counts ==
  ASSUME TransactionInv
  PROVE  /\ released \in 1..46 /\ at \in 0..18
         /\ db.done \in 0..released /\ db.torn \subseteq 1..released
         /\ durable.done \in 0..released /\ durable.torn \subseteq 1..released
         /\ reverted \subseteq 1..46 /\ crashes \in Nat
         /\ crashes + Cardinality(reverted) \in 0..MaxFaults
<1>1. TypeOK
  BY DEF TransactionInv
<1>2. \A d \in {db, durable} : d.done \in 0..released /\ d.torn \subseteq 1..released
  BY <1>1 DEF TypeOK
<1>3. released \in 1..46 /\ at \in 0..18 /\ reverted \subseteq 1..46
  BY <1>1, Numbers DEF TypeOK
<1>4. crashes \in Nat /\ faults \in 0..MaxFaults
  BY <1>1 DEF TypeOK
<1>5. QED
  BY <1>2, <1>3, <1>4 DEF faults

\* What is left to show of TypeOK after a step.
LEMMA Typed ==
  ASSUME TransactionInv,
         released' \in 1..46, at' \in 0..18, phase' \in {"idle", "migrating"},
         open' \in BOOLEAN, failed' \in BOOLEAN, crashes' \in Nat,
         db'.done \in 0..released', db'.torn \subseteq 1..released',
         durable'.done \in 0..released', durable'.torn \subseteq 1..released',
         reverted' \subseteq 1..46, crashes' + Cardinality(reverted') \in 0..MaxFaults
  PROVE  TypeOK'
<1>1. \A d \in {db, durable}' : d.done \in 0..released' /\ d.torn \subseteq 1..released'
  OBVIOUS
<1>2. faults' \in 0..MaxFaults
  BY DEF faults
<1>3. released' \in 1..Len(Files) /\ at' \in 0..MostQueries /\ reverted' \subseteq 1..Len(Files)
  BY Numbers
<1>4. QED
  BY <1>1, <1>2, <1>3 DEF TypeOK

\* A revert is one fault more.
LEMMA OneMoreReverted ==
  ASSUME reverted \subseteq 1..46, NEW n
  PROVE  /\ Cardinality(reverted) \in Nat
         /\ Cardinality(reverted \cup {n}) \in Nat
         /\ Cardinality(reverted \cup {n}) <= Cardinality(reverted) + 1
<1>1. IsFiniteSet(reverted)
  BY FS_BoundedSetOfNaturals
<1>2. QED
  BY <1>1, FS_AddElement, FS_CardinalityType

\* A database stays one when some of its fields are assigned.
LEMMA Fields ==
  ASSUME NEW d, Whole(d)
  PROVE  DOMAIN d = {"schema", "done", "torn", "before"}
  BY Zenon DEF Whole

LEMMA StillWhole ==
  ASSUME NEW d, Whole(d), NEW e, e = [x \in DOMAIN d |-> e[x]]
  PROVE  Whole(e)
  BY Fields DEF Whole

LEMMA InitTransactions == Init => TransactionInv
<1>. SUFFICES ASSUME Init
              PROVE  TransactionInv
  OBVIOUS
<1>1. /\ NewDatabase.done = 0 /\ NewDatabase.torn = {} /\ Whole(NewDatabase)
      /\ db = NewDatabase /\ durable = NewDatabase
  BY DEF Init, NewDatabase, Whole
<1>2. released \in 1..46 /\ faults = 0
  BY Numbers, DeployAssumption, FS_EmptySet DEF Init, faults
<1>3. TypeOK
  <2>1. released \in 1..Len(Files) /\ 0 \in 0..MostQueries /\ 0 \in 0..MaxFaults
    BY <1>2, Numbers
  <2>2. \A d \in {db, durable} : d.done \in 0..released /\ d.torn \subseteq 1..released
    BY <1>1, <1>2
  <2>3. QED
    BY <1>2, <2>1, <2>2 DEF Init, TypeOK
<1>4. QED
  BY <1>1, <1>3 DEF Init, TransactionInv, HalvesFollowTheCommit

LEMMA MigrateTransaction ==
  ASSUME TransactionInv, Migrate
  PROVE  TransactionInv'
<1>1. TypeOK'
  BY Numbers DEF Migrate, TransactionInv, TypeOK, faults
<1>2. QED
  BY <1>1 DEF Migrate, TransactionInv, TypeOK, Whole, Pending, HalvesFollowTheCommit

LEMMA QueryTransaction ==
  ASSUME TransactionInv, Query
  PROVE  TransactionInv'
<1>. DEFINE result == Run(Up[at + 1], db.schema)
            new    == [db EXCEPT !.schema = result.db, !.torn = @ \cup {db.done + 1},
                                 !.before = IF at = 0 THEN [file |-> db.done + 1, schema |-> db.schema]
                                                      ELSE @]
<1>1. /\ phase = "migrating" /\ db.done < released /\ at < Len(Up)
      /\ open' = (open /\ Up[at + 1] # <<Commit>>)
      /\ db' = new /\ durable' = IF open' THEN durable ELSE new
      /\ at' = at + 1
      /\ UNCHANGED <<released, phase, failed, reverted, crashes>>
  BY DEF Query, Write
<1>2. DOMAIN db = {"schema", "done", "torn", "before"} /\ new = [x \in DOMAIN db |-> new[x]]
  BY Fields DEF TransactionInv
<1>3. Whole(new) /\ new.done = db.done /\ new.torn = db.torn \cup {db.done + 1}
  <2>1. new.done = db.done /\ new.torn = db.torn \cup {db.done + 1}
    BY <1>2
  <2>. HIDE DEF new
  <2>2. QED
    BY <1>2, <2>1, StillWhole DEF TransactionInv
<1>. HIDE DEF new, result
<1>4. db.done \in Nat /\ db.done + 1 \in 1..released /\ db.done + 1 \in 1..46
  <2>1. released \in 1..46 /\ db.done \in 0..released /\ db.done < released
    BY <1>1, Counts
  <2>2. QED
    BY <2>1
<1>5. Len(Up) \in 0..18 /\ \A i \in 1..Len(Up) : Up[i] = <<Commit>> => db.done = 12
  <2>1. PICK n \in 1..Len(Files) : n = db.done + 1
    BY <1>4, Numbers
  <2>2. Up = Files[n].up
    BY <2>1 DEF Up
  <2>3. /\ Len(Files[n].up) \in 0..MostQueries
        /\ \A i \in 1..Len(Files[n].up) : Files[n].up[i] = <<Commit>> => n = BeforeTheCommit + 1
    BY TheFiles
  <2>4. n = BeforeTheCommit + 1 => db.done = 12
    BY <1>4, <2>1, Numbers
  <2>5. QED
    BY <2>2, <2>3, <2>4, Numbers
<1>6. at \in Nat /\ at + 1 \in 1..Len(Up) /\ at + 1 \in 1..18
  <2>1. PICK k \in 0..18 : k = Len(Up)
    BY <1>5
  <2>2. at \in Nat /\ at < k
    <3>1. at < k
      BY <1>1, <2>1, Zenon
    <3>2. at \in 0..18
      BY Counts
    <3>3. QED
      BY <3>1, <3>2
  <2>3. at + 1 \in 1..k /\ at + 1 \in 1..18
    BY <2>2
  <2>4. QED
    BY <2>1, <2>2, <2>3
<1>7. Up[at + 1] = <<Commit>> => db.done = 12
  BY <1>5, <1>6
<1>8. ~ open' => db.done >= BeforeTheCommit
  <2>1. open => Up[at + 1] = <<Commit>> \/ open'
    BY <1>1 DEF TransactionInv, TypeOK
  <2>2. ~ open => db.done >= BeforeTheCommit
    BY <1>1 DEF TransactionInv
  <2>3. db.done = 12 => db.done >= BeforeTheCommit
    BY <1>4, Numbers
  <2>4. QED
    BY <1>7, <2>1, <2>2, <2>3
<1>9. TypeOK'
  <2>1. open' \in BOOLEAN /\ phase' \in {"idle", "migrating"} /\ failed' \in BOOLEAN
    BY <1>1 DEF TransactionInv, TypeOK
  <2>2. /\ db'.done \in 0..released' /\ db'.torn \subseteq 1..released'
        /\ durable'.done \in 0..released' /\ durable'.torn \subseteq 1..released'
    BY <1>1, <1>3, <1>4, Counts
  <2>3. QED
    BY <1>1, <1>6, <2>1, <2>2, Counts, Typed
<1>10. Whole(db)' /\ Whole(durable)'
  BY <1>1, <1>3 DEF TransactionInv, Whole
<1>11. open' => durable'.done <= db'.done /\ db'.torn \subseteq durable'.torn \cup Pending'
  <2>1. Pending' = {db.done + 1} /\ Pending \subseteq {db.done + 1}
    BY <1>1, <1>3, <1>6 DEF Pending
  <2>2. QED
    BY <1>1, <1>3, <2>1 DEF TransactionInv
<1>12. HalvesFollowTheCommit'
  BY <1>1, <1>3, <1>8 DEF TransactionInv, HalvesFollowTheCommit
<1>13. QED
  BY <1>1, <1>3, <1>8, <1>9, <1>10, <1>11, <1>12 DEF TransactionInv

LEMMA FailTransaction ==
  ASSUME TransactionInv, Fail \/ Crash
  PROVE  TransactionInv'
<1>1. /\ db' = durable /\ phase' = "idle" /\ open' = FALSE /\ at' = 0
      /\ failed' \in BOOLEAN
      /\ UNCHANGED <<released, durable, reverted>>
      /\ \/ crashes' = crashes
         \/ crashes' = crashes + 1 /\ crashes + Cardinality(reverted) < MaxFaults
  BY DEF Fail, Crash, TransactionInv, TypeOK, faults
<1>2. crashes' \in Nat /\ crashes' + Cardinality(reverted') \in 0..MaxFaults
  <2>1. Cardinality(reverted) \in Nat
    BY Counts, OneMoreReverted
  <2>2. QED
    BY <1>1, <2>1, Counts, Numbers
<1>3. TypeOK'
  <2>1. open' \in BOOLEAN /\ phase' \in {"idle", "migrating"}
    BY <1>1, Zenon
  <2>2. /\ released' \in 1..46 /\ reverted' \subseteq 1..46
        /\ db'.done \in 0..released' /\ db'.torn \subseteq 1..released'
        /\ durable'.done \in 0..released' /\ durable'.torn \subseteq 1..released'
        /\ at' \in 0..18
    BY <1>1, Counts
  <2>3. QED
    BY <1>1, <1>2, <2>1, <2>2, Typed
<1>4. QED
  BY <1>1, <1>3 DEF TransactionInv, Whole, HalvesFollowTheCommit

LEMMA RecordTransaction ==
  ASSUME TransactionInv, Record
  PROVE  TransactionInv'
<1>. DEFINE new == [db EXCEPT !.done = @ + 1, !.torn = @ \ {db.done + 1}]
<1>1. /\ phase = "migrating" /\ db.done < released /\ open' = open
      /\ db' = new /\ durable' = IF open THEN durable ELSE new
      /\ at' = 0 /\ UNCHANGED <<released, phase, failed, reverted, crashes>>
  BY DEF Record, Write
<1>2. Whole(new) /\ new.done = db.done + 1 /\ new.torn = db.torn \ {db.done + 1}
  <2>1. DOMAIN db = {"schema", "done", "torn", "before"} /\ new = [x \in DOMAIN db |-> new[x]]
    BY Fields DEF TransactionInv
  <2>2. new.done = db.done + 1 /\ new.torn = db.torn \ {db.done + 1}
    BY <2>1
  <2>. HIDE DEF new
  <2>3. QED
    BY <2>1, <2>2, StillWhole DEF TransactionInv
<1>. HIDE DEF new
<1>3. TypeOK'
  <2>1. /\ db'.done \in 0..released' /\ db'.torn \subseteq 1..released'
        /\ durable'.done \in 0..released' /\ durable'.torn \subseteq 1..released'
    BY <1>1, <1>2, Counts
  <2>2. open' \in BOOLEAN /\ phase' \in {"idle", "migrating"} /\ failed' \in BOOLEAN
    BY <1>1 DEF TransactionInv, TypeOK
  <2>3. QED
    BY <1>1, <2>1, <2>2, Counts, Typed
<1>4. Whole(db)' /\ Whole(durable)'
  BY <1>1, <1>2 DEF TransactionInv, Whole
<1>5. open => durable'.done <= db'.done /\ db'.torn \subseteq durable'.torn
  BY <1>1, <1>2 DEF TransactionInv, TypeOK, Pending
<1>6. ~ open => durable'.done >= BeforeTheCommit
  BY <1>1, <1>2, Numbers DEF TransactionInv, TypeOK
<1>7. HalvesFollowTheCommit'
  BY <1>1, <1>6 DEF TransactionInv, HalvesFollowTheCommit
<1>8. QED
  BY <1>1, <1>3, <1>4, <1>5, <1>6, <1>7 DEF TransactionInv

\* The commit at the end of a run: nothing is pending, so what the open
\* transaction has torn had been torn before.
LEMMA FinishTransaction ==
  ASSUME TransactionInv, Finish
  PROVE  TransactionInv'
<1>1. /\ phase = "migrating" /\ db.done = released
      /\ durable' = db /\ phase' = "idle" /\ open' = FALSE
      /\ UNCHANGED <<released, db, at, failed, reverted, crashes>>
  BY DEF Finish
<1>2. at = 0
  BY <1>1, Numbers DEF TransactionInv, TypeOK
<1>3. db.torn \subseteq durable.torn /\ durable.done <= db.done
  BY <1>1, <1>2 DEF TransactionInv, TypeOK, Pending
<1>4. TypeOK'
  BY <1>1, Numbers DEF TransactionInv, TypeOK, faults
<1>5. HalvesFollowTheCommit'
  <2>. SUFFICES ASSUME db.torn # {}, reverted = {}
                PROVE  db.done >= BeforeTheCommit
    BY <1>1 DEF HalvesFollowTheCommit
  <2>1. durable.done >= BeforeTheCommit
    BY <1>3 DEF TransactionInv, HalvesFollowTheCommit
  <2>2. QED
    BY <1>3, <2>1, Numbers DEF TransactionInv, TypeOK
<1>6. QED
  BY <1>1, <1>2, <1>4, <1>5 DEF TransactionInv, Whole

LEMMA RevertTransaction ==
  ASSUME TransactionInv, Revert
  PROVE  TransactionInv'
<1>1. /\ phase = "idle" /\ db.done > 0 /\ faults < MaxFaults
      /\ durable' = db' /\ reverted' = reverted \cup {db.done} /\ failed' = FALSE
      /\ UNCHANGED <<released, phase, open, at, crashes>>
      /\ \E schema : db' = [db EXCEPT !.schema = schema, !.done = @ - 1,
                                      !.before = NewDatabase.before]
  BY DEF Revert
<1>2. Whole(db') /\ db'.done = db.done - 1 /\ db'.torn = db.torn
  <2>1. /\ DOMAIN db = {"schema", "done", "torn", "before"}
        /\ db' = [x \in DOMAIN db |-> db'[x]]
    BY <1>1, Fields DEF TransactionInv
  <2>2. db'.done = db.done - 1 /\ db'.torn = db.torn
    BY <1>1, <2>1
  <2>3. QED
    BY <2>1, <2>2, StillWhole DEF TransactionInv
<1>3. db.done \in 1..released /\ released \in 1..46
  BY <1>1, Counts
<1>4. crashes' + Cardinality(reverted') \in 0..MaxFaults
  <2>1. crashes + Cardinality(reverted) < MaxFaults
    BY <1>1 DEF faults
  <2>2. reverted \subseteq 1..46 /\ crashes \in Nat
    BY Counts
  <2>3. PICK c, d \in Nat : /\ c = Cardinality(reverted) /\ d = Cardinality(reverted')
                           /\ d <= c + 1
    BY <1>1, <2>2, OneMoreReverted
  <2>4. QED
    BY <1>1, <2>1, <2>2, <2>3, Numbers
<1>5. reverted' \subseteq 1..46 /\ reverted' # {}
  <2>1. db.done \in 1..46
    BY <1>3
  <2>2. QED
    BY <1>1, <2>1, Counts
<1>6. /\ db'.done \in 0..released' /\ db'.torn \subseteq 1..released'
      /\ durable'.done \in 0..released' /\ durable'.torn \subseteq 1..released'
  BY <1>1, <1>2, <1>3, Counts
<1>7. TypeOK'
  <2>1. open' \in BOOLEAN /\ phase' \in {"idle", "migrating"} /\ failed' \in BOOLEAN
    BY <1>1 DEF TransactionInv, TypeOK
  <2>2. QED
    BY <1>1, <1>4, <1>5, <1>6, <2>1, Counts, Typed
<1>8. QED
  BY <1>1, <1>2, <1>5, <1>7 DEF TransactionInv, HalvesFollowTheCommit

LEMMA ServeTransaction ==
  ASSUME TransactionInv, Serve
  PROVE  TransactionInv'
<1>1. /\ phase = "idle" /\ durable' = db'
      /\ UNCHANGED <<released, phase, open, at, failed, reverted, crashes>>
      /\ \E schema : db' = [db EXCEPT !.schema = schema]
  BY DEF Serve
<1>2. Whole(db') /\ db'.done = db.done /\ db'.torn = db.torn
  BY <1>1 DEF TransactionInv, Whole
<1>3. TypeOK'
  BY <1>1, <1>2, Numbers DEF TransactionInv, TypeOK, faults
<1>4. QED
  BY <1>1, <1>2, <1>3 DEF TransactionInv, HalvesFollowTheCommit

LEMMA ReleaseTransaction ==
  ASSUME TransactionInv, Release
  PROVE  TransactionInv'
<1>1. /\ phase = "idle" /\ released \in 1..46 /\ released' = 46
      /\ UNCHANGED <<db, durable, phase, open, at, failed, reverted, crashes>>
  BY Numbers DEF Release, TransactionInv, TypeOK
<1>2. TypeOK'
  BY <1>1, Numbers DEF TransactionInv, TypeOK, faults
<1>3. QED
  BY <1>1, <1>2 DEF TransactionInv, Whole, HalvesFollowTheCommit

-----------------------------------------------------------------------------
THEOREM Transactions == Spec => []TransactionInv
<1>1. TransactionInv /\ [Next]_vars => TransactionInv'
  <2>. SUFFICES ASSUME TransactionInv, [Next]_vars
                PROVE  TransactionInv'
    OBVIOUS
  <2>1. CASE Next
    BY <2>1, MigrateTransaction, QueryTransaction, FailTransaction, RecordTransaction,
       FinishTransaction, RevertTransaction, ServeTransaction, ReleaseTransaction DEF Next
  <2>2. CASE UNCHANGED vars
    BY <2>2 DEF vars, TransactionInv, TypeOK, Whole, Pending, HalvesFollowTheCommit, faults
  <2>3. QED
    BY <2>1, <2>2
<1>2. QED
  BY <1>1, InitTransactions, PTL DEF Spec

\* The bookkeeping of a deployment stays in its types: no more files are
\* recorded or torn than the release has, and no more queries of one file
\* are counted than it sends.
THEOREM TypesOfDeployment == Spec => []TypeOK
<1>1. TransactionInv => TypeOK
  BY DEF TransactionInv
<1>2. QED
  BY <1>1, Transactions, PTL

\* Before AddRolesToRoleTable commits the transaction of the run, a run of the
\* migrations is all or nothing, whenever it crashes or fails; after it, half
\* a migration can stay behind.
THEOREM HalvesAreBehindTheCommit == Spec => []HalvesFollowTheCommit
<1>1. TransactionInv => HalvesFollowTheCommit
  BY DEF TransactionInv
<1>2. QED
  BY <1>1, Transactions, PTL
=============================================================================
