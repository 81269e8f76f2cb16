------------------------------- MODULE Deploy -------------------------------
(***************************************************************************)
(* Bringing the database up to a release: `migration:run` and              *)
(* `migration:revert` of package.json, with the migrations of Migrations.  *)
(* TypeORM puts all pending migrations in one transaction and records each *)
(* in a table of the same database; AddRolesToRoleTable commits that       *)
(* transaction halfway, after which every query of the run commits alone.  *)
(***************************************************************************)
EXTENDS Migrations, Entities, Integers, Sequences, FiniteSets, Functions, SequencesExt, TLC

CONSTANTS Releases,      \* the releases a database is first installed with
          Upgraded,      \* those of them that are upgraded to the latest
          MaxFaults      \* how many crashes and reverts together

ASSUME DeployAssumption ==
  /\ Releases \subseteq 1..Len(Files) /\ Upgraded \subseteq Releases
  /\ MaxFaults \in Nat

VARIABLES
  released,   \* how many migration files the release that is deployed has
  db,         \* the database, as the session that migrates it sees it
  durable,    \* the database as it is after a crash
  phase,      \* "idle" or "migrating"
  open,       \* a transaction is open
  at,         \* the queries of the current file that have run
  failed,     \* the last run of the migrations ended in an error
  reverted,   \* the files that have been reverted
  crashes

vars == <<released, db, durable, phase, open, at, failed, reverted, crashes>>

(***************************************************************************)
(* A database: its schema, the number of files recorded and, for the       *)
(* properties, the files it has some but not all queries of (torn) and the *)
(* schema before the file last begun (none if it was taken back since).    *)
(***************************************************************************)
NewDatabase == [schema |-> Nothing, done |-> 0, torn |-> {}, before |-> [file |-> 0, schema |-> Nothing]]

Init ==
  /\ released \in Releases
  /\ db = NewDatabase /\ durable = NewDatabase
  /\ phase = "idle" /\ open = FALSE /\ at = 0 /\ failed = FALSE
  /\ reverted = {} /\ crashes = 0

faults == crashes + Cardinality(reverted)

\* Mutant of Migrate: no transaction is begun.
MigrateUnprotected ==
  /\ phase = "idle" /\ db.done < released
  /\ phase' = "migrating" /\ open' = FALSE /\ at' = 0 /\ failed' = FALSE
  /\ UNCHANGED <<released, db, durable, reverted, crashes>>
(* yarn migration:run *)
Migrate ==
  /\ phase = "idle" /\ db.done < released
  /\ phase' = "migrating" /\ open' = TRUE /\ at' = 0 /\ failed' = FALSE
  /\ UNCHANGED <<released, db, durable, reverted, crashes>>

(* Without a transaction every change is durable at once. *)
Write(new) == db' = new /\ durable' = IF open' THEN durable ELSE new

Up == Files[db.done + 1].up

(* One query of the current migration. *)
Query ==
  /\ phase = "migrating" /\ db.done < released /\ at < Len(Up)
  /\ LET result == Run(Up[at + 1], db.schema) IN
     /\ result.ok
     /\ open' = (open /\ Up[at + 1] # <<Commit>>)
     /\ Write([db EXCEPT !.schema = result.db, !.torn = @ \cup {db.done + 1},
                         !.before = IF at = 0 THEN [file |-> db.done + 1, schema |-> db.schema] ELSE @])
  /\ at' = at + 1
  /\ UNCHANGED <<released, phase, failed, reverted, crashes>>

(* A query fails: the run ends, and the transaction, if any, is undone. *)
Fail ==
  /\ phase = "migrating" /\ db.done < released /\ at < Len(Up)
  /\ ~ Run(Up[at + 1], db.schema).ok
  /\ db' = durable /\ phase' = "idle" /\ open' = FALSE /\ at' = 0 /\ failed' = TRUE
  /\ UNCHANGED <<released, durable, reverted, crashes>>

\* Mutant of Record: the count is one too high.
RecordTwice ==
  /\ phase = "migrating" /\ db.done < released /\ at = Len(Up)
  /\ open' = open /\ Write([db EXCEPT !.done = @ + 2, !.torn = @ \ {db.done + 1}]) /\ at' = 0
  /\ UNCHANGED <<released, phase, failed, reverted, crashes>>
(* The migration is done and recorded. *)
Record ==
  /\ phase = "migrating" /\ db.done < released /\ at = Len(Up)
  /\ open' = open /\ Write([db EXCEPT !.done = @ + 1, !.torn = @ \ {db.done + 1}]) /\ at' = 0
  /\ UNCHANGED <<released, phase, failed, reverted, crashes>>

(* No migration is pending any more. *)
Finish ==
  /\ phase = "migrating" /\ db.done = released
  /\ durable' = db /\ phase' = "idle" /\ open' = FALSE
  /\ UNCHANGED <<released, db, at, failed, reverted, crashes>>

(***************************************************************************)
(* yarn migration:revert takes the last recorded migration back, in one    *)
(* transaction: when a statement fails or the process dies nothing has     *)
(* happened.                                                               *)
(***************************************************************************)
Undo(n, schema) ==
  FoldLeft(LAMBDA result, query : IF result.ok THEN Run(query, result.db) ELSE result,
           [ok |-> TRUE, db |-> schema], Files[n].down)

Revert ==
  /\ phase = "idle" /\ db.done > 0 /\ faults < MaxFaults
  /\ LET result == Undo(db.done, db.schema) IN
     /\ result.ok
     /\ db' = [db EXCEPT !.schema = result.db, !.done = @ - 1, !.before = NewDatabase.before]
  /\ durable' = db' /\ reverted' = reverted \cup {db.done} /\ failed' = FALSE
  /\ UNCHANGED <<released, phase, open, at, crashes>>

(* The process, or its connection, is gone. *)
Crash ==
  /\ phase = "migrating" /\ faults < MaxFaults
  /\ db' = durable /\ phase' = "idle" /\ open' = FALSE /\ at' = 0 /\ crashes' = crashes + 1
  /\ UNCHANGED <<released, durable, failed, reverted>>

(* Between two deployments the application enters students. *)
Entered == Rows("students", {"a student"})
Serve ==
  /\ phase = "idle" /\ <<"table", "students", "students">> \in DOMAIN db.schema
  /\ DOMAIN Entered \cap DOMAIN db.schema = {}
  /\ db' = [db EXCEPT !.schema = Entered @@ @] /\ durable' = db'
  /\ UNCHANGED <<released, phase, open, at, failed, reverted, crashes>>

(* The latest release is taken. *)
Release ==
  /\ phase = "idle" /\ released \in Upgraded \ {Len(Files)}
  /\ released' = Len(Files)
  /\ UNCHANGED <<db, durable, phase, open, at, failed, reverted, crashes>>

Next ==
  \/ Migrate \/ Query \/ Fail \/ Record \/ Finish
  \/ Revert \/ Crash \/ Serve \/ Release

Spec == Init /\ [][Next]_vars

-----------------------------------------------------------------------------
(* The whole history is there, and nothing was taken back on the way. *)
Settled == phase = "idle" /\ db.done = Len(Files) /\ reverted = {}

Exists(kind, owner, name) == <<kind, owner, name>> \in DOMAIN db.schema
HasColumn(t, c) == Exists("column", t, c)
Points(t, column, to, rule) ==
  \E i \in DOMAIN db.schema :
    /\ i[1] = "constraint" /\ i[2] = t
    /\ db.schema[i] = [column |-> column, to |-> to, rule |-> rule]

(***************************************************************************)
(* What an entity misses: a column it reads and writes, or a label of one  *)
(* of its types; and what it cannot give: a column that must have a value  *)
(* and that the entity does not know.                                      *)
(***************************************************************************)
Gaps ==
  UNION {{<<e.table, c>> : c \in {x \in e.columns : ~ HasColumn(e.table, x)}} : e \in AllEntities}
Refused ==
  UNION {{<<e.table, i[3]>> :
            i \in {j \in DOMAIN db.schema : /\ j[1] = "column" /\ j[2] = e.table
                                            /\ db.schema[j] = "required"
                                            /\ j[3] \notin e.columns}} : e \in AllEntities}
MissingLabels ==
  UNION {{<<e.type, l>> : l \in {x \in e.labels : ~ Exists("label", e.type, x)}} : e \in AllEnums}

(* The type invariant.  The last big file has the most queries. *)
MostQueries == Len(DatabaseSchemaSync.up)
TypeOK ==
  /\ released \in 1..Len(Files) /\ at \in 0..MostQueries
  /\ \A d \in {db, durable} : d.done \in 0..released /\ d.torn \subseteq 1..released
  /\ phase \in {"idle", "migrating"} /\ open \in BOOLEAN /\ failed \in BOOLEAN
  /\ reverted \subseteq 1..Len(Files) /\ crashes \in Nat /\ faults \in 0..MaxFaults

(***************************************************************************)
(* Of the columns and labels the entities use, exactly these are not in a  *)
(* database the migrations have made, and exactly these columns refuse the *)
(* entities' inserts: nothing else is left out, dropped or renamed by the  *)
(* forty-six files together.                                               *)
(***************************************************************************)
KnownGaps ==
  {<<"prospective_students", "name">>} \cup
  {<<t, "NI_number">> : t \in {"accessor_dashboard", "bksd_dashboard", "inductor_dashboard"}} \cup
  {<<"recruiter_dashboard", c>> : c \in DashboardColumns}
KnownRefusals ==
  {<<"students", "first_name">>, <<"students", "last_name">>,
   <<"prospective_students", "first_name">>, <<"prospective_students", "last_name">>,
   <<"prospective_students", "recruiter_id">>, <<"documents", "cloudinaryUrl">>}
KnownMissingLabels ==
  {<<"form_type_enum", l>> : l \in FormType.labels \ FirstFormTypes} \cup
  {<<"app_logs_logtype_enum", "REUSABLE">>,
   <<"token_type_enum", "access">>, <<"token_type_enum", "reset_password">>}
GapsAreKnown ==
  Settled => /\ Gaps = KnownGaps
             /\ Refused = KnownRefusals
             /\ MissingLabels = KnownMissingLabels

(***************************************************************************)
(* What the handlers rely on without looking: the unique e-mails and       *)
(* college names that stop a second sign-up, learner's students row and    *)
(* folders that go with their account, a learner with submissions that     *)
(* cannot be deleted, documents that outlive their folder, and the role    *)
(* names sign-up and the learner's account look up.  It holds from the     *)
(* release that has the folders, whatever crashed or was taken back on the *)
(* way, unless it is taken back itself.                                    *)
(***************************************************************************)
HandlersRely ==
  phase = "idle" /\ db.done >= 38 /\ reverted \cap 1..38 = {} =>
    /\ Exists("constraint", "users", "UQ_email")
    /\ Exists("constraint", "school", "UQ_college_name")
    /\ Points("students", "user_id", "users", "CASCADE")
    /\ Points("form_submissions", "student_id", "prospective_students", "NO ACTION")
    /\ ~ Points("form_submissions", "student_id", "users", "NO ACTION")
    /\ Points("documents", "folderId", "folders", "SET NULL")
    /\ Points("folders", "parentFolderId", "folders", "CASCADE")
    /\ ~ Exists("constraint", "roles", "roles_role_key")
    /\ \A r \in {"none", "school_admin", "student"} : Exists("row", "roles", r)

(***************************************************************************)
(* A run of the migrations fails for one of three reasons only: a crash of *)
(* the first installation after the COMMIT left half a migration behind,   *)
(* students are there when their name becomes mandatory, or a migration    *)
(* was reverted whose down leaves what its up adds.                        *)
(***************************************************************************)
FileNo(m) == CHOOSE n \in 1..Len(Files) : Files[n] = m
Unrepeatable == {FileNo(m) : m \in
  {CreateAccessor, AlterRolepermission, AddStatusColumn, RemoveRecruiter,
   AddAttendanceStatus}}
FailuresExplained ==
  failed => \/ db.torn # {}
            \/ Exists("row", "students", "a student")
            \/ reverted \cap Unrepeatable # {}

(***************************************************************************)
(* Half a migration is only ever left behind at or after the one that      *)
(* commits: before it the first installation is all or nothing, and so is  *)
(* every later run.                                                        *)
(***************************************************************************)
BeforeTheCommit == FileNo(AddRolesToRoleTable) - 1
HalvesFollowTheCommit ==
  durable.torn # {} /\ reverted = {} => durable.done >= BeforeTheCommit

(***************************************************************************)
(* What that rests on.  Between two runs nothing is pending.  During one,  *)
(* an open transaction has torn no file but the one it is in; once there   *)
(* is none, the run is past the commit and every change is durable.        *)
(***************************************************************************)
Whole(d) == d = [schema |-> d.schema, done |-> d.done, torn |-> d.torn, before |-> d.before]
Pending == IF at = 0 THEN {} ELSE {db.done + 1}
TransactionInv ==
  /\ TypeOK /\ Whole(db) /\ Whole(durable)
  /\ phase = "idle" => db = durable /\ ~ open /\ at = 0
  /\ at > 0 => db.done < released
  /\ open => durable.done <= db.done /\ db.torn \subseteq durable.torn \cup Pending
  /\ phase = "migrating" /\ ~ open => db = durable /\ db.done >= BeforeTheCommit
  /\ HalvesFollowTheCommit

(***************************************************************************)
(* Reverting a migration right after it was applied, by a run nothing      *)
(* interrupted, gives the tables back as it found them, but for six files  *)
(* whose down does nothing, the one that puts a key on another table than  *)
(* its down looks at, and the one whose down drops the names that were     *)
(* there before.                                                           *)
(***************************************************************************)
Shape(schema) ==
  Restrict(schema, {i \in DOMAIN schema : i[1] \in {"table", "column", "constraint", "index"}})
Inexact == {FileNo(m) : m \in
  {CreateAccessor, AddNewColumnsToProspectiveStudentsTable, AlterRoleColumn,
   AlterRolepermission, AddStatusColumn, RemoveRecruiter, FixMissingConstraints,
   AddAttendanceStatus}}
RevertsAreExact ==
  [][\A n \in reverted' \ reverted :
       n \notin Inexact /\ db.before.file = n /\ crashes = 0 =>
         Shape(db'.schema) = Shape(db.before.schema)]_vars

============================================================================
