# Audease backend: a TLA+ model

The backend (NestJS, TypeORM on Postgres at READ COMMITTED, Redis, a mail
service, a storage bucket) takes a learner of a training college through a
pipeline of teams: a recruiter creates or imports the learner, the application
team (BKSD) creates the learner's account and mails its credentials, the
learner fills in forms, an accessor approves or rejects the application, an
inductor sends a meeting link and records attendance, and the lazer,
certificate and archive teams set statuses of their own.  All of them read and
write the same few rows, most of them by loading a row, changing the entity in
memory and saving the whole entity, with no lock, no version column and (but
for the accessor's decisions) no transaction.  Before that, a school signs up
with its administrator, is verified with a key kept in Redis and defines its
staff's roles; the administrator enters staff and gives them accounts, everyone
signs in and changes passwords, and documents are filed in folders.  Under all
of it is a schema that forty-six migration files have made.

This directory models these handlers await by await, and the migrations query
by query; it checks what survives their interleavings, failures and crashes,
and proves the core of it.  There are five groups of modules, each a
composition of its own:

| Group | Top module | About |
|---|---|---|
| pipeline | `Pipeline` | the stages of a learner, accounts, forms, decisions |
| registration | `Registration` | sign-up, verification, roles, the pool of connections |
| access | `Access` | staff and their accounts, passwords, reset keys, codes |
| office | `Office` | imports of learners, dashboards, folders, documents |
| migrations | `Deploy` | the schema, and what the entities ask of it |

They share tables (`users` is in three of them) but are not composed with each
other: each keeps the columns and handlers that its properties depend on, and a
product of all would be out of the model checker's reach.  Where a handler of
one group changes a table of another in a way that matters there, it is modelled
in both: `deleteUser` in `Accounts` for learners and in `Staffing` for staff,
`createLearner`, `editInformation` and `deleteStudent` in `LearnerRecord` and in
`Learners`, where the saves of the other teams, which may put back an e-mail or
a learner as an edit does, are the edits that change nothing.

## Inventory

Paths are under `src/src/`.

| Component | State it keeps | Operations that change it | Modelled in |
|---|---|---|---|
| Learner accounts (`bksd/`, `users/`) | `users`, `students`, `prospective_students.application_mail` | `sendLearnerMail`, `resendLearnerCredentials` | `Accounts`, `Credentials` |
| Account removal (`admin/`) | `users`, by cascade `students`; `staff` | `deleteUser` | `Accounts`, `Staffing` |
| Recruiter (`recruiter/`) | `prospective_students` | `createLearner`, `editInformation`, `deleteStudent`, `importLearners` | `LearnerRecord`, `Learners` |
| Inductor (`inductor/`) | `inductor_status`, `attendance_status` | `sendMeetingLink`, `updateAttendanceStatus` | `LearnerRecord` |
| Lazer, certificate (`lazer/`, `certificate/`) | `lazer_status`, `certificate_status` | `approveStudent` | `LearnerRecord` |
| Archive (`archive/`) | `is_archived`, archive stamp | `archiveStudent`, `unarchiveStudent` | `LearnerRecord` |
| Forms (`form/`) | `form_submissions` | `createSubmission`, `updateDraft`, `submitForm`, `reviewSubmission` | `Forms` |
| Accessor (`accessor/`) | `application_status` of learner and student, forms | `approveApplication`, `rejectApplication` | `Pipeline` |
| Persistence (TypeORM `save`) | none | SELECT, then UPDATE of the differing columns, or INSERT | `Orm` (external) |
| Authentication (`auth/`) | `users`, Redis codes and keys, `token` | `login`, `send2faEmail`, `verify2fa`, `initiatePasswordReset`, `resetPassword`, `changePassword`; not `enable2fa`, `disable2fa` | `Credentials` (partly) |
| School sign-up (`auth/`) | `school`, `users`, Redis onboarding keys | `createSchool` | `SchoolSignup` |
| School verification (`college-verification/`) | `school.status` | `verifySchool` | `Verification` |
| Roles (`admin/`) | `roles`, `role_permission` | `createRole`; not `archiveRole`, `unarchiveRole` | `Roles` (partly) |
| Connection pool (TypeORM, node-postgres) | connections checked out | taken per query, or kept by a query runner | `Onboarding` |
| CSV import (`shared/services/csv-processor.service.ts`) | none | `processLearnerCSV`, `generateTemplate` | `CsvMapping` |
| Staff (`admin/`) | `staff`, `users` | `createStaff`, `assignRoles`; not `createWorkflow` | `Directory`, `Staffing` (partly) |
| Folders, documents, log (`admin/`) | `folders`, `documents`, `app_logs`, the bucket | `createFolder`, `deleteFolder`, `createDocument`, `uploadDocument`, `uploadDocumentToFolder`, `saveSchoolDocument`, `deleteDocument`, `addDocumentToStudent`, `moveToTrash` | `Records`, `Library` |
| Dashboards (`dashboard/`) | one table per dashboard | `moveStudent`, `moveStudentToAccessor`, `moveStudentToInductor` | `Boards` |
| Migrations (`database/`) | the schema, the `migrations` table | `migration:run`, `migration:revert` | `Schema`, `Migrations`, `Entities`, `Deploy` |
| Auditor, students, listing queries | none | read only | not modelled |
| Mail, Redis, storage, Slack, Google Meet, logger | none | clients of external services | not modelled (I/O) |
| `create-accounts/`, `financial-aid-officer/` | none | commented out, or a stub | not modelled |

How they interact: through the tables, and through the one pool of connections
all queries are made on.  A handler is an async function;
other requests' handlers run at every `await`.  The foreign key from `students`
to `users` cascades deletions; the one from `form_submissions` to
`prospective_students` refuses them; `users.email` is unique; nothing makes
`prospective_students.email` unique.

What is hard here, and what would make each part correct:

* *Stale whole-entity saves.*  `save(entity)` writes back every column in which
  the entity differs from the row it re-reads, also those another team has just
  changed.  Correct would at least be: no record ever shows a stage the learner
  has not been through (`StagesInOrder`, `ProgressSpec`).  That a stale save
  may undo a stage is a finding (`DecisionsAgree`).
* *Partial failure.*  `sendLearnerMail` is four statements and a mail without
  a transaction.  Correct: whoever was mailed credentials has an account, and
  whoever is marked 'Sent' was mailed (`MailedHasAccount`, `ProgressSpec`).
* *Identity.*  A student is found by e-mail, an account by e-mail, and a
  learner's e-mail can be edited at any time.  Correct: a student's e-mail is
  its account's (`StudentMatchesAccount`).
* *Decisions.*  Three tables in one transaction with row locks; failures
  inside it; decisions taken twice or both ways.  Correct: all or nothing,
  locks never outlive the transaction, everyone waiting goes on
  (`DecisionsAgree`, `LocksHeldByDecisions`, `EveryRequestReturns`).
* *Forms.*  Several saves at once under `Promise.all`, each of which may fail
  alone, against reviews and decisions (`OnlySubmittedAreReviewed`,
  `SubmissionsHaveLearner`).

* *Sign-up.*  Two rows in one transaction, but the onboarding key in Redis and
  the welcome mail are out before the commit, and every lookup needs a second
  connection.  Correct: school, administrator and key come together, names and
  e-mails differ although the lookups race, only verified schools are announced,
  connections come back, everyone returns (`SchoolsAreComplete`,
  `SchoolsAreDistinct`, `AnnouncedAreVerified`, `ConnectionsReturned`,
  `EveryCallReturns`).
* *Roles.*  A role appears at once with the permissions that were found for it,
  possibly none (`LedgerSpec`).

* *Staff accounts.*  `assignRoles` builds an account in memory and saves it
  twice in one transaction, with a mail between; `deleteUser` writes the same
  two rows in the other order.  Correct: nobody else ever sees the first half
  of an account (`NoHalfAccounts`); staff rows and accounts agree, whatever is
  assigned and removed at once (`AccountsAreAssigned`, `AssignedHasAccount`);
  whoever deadlocks is released (`EveryCallReturns` of `Access`).
* *Passwords.*  Five handlers write them and mails carry them, none atomically.
  Correct: an account's holder knows its password, but for a resend whose mail
  failed (`HolderKnowsPassword`), and a reset key that was used up stays used
  (`SpentKeysAreGone`).
* *Imports.*  Which column is which is guessed from the headers, rows are
  dropped at two places, and learners are created, edited and deleted between
  the lookups and the insert.  Correct: no row is lost without an error
  (`RowsAreAnswered`), the order of named columns does not matter
  (`ColumnOrderIsFree`), and nobody is imported who was there already
  (`KnownAreNotImported`).
* *Folders and documents.*  Lookup and insert are apart, deletions cascade, and
  copies share a file.  Correct: nothing is filed in a folder that is gone
  (`TreeIsWhole`), and every link leads somewhere (`DocumentsHaveFiles`).
* *Dashboards.*  A move is a save and a delete.  Correct: a learner may be on
  two boards but never on none (`StayOnBoards`).
* *Migrations.*  Forty-six files by hand, one of which commits the transaction
  they all share.  Correct: the schema has what entities and handlers need, but
  for what is listed (`GapsAreKnown`, `HandlersRely`), a run fails for known
  reasons only (`FailuresExplained`), leaves half a file only after that COMMIT
  (`HalvesFollowTheCommit`), and a revert takes back what its migration did
  (`RevertsAreExact`).

`PROJECT.json` lists the hazards line by line, those without a property too.

## The modules of the pipeline

`Orm` - `Dirty` and `WriteBack`, the two halves of `Repository.save`.

`Tables` - the constants, the tables as functions from ids to rows or `None`,
the row locks, the requests, `TypeOK` and `Init`.  A request (an element of
`Request`) is used once.  `req[r]` is the handler's position and its locals:
`pc` names the await it is at, `entity` the row it has loaded and changed,
`dirty` the columns its save has found different, `forms`, `formPhase` and
`formDirty` the same for each form of a `Promise.all`.  `past` and `turnedIn`
are history variables: the milestones of each learner, and the forms learners
have submitted; no action reads them except to keep an id from being used
twice.  `Fail(r)` is a statement or mail that fails, or a crash, at any await.

`Accounts`, `LearnerRecord`, `Forms` - one action per call of a handler (the
code up to its first write or mail, whose lookups decide whether it goes on)
and one per later await; `SendStep`, `RecordStep` and `FormStep` collect them.

`Pipeline` - the accessor's decisions and the composition: `ClientCall` is a
client's call, `HandlerStep` the next step of a handler in flight.  The
properties and the inductive invariant are here.

`Milestones` - the abstract specification: a learner reaches milestones
(created, account, mailed, sent, approved or rejected, linked, present), each
only after those it depends on, and a record that shows some of the reached
ones, however it changes.  `Pipeline!Progress` is the refinement mapping:
`reached` is `past` without "removed", `shown` is what the learner's row says.

`MCPipeline` - handler sets, symmetry and a later initial state for TLC.

`PipelineProofs`, `PipelineRefinement`, `FormsProofs`, `AccountsProofs` - the
proofs.

Each module also holds the mutants of its actions, as operators before the
definition they vary: what a plausible bug there would be.  Nothing uses them
in the specification; each breaks a property of a run when put in place of the
original.

Where the model's steps are coarser than the code's: lookups before the first
write or mail are one step with the call, as nothing is decided from an earlier
lookup that a later one does not repeat (the accessor's lookup of the student
is a step of its own, because it uses the e-mail of the learner loaded before).
The two UPDATEs at the beginning of a decision and the SELECT of the forms are
one step, since the updates are invisible to others until the commit and lock
the learner before the student in every handler.  `deleteUser` is one
transaction and one step.  An e-mail stands for e-mail and mobile number.

Abstractions: one school; names, addresses, courses, user names, passwords, the
archive stamp and the reviewer and comment of a review are left out; a form's
answers are a set of keys, so merging is union; the templates of forms are
active.  Who may call what is not modelled: any client may make any call.

## The modules of the registration

`Onboarding` - the constants, the tables `school`, `account` (the
administrators' rows of `users`), `role` and `granted` (`role_permission`), the
Redis hash `onboarding`, the mails, and `connections`, the requests that keep a
connection checked out.  A row has the request that creates it as its id and is
"none", "pending" inside its transaction, or committed; so READ COMMITTED is
`Opened(s)`, `account[s] = "kept"`, and a rollback is `Without`.  `pc[r]` names
the await of request `r`, `call[r]` what it asks for.  `FreeConnection` is the
guard of every query that is not made on the transaction's own connection.
`Throws(r)` is what the handlers' `catch` and `finally` do, `Fail(r)` that any
await may reject, `Crash` that the process dies (in `createSchool` a rejected
welcome mail is an unhandled rejection, which ends a Node process).

`SchoolSignup`, `Verification`, `Roles` - one action per await of
`createSchool`, `verifySchool` and `createRole`.  An INSERT that meets the same
unique value in another transaction waits (`InsertSchool` is disabled) until
that one ends; it fails if it committed (`SchoolConflict`).

`Registration` - their composition, the properties and the inductive invariant.

`SchoolLedger` - the abstract specification: keys are handed out, a school
opens with its administrator and after its key, is verified after that and
announced after that, roles come with their permissions, and nothing is taken
back.  `Registration!Ledger` maps the committed rows to it.

`MCRegistration` - values for TLC.  `RegistrationProofs` - the proofs.

Abstractions: the learners' accounts are not in `account`; a user name is one
that is as `cleanAndTruncateText` leaves it or one that is not; `granted` says that
all the permissions of the request that exist have been saved for the role, of
which there may be none (the code's loop then saves nothing); the entity of the SELECT before an
UPDATE is not kept, as the only column `verifySchool` changes is the status;
answers are not part of the state.  The Slack message is left out.

## The modules of access

`Directory` - the constants, the tables `staff` and `users`, `draft` (what each
transaction has written and not committed, which is also what it has locked),
`redis` (reset keys and codes), and the requests.  READ COMMITTED is
`SeenStaff(r)` and `SeenUsers(r)`: the committed rows under the transaction's
own.  An INSERT waits for a transaction that holds its id or its e-mail
(`InsertFree`) and then fails if the value is taken (`Taken`).  `known`,
`mailed` and `spent` are history; so is `missed`, the accounts that were gone
when `assignRoles` updated them or that were removed by a `deleteUser` that did
not mark the staff row of their id as unassigned (`Marked`), which no action
reads.

`Staffing` - `createStaff`, `assignRoles` and `deleteUser`.  A batch of
`assignRoles` is one transaction; per assignment `updateUserRole` and
`createStaff` of the repository each save the account, a SELECT and then an
INSERT or an UPDATE of the differing columns (of which there may be none), then
the mail and the mark on the staff row.  The account has the staff row's id.

`Credentials` - `resendLearnerCredentials`, `changePassword`,
`initiatePasswordReset`, `resetPassword`, `login`, `send2faEmail`, `verify2fa`.
`Expire` is Redis's.

`Access` - the composition, with PostgreSQL's deadlock detector: when requests
wait for each other in a cycle, `DeadlockDetected` ends one of them.  `MCAccess` -
values for TLC.  `AccessProofs` - the proofs.

Abstractions: one school, and the staff's administrator is not among the staff;
a password is named after the request that made it; a user name is its role and
whether a random number follows; permissions, tokens, the time of the login and
`login_attempts` (read, deleted, never raised) are left out.  `Fail` covers a
failed query, a failed mail and a lost connection at any await.

## The modules of the office

`CsvMapping` - `CSVProcessorService` as operators: which column feeds which
field (`FindMatchingHeader`, `UsePositional`), what is wrong with a row
(`RowErrors`), the answer (`ProcessLearnerCSV`, which keeps the good rows in
the order of the file, `Ordered`), and which files the parser takes at all
(`Parses`).  A header is its text and
the text's letters and digits, which is all the matching compares; a cell is an
e-mail address, a telephone number, a text, junk or nothing, and some cells are
dates (`Dates`) or numbers (`Numbers`) too, as some telephone numbers are.

`Records` - the tables, each a sequence in the order of insertion (an id is a
position and is not given again), the bucket, the requests, and `Fail`, which
differs per await: some lookups have a `try` of their own, and `moveToTrash` is
not awaited, so that its failure ends the process (`ProcessDies`).  A request's
`before` is history: the learners there were when an import was called and that
nobody has changed since.

`Learners` - `createLearner`, `editInformation`, `deleteStudent` and
`importLearners`.  An edit loads a learner, takes over an e-mail and a mobile
number without looking anyone up, and saves: a SELECT, and then an UPDATE of the
columns that differed, or an INSERT if the row has gone.  An import parses the
file or refuses it, makes one lookup per record and one insert for all that are
left.  What the lookups found counts only if one of them found a duplicate, as
in the code.

`Boards` - the three moves.  Nothing inserts into `recruiter_dashboard`, so
`moveStudent` takes learners from `prospective_students`; for the same reason
`updateLearner`, which looks there, always answers false and has no action.

`Library` - folders with their cascade, documents, their copies for students,
and the log.  `Office` - the composition, its properties and the inductive
invariant.  `OfficeProofs` - the proofs.

Abstractions: names, types and sizes of files; quotes and empty lines, so that a
file is rows of cells (a cell that has a comma and no quotes is two of them); the
wording of errors.  Foreign keys are those the schema has after all
migrations.

## The modules of the migrations

`Schema` - what PostgreSQL makes of a statement: the schema is a function from
things (a table, a column, a constraint, an index, a type, a label, a row that
matters) to what matters of them; a statement is a verb and things; it succeeds
or fails (`Succeeds`) and has an `Effect`, with IF NOT EXISTS as PostgreSQL
takes it (a table that exists stays as it is) and with CASCADEs.

`Migrations` - every file's `up` and `down`, query by query; `Files` is their
order.  `Entities` - the columns the entity classes read and write, and the
labels their enums send.

`Deploy` - `migration:run` as TypeORM does it (all pending files in one
transaction, one record per file), `migration:revert`, crashes, the release of
a later version, and students entered in between.  `db.torn` and `db.before`
are history.  `DeployProofs` - the proofs.

Abstractions: column types, lengths and defaults (only whether a column must be
given a value), and the number of rows.

Each module also holds the mutants of its definitions, as operators before the
definition they vary: what a plausible bug there would be.  Nothing uses them
in the specification; each breaks a property of a run when put in its place.

## The runs

| Run | Question | Instance |
|---|---|---|
| `pipeline_all` | `TypeOK`, `IInv`, `StagesInOrder`, `LocksHeldByDecisions`, `SubmissionsHaveLearner`, `ProgressSpec` with every handler | 1 learner, 2 e-mails, 4 requests |
| `pipeline_accounts` | `MailedHasAccount`, `StudentMatchesAccount` with sends, e-mail edits, both deletions and approvals | 2 learners, 2 e-mails, 3 account ids, 4 requests |
| `pipeline_decisions` | `DecisionsAgree` with sends and decisions, the handlers that do not save whole rows | 2 learners, 2 e-mails, 5 requests |
| `pipeline_established` | `OnlySubmittedAreReviewed`, `EveryRequestReturns` after the learner has been sent its credentials, with the handlers that take or wait for row locks and the forms', whose saves of two forms run at once and may fail one by one | 1 learner, 2 forms, 3 requests, no symmetry |
| `decisions_stale` | finding: `DecisionsAgree` is violated once whole rows are saved | 1 learner, 5 requests |
| `registration_all` | `TypeOK`, `RegistrationInv`, `SchoolsAreComplete`, `SchoolsAreDistinct`, `AnnouncedAreVerified`, `ConnectionsReturned`, `LedgerSpec`, `EveryCallReturns` | 3 requests, 2 colleges, 2 e-mails, 4 connections, no symmetry |
| `pool_exhausted` | finding: `EveryCallReturns` is violated with as many sign-ups as connections | 2 requests, 2 connections |
| `access_all` | `NoHalfAccounts`, `HolderKnowsPassword`, `SpentKeysAreGone`, `AccessInv` (with `TypeOK`), `EveryCallReturns` with every handler | 1 member of staff, 1 learner, 1 e-mail, 2 roles, 2 requests |
| `access_staff` | `AccountsAreAssigned`, `AssignedHasAccount` with `assignRoles` and `deleteUser` | 2 members of staff, 2 e-mails, 3 requests |
| `office` | `OfficeInv` (with `TypeOK`), `DocumentsHaveFiles`, `TreeIsWhole`, `KnownAreNotImported`, `RowsAreAnswered`, `ColumnOrderIsFree`, `StayOnBoards` with every handler | 2 requests, 2 users, 5 CSV files, 2 e-mails |
| `import_rows` | finding: `RowsAreNamed` is violated | as `office` |
| `migrations` | `TypeOK`, `GapsAreKnown`, `HandlersRely`, `FailuresExplained`, `HalvesFollowTheCommit`, `RevertsAreExact` | 46 migrations, installed at any release, 3 of them upgraded, 2 crashes or reverts |

Why the bounds are enough.  Pipeline: create, send, decide and link or archive
are four requests, enough for every stage and for a stale save over it
(`pipeline_all`; all it checks is proved for all sizes); a decision undone and noticed needs a fifth (`decisions_stale`,
`pipeline_decisions`); the account properties need two sends in flight with an
edit and a deletion between their steps, over two learners sharing an e-mail (4
requests); the form properties need a create, a submit and two overlapping
writers, the creation being over in `pipeline_established`, which starts where
the send is over and two forms are drafts (`EstablishedInit`, which other runs show
reachable step by step); two forms of one learner are what a `Promise.all` needs
to save one and fail at the other, and a submission, a review and a stale draft
of them are the three requests.

Registration: two sign-ups that collide in the college name or in the e-mail,
and a verification of the first's key or a role of its administrator, are three
requests; two sign-ups can only race while a third connection is free for their
lookups, and a fourth keeps a pool from running dry, without which nobody
returns (`pool_exhausted`).

Access: `access_all` starts from any staff row and accounts, so that two
requests meet in every state a third could have left (a reset key, the one
thing an initial state does not have, needs two requests to be made and used,
and `SpentKeysAreGone` is about one key).  `access_staff` needs three: an
assignment, a removal, and another assignment of one of two members in the
other order, which is also the smallest cycle of locks through two batches.  A
fourth request finds one more way to miss a removal (see the proofs); the two
properties are proved for any number.

Office: the initial state has a learner on any boards and a folder with a
document; each property is about what one handler has looked up and another
one changes, hence two requests.  The files are the
template as it is offered and with quotes around its address, one read by name
with two headers for one field and three rows, of which one is wrong in three
columns, one with too few columns, and one read by position with a bad date.

Migrations: nothing is bounded but the faults; a revert and a crash, or two of
either, are enough for a run to start from a state no run was written for.  The
upgraded releases lie before the COMMIT, before the folders and the schema
synchronisation, and after them.

Requests, learners, e-mails and ids are interchangeable, hence `SYMMETRY Alike`
in the safety runs; runs with liveness do without.  An instance stops when every
request has returned, or the database is up to date, so deadlock is not checked;
`EveryRequestReturns` and `EveryCallReturns` say that nobody waits for ever.

Fairness: weak fairness of `HandlerStep(r)` for each request.  The
event loop resumes a handler whose await is answered, every statement and mail
is answered or fails, and Postgres grants a row lock once its holder ends.
Nothing obliges a client to call, and nothing obliges a failure to happen.
In the registration `HandlerStep(r)` is enabled only while a connection is free
and no other transaction holds the unique value; weak fairness is enough, since
with a pool larger than the requests in flight a connection is always free,
and a unique value, once taken by a commit, stays taken (`SchoolConflict`).  A
welcome mail need never be delivered.  In access `HandlerStep` includes
`DeadlockDetected`, as PostgreSQL looks for a cycle once a wait has lasted a
second.  Office and migrations state no fairness: no handler there waits for
another.

## The findings

* `decisions_stale`: `inductor.service.ts:245-246` saves an entity loaded before
  the mail was sent (likewise `archive.service.ts:44`, `lazer.service.ts:176`,
  `certificate.service.ts:145`, `recruiter.service.ts:658`).  A decision that
  commits in between is undone on `prospective_students` but not on `students`,
  which `accessor.service.ts:156` promises to keep together.
* `pool_exhausted`: `createSchool` keeps a connection from
  `auth.service.ts:48` on and makes its lookups (lines 53 to 80) on others of
  the same pool, `createRole` likewise (`admin.service.ts:477`).  The pool has
  TypeORM's default size of ten and no timeout: ten sign-ups at that point wait
  for ever, and so does every other request.
* `import_rows`: the row an import reports for a duplicate
  (`recruiter.service.ts:485`) counts the valid records, not the rows of the
  file; after an invalid row it names the wrong one.

Other observations, which the models include but no property states:

* `submitForm` says it updates "all draft submissions"; the filter is commented
  out (`form.service.ts:202`) and decided forms are submitted again.  Two
  overlapping `updateDraft` calls both report success and the answers of one
  are gone.
* A sign-up's user name is looked up cleaned and saved as typed
  (`auth.service.ts:66-78`, `94`), so one with a space or a capital is never
  found taken; its welcome mail (`auth.service.ts:122`) is out before the commit,
  which may still fail.
* A learner whose account is removed keeps its row and its e-mail.  Once
  another learner with that e-mail has an account, a decision on the first
  finds the students row of the second (`accessor.service.ts:147` looks by
  e-mail) and writes its own verdict there.  So `DecisionsAgree` needs
  `deleteUser` out of the way too.
* `assignRoles` mails the password inside its transaction, and the same member
  twice in one batch gets two mails of which the first is wrong.  An address
  entered twice makes `deleteUser` mark whichever row it finds.
* A `deleteUser` that compares the staff row while it is unassigned, or while
  its save finds nothing but an older user name to write
  (`admin.repository.ts:1026-1029`), removes an account that an `assignRoles`
  has created in between and leaves the row assigned.
* After `resendLearnerCredentials` whose mail fails nobody knows the password.
* A learner who is in an imported file twice is imported twice; a lookup that
  fails during an import is reported when another record is a duplicate, and
  otherwise ignored, so that its record is imported unchecked.
* The template every import error offers cannot be imported: `generateTemplate`
  (`csv-processor.service.ts:504-518`) joins its cells with commas and without
  quotes, and one of them is `'123 Main St, London'`.  The sample row has twelve
  cells under eleven headers; the parser, called without `relax_column_count`
  (lines 183-188), refuses the file, and the answer, CSV_PARSE_ERROR, offers the
  same template again (`recruiter.service.ts:173-187`).  In `office` the template
  is one of the files (`GenerateTemplate`) and is refused.
* `editInformation` asks nobody whether the e-mail is another learner's.  An edit
  between an import's lookup and its insert makes two learners with one e-mail,
  and an edit of a learner that is deleted meanwhile inserts it again.  So `KnownAreNotImported` is about the
  learners that nobody has edited since the call.
* `moveToTrash` is answered before anything is done, and a log id that does not
  exist ends the process.
* What the migrations and the entities disagree on (`KnownGaps`,
  `KnownRefusals`, `KnownMissingLabels`): `prospective_students` has no column
  `name`; it, `students` and `documents` have NOT NULL columns the entities do
  not set; the dashboards' `NI_number` is `ni_number`; there is no table
  `recruiter_dashboard`; labels of three enums are missing.  The models of the
  handlers assume that the entities' columns exist.
* `1720662235451-add-roles-to-role-table.ts:29` sends COMMIT in the middle of
  the transaction TypeORM puts all migrations in.  `students.name` is added NOT
  NULL, which fails once there are students.  Eight `down`s do nothing, one
  leaves the key `FK_school_id_accessors` on the table its `up` has put it on by
  mistake, and two cannot be parsed.

## The proofs

For every number of learners, e-mails, account ids, forms and requests, any set
of handlers, and with the assumptions of `Tables` only (`Handlers` are handler
names, and `None` is not an id or a row), TLAPS proves

* `CoreInvariant`: `Spec => []CoreInv`, and its corollaries `TypeCorrect`,
  `StagesAreInOrder`, `LocksAreHeldByDecisions`,
* `FormsInvariant`: `Spec => []FormsInv`, with `FormsKeepTheirLearner`
  (`SubmissionsHaveLearner`) and `OnlyTheSubmittedAreReviewed`,
* `Invariant`: `Spec => []IInv`, where `IInv` is `CoreInv`, `FormsInv` and
  `AccountsInv`, with `StudentsMatchTheirAccounts` and `TheMailedHaveAccounts`,
* `Implementation`: `Spec => ProgressSpec`, the refinement of `Milestones`.

`StagesInOrder` is not inductive: a save may write any loaded column at any
later time, so what matters is what requests hold in memory.  `CoreInv` adds that
(`RequestsTrue`): the entity a request holds shows only what has happened
(`EntityTrue`), the await it is at has its prerequisites (`AwaitReached`), the
locals it will read are set (`LocalsSet`), only created learners have rows
(`RowsCreated`), and a locked row exists and belongs to the transaction that
locked it (`LocksHeldByDecisions`, without which a commit could write a row
that is gone).  As the past only grows, another request's step cannot make any
of this false (`OthersTrue`); and a row that is partly overwritten by a true
entity shows no more than the two did (`WriteBackLearner`).  `PipelineProofs`
begins with these facts and has one lemma per action (the locks are proved
separately, in `LocksPreserved`), and `PipelineRefinement` shows that each step
is an `Advance`, a `Refresh` or a stutter of `Milestones`.

Forms and accounts need what requests know of them, beside `CoreInv`.
`FormsInv`: the form a handler holds belongs to the learner of its row, and
looks submitted only if the learner has submitted it, so that a save of any of
its columns is harmless; the database keeps a learner that has forms and refuses
a form without learner.  `AccountsInv`: the users row a send has created is its
own until it has written the students row (`SendsTrue`), an e-mail has one
account and only who has one is mailed (`UsersTrue`), and a save that writes one of two columns that must agree writes
both.  `FormsProofs` and `AccountsProofs` have one lemma per action that
touches these, and one for all that do not.

`TheDecisionsAgree` is `Spec => []DecisionsAgree` under one hypothesis, that
`Handlers` has none of `Disturbing`: the seven handlers that save a whole
learner row, which is the finding `decisions_stale`, and `deleteUser`, which
frees an e-mail for another learner's account (see the observations).
`pipeline_decisions` runs such an instance.  The rest is for any size, with
learners created, deleted and reviewed, e-mails shared, forms written, and
failures at every await.  `DecisionsInv` is inductive beside `IInv`: all that
is held of a learner carries one e-mail (`OneEmail`), a students row with that
e-mail is the learner's own because accounts stay and e-mails of accounts
differ (`RowsUndisturbed`), and a decision past its updates has both rows
locked, so that the commit writes both or, the learner being deleted, the only
one there is (`RequestUndisturbed`).

For every set of requests, colleges, e-mails, user names and role names and any
pool of at least one connection (`PoolAssumption`; `CleanedAssumption`, that
cleaning twice is cleaning once, is not needed), `RegistrationProofs` proves

* `Registered`: `Spec => []RegistrationInv`,
* `SchoolsComplete`, `SchoolsDistinct`, `AnnouncementsTrue`: its corollaries,
* `ConnectionsComeBack`, `RegistrationTypes`: `Spec => []ConnectionsReturned`
  and `Spec => []TypeOK`,
* `LedgerImplemented`: `Spec => LedgerSpec`, the refinement of `SchoolLedger`.

`SchoolsAreComplete` needs to know which rows a transaction has written at each
await (`RowsMatch`) and that the key is out before the commit (`KeysMatch`);
`SchoolsAreDistinct` that the unique indexes see uncommitted rows too
(`ValuesHeld`: the lookups prove nothing); `AnnouncedAreVerified` that a
verified school stays so.  There is one lemma per action, and for the actions
that only move on or roll back one for all (`MovesInv`, `AbortInv`).  That the
connections are never more than the pool has is not part of `RegistrationInv`
but inductive with it (`PoolStep`): a request takes one only while one is free,
and each step takes at most one.

For every set of staff, learners, e-mails, roles, requests and batches, with the
assumptions of `Directory` only (batches are not empty, handlers are named, and
`None` is not an id, a row or a value), `AccessProofs` proves

* `CoreInvariant`: `Spec => []CoreInv`, with `AccessTypes`, `AccountsAreWhole`,
  `HoldersKnowPasswords` and `KeysAreSpentForGood`,
* `AccessInvariant`: `Spec => []AccessInv`, where `AccessInv` is `CoreInv` and
  `StaffInv`, with `AccountsStayAssigned` (`AccountsAreAssigned`) and
  `AssignedKeepAccounts` (`AssignedHasAccount`).

That no half account is visible needs to know what a transaction has written at
each await (`DraftsWritten`): the row it is saving may lack a user name or a
password only between the first save and the second, whose dirty columns cover
whatever is missing, and its password may be unknown only until the mail; at
`assign.find`, the only await that commits accounts, every row is whole.  The UPDATE of a
save may hit a row that is not the one it selected: then the row is one that
was committed, and `UsersWhole` says it is whole.  A spent key is mailed, and
its request done, so nobody stores it again (`KeysStored`).  `StepInv` shows
once that a step of one request leaves the others' locals and rows as good as
they were; then there is one lemma per action.

That rows of staff and accounts agree needs what a transaction that has
written one of the two knows of the other (`StaffInv`).  Both rows have one
address (`AddressesKept`, `DraftAddresses`), and no row is written by two
transactions (`RowsLocked`), so that nobody changes a row an assignment or a
removal is about to commit.  An assignment has written both rows of every
member but the one it is saving; that one's account has the new user name after
the second save, because the name it makes up is never the one the account has
(`AssignNameTrue`), so the UPDATE always writes it - or the account is gone and
the UPDATE hits no row, which `missed` records (`AssignmentTrue`).  A removal
has marked the row of the account it removes, or one whose address somebody
else has too, and never makes a row assigned (`RemovalTrue`).  The proof
attempt found `missed` too narrow: a removal may have marked a row with nothing
but an older user name, which takes four requests to matter, one more than
`access_staff` has; `Marked` now asks for the status.

For every set of users, requests, CSV files and calls, with the assumptions of
`Records` and `CsvMapping` only (files are sequences of cells, the kinds of
cells are disjoint, no e-mail address is a number, and `Gone` is not a row), `OfficeProofs` proves

* `OfficeInvariant`: `Spec => []OfficeInv`, with `OfficeTypeCorrect`,
  `DocumentsKeepTheirFiles` (`DocumentsHaveFiles`), `TheTreeStaysWhole`
  (`TreeIsWhole`) and `TheKnownAreNotImported` (`KnownAreNotImported`),
* `LearnersStayOnBoards`: `Spec => StayOnBoards`, an action property,
* `ImportsAccount`: `Spec => []ImportsInv`, with `EveryRowIsAnswered`
  (`RowsAreAnswered`),
* `ColumnsInAnyOrder`: `ProcessLearnerCSV` gives the same for a file with its
  columns permuted in any way, if it is read by name, each column has a header
  of its own and each row a cell per column; with `TheOrderOfColumnsIsFree`
  (`ColumnOrderIsFree`) where all the files read by name have such headers.

A document may be linked to its file because the file is there before the row
and nothing deletes files (`FilingTrue`).  A folder's parent is older than the
folder, so that what a deletion takes (`Below`, computed from parent to child)
is closed: whoever is left has a parent that is left; this is an induction on
the folders' numbers.  A learner may be deleted from a dashboard because the
move has put it on the next one, or another request has moved it on from there
(`MoveTrue`).  A record found free is none of the learners there were at the
call and that nobody has edited since, whatever is created, deleted and edited
meanwhile (`ImportTrue`): a learner that a save has changed, or put back, leaves
`before` in the step that does so (`EditInsertStep`, `EditUpdateStep`).

Every row of a file that is not refused is accounted for by itself: parsing
gives it an error with its own number, or puts it among the valid records, at
the place `ValidRows` knows; of that record the lookups keep its place or make
an error for it, at the number the code computes, which may be the number of
another row.  That the two kinds of error are never one and the same is what
the argument is about: they differ in field and type (`Accounts`).  The
hypothesis on headers is what a spreadsheet gives; `MCOffice` has it as an
assumption, so that TLC evaluates it for the five files, and a file with two
columns of one name is indeed read differently when they change places.

For every set of releases and upgrades and any number of faults, with
`DeployAssumption` only, `DeployProofs` proves

* `TheCommit`: of the forty-six files only the thirteenth sends a COMMIT, read
  off the queries of each (`QuietFiles`),
* `Transactions`: `Spec => []TransactionInv`, with `HalvesAreBehindTheCommit`
  (`HalvesFollowTheCommit`) and `TypesOfDeployment` (`TypeOK`).

`HalvesFollowTheCommit` is about what is durable, and needs to know what is
not: in an open transaction only the file in hand is torn beyond what had been
before, nothing is pending when the run ends, and a run whose transaction is
gone is past that file, so that from there on what is written is durable at
once.  Whether a statement succeeds does not matter for this.

Only model-checked: `GapsAreKnown`, `HandlersRely`, `FailuresExplained` and
`RevertsAreExact`, which are about the schema that some two hundred statements
of the migrations make, folded over sequences that the prover cannot do
induction on; and `EveryRequestReturns` and `EveryCallReturns`, which need
fairness and ENABLED, out of the prover's reach.  The findings are
counterexamples of TLC.  `DecisionsInv`, `ImportsInv` and `TransactionInv` are
proved, and stronger than what the runs check of them.

## Not modelled

* `enable2fa`, `disable2fa`: they set a flag that `login` reads and ignores.
  `refreshToken` and the JWT guard only read.
* `archiveRole`, `unarchiveRole`: they set a stamp that only a listing reads.
* `createWorkflow`: one insert of what it has read.  `inviteStaff`,
  `updateStaff`: nothing calls them.
* The listing queries, the auditor and the students' views: they change nothing.
* The clients of mail, Redis, storage, Slack and Google Meet, the wiring, and
  the commented-out and stub modules.
* Who may call what: any client may make any call.

## What is left

Nothing that the runs check and the prover can reach is without a theorem.  The
model could grow at the hazards `PROJECT.json` lists without a property, where
the code does something no document promises or forbids (`submitForm` on a form
that was decided on, two overlapping `updateDraft`, the welcome mail before the
commit).  Should the whole-row saves be replaced by updates of single columns,
their handlers can leave `Disturbing`, and `TheDecisionsAgree` is what to prove
again.
