----------------------------- MODULE Migrations -----------------------------
(***************************************************************************)
(* The migration files, in the order of their timestamps: the queries of   *)
(* up and of down, each a sequence of statements of Schema.  A helper of   *)
(* TypeORM that sends several queries (createTable first makes the types   *)
(* of its columns) is as many queries here.  Lookups that only guard the   *)
(* statement after them are the IF [NOT] EXISTS of that statement.  A      *)
(* query whose promise is not awaited (createSchool's table) is still sent *)
(* before the next one, on one connection.                                 *)
(***************************************************************************)
EXTENDS Schema, Sequences, TLC

Stamps == {"created_at", "updated_at"}
Seeded(names) == <<Ensure(Rows("roles", names))>>
Cascade(t, name, column, to) == <<Create(Key(t, name, column, to, "CASCADE"))>>
DropKey(t, name) == <<Drop(Things("constraint", t, {name}, ""))>>
DropKeyIfFound(t, name) == <<Discard(Things("constraint", t, {name}, ""))>>
DropTable(t) == <<Drop(Things("table", t, {t}, ""))>>
DropColumns(t, names) == <<Drop(Columns(t, {}, names))>>
None == <<>>                                     \* a down that does nothing

CreateRole == [
  up |-> <<
    <<Ensure(Things("extension", "uuid-ossp", {"uuid-ossp"}, ""))>>,
    <<Ensure(Type("roles_role_enum", {"none", "school_admin", "student",
        "external_auditor", "school_recruiter", "financial_officer"}))>>,
    <<Create(Table("roles", {"role"}, {"description"} \cup Stamps))>>,
    Seeded({"none", "school_admin", "student", "external_auditor",
            "school_recruiter", "financial_officer"})>>,
  down |-> <<DropTable("roles")>>]

CreatePermission == [
  up |-> <<<<Create(Table("permissions", {"name"}, {"description"} \cup Stamps))>>>>,
  down |-> <<DropTable("permissions")>>]

RolePermissionKey == "PK_19a94c31d4960ded0dcd0397759"
CreateRolepermission == [
  up |-> <<<<
    Create(Things("table", "role_permission", {"role_permission"}, "") @@
           Columns("role_permission", {"role_id", "permission_id"}, {}) @@
           Constraint("role_permission", RolePermissionKey, "role_id") @@
           Key("role_permission", "fk_role_permission_role", "role_id", "roles", "CASCADE") @@
           Key("role_permission", "fk_role_permission_permission", "permission_id",
               "permissions", "CASCADE"))>>>>,
  down |-> <<DropKey("role_permission", "fk_role_permission_role"),
             DropKey("role_permission", "fk_role_permission_permission"),
             DropTable("role_permission")>>]

CreateSchool == [
  up |-> <<
    <<Ensure(Type("school_status_enum", {"in_progress", "verfied", "completed"}))>>,
    <<Create(Table("school",
        {"college_name", "no_of_employee", "country", "business_code",
         "address_line1", "city", "post_code", "county", "status"},
        {"address_line2"} \cup Stamps) @@
      Constraint("school", "UQ_college_name", "college_name"))>>>>,
  down |-> <<DropTable("school")>>]

CreateUsers == [
  up |-> <<
    <<Create(Table("users",
        {"first_name", "last_name", "username", "email", "password", "phone",
         "role_id", "school_id"},
        {"2fa_required", "is_active"} \cup Stamps) @@
      Constraint("users", "UQ_email", "email"))>>,
    Cascade("users", "FK_role_id_users", "role_id", "roles"),
    Cascade("users", "FK_school_id_users", "school_id", "school")>>,
  down |-> <<DropKey("users", "FK_role_id_users"),
             DropKey("users", "FK_school_id_users"), DropTable("users")>>]

CreateToken == [
  up |-> <<
    <<Ensure(Type("token_type_enum", {"refresh", "password_reset"}))>>,
    <<Create(Table("token", {"type", "token", "expires"}, {"blacklisted"} \cup Stamps))>>>>,
  down |-> <<DropTable("token")>>]

(* The tables of the school's people look alike. *)
PersonTable(t, userKey, schoolKey, schoolKeyTable) == <<
    <<Create(Table(t, {"first_name", "last_name", "user_id", "school_id"}, Stamps))>>,
    Cascade(t, userKey, "user_id", "users"),
    Cascade(schoolKeyTable, schoolKey, "school_id", "school")>>
DropKeyed(t, key1, key2) == <<DropKeyIfFound(t, key1), DropKeyIfFound(t, key2), DropTable(t)>>

CreateRecruitersTable == [
  up |-> PersonTable("recruiters", "FK_user_id_recruiters",
                     "FK_school_id_recruiters", "recruiters"),
  down |-> DropKeyed("recruiters", "FK_user_id_recruiters", "FK_school_id_recruiters")]

CreateFinancialAidOfficers == [
  up |-> PersonTable("financial_aid_officers", "FK_user_id_financial_aid_officers",
                     "FK_school_id_financial_aid_officers", "financial_aid_officers"),
  down |-> DropKeyed("financial_aid_officers", "FK_user_id_financial_aid_officers",
                     "FK_school_id_financial_aid_officers")]

LearnerColumns == {"middle_name", "mobile_number", "email", "NI_number",
  "passport_number", "home_address", "funding", "level", "awarding", "chosen_course"}

CreateStudents == [
  up |-> <<
    <<Create(Table("students",
        {"first_name", "last_name", "date_of_birth", "user_id", "school_id"},
        LearnerColumns \cup Stamps))>>,
    Cascade("students", "FK_user_id_students", "user_id", "users"),
    Cascade("students", "FK_school_id_students", "school_id", "school")>>,
  down |-> DropKeyed("students", "FK_user_id_students", "FK_school_id_students")]

CreateProspectiveStudents == [
  up |-> <<
    <<Create(Table("prospective_students",
        {"first_name", "last_name", "date_of_birth", "recruiter_id", "school_id"},
        LearnerColumns \cup {"application"} \cup Stamps))>>,
    Cascade("prospective_students", "FK_recruiter_id_prospective_students",
            "recruiter_id", "recruiters"),
    Cascade("prospective_students", "FK_school_id_prospective_students",
            "school_id", "school")>>,
  down |-> DropKeyed("prospective_students", "FK_recruiter_id_prospective_students",
                     "FK_school_id_prospective_students")]

CreateDocument == [
  up |-> <<
    <<Ensure(Type("documents_onboarding_status_enum", {"pending", "completed"}))>>,
    <<Create(Table("documents", {"fileName", "fileType", "cloudinaryUrl", "userId"},
                   {"uploadedAt", "onboarding_status"}))>>,
    Cascade("documents", "fk_userId_documents", "userId", "users")>>,
  down |-> <<DropKey("documents", "fk_userId_documents"), DropTable("documents")>>]

(* The key on school_id is created on recruiters. *)
CreateAccessor == [
  up |-> PersonTable("accessors", "FK_user_id_accessors",
                     "FK_school_id_accessors", "recruiters"),
  down |-> DropKeyed("accessors", "FK_user_id_accessors", "FK_school_id_accessors")]

(* The COMMIT ends the transaction the whole run of migrations is in. *)
AddRolesToRoleTable == [
  up |-> <<
    <<Ensure(Things("label", "roles_role_enum", {"accessor", "bksd", "inductor"}, ""))>>,
    <<Commit>>,
    <<Ensure(Constraint("roles", "roles_role_key", "role"))>>,
    Seeded({"accessor", "bksd", "inductor"})>>,
  down |-> <<<<Discard(Rows("roles", {"accessor", "bksd", "inductor"}))>>,
             DropKeyIfFound("roles", "roles_role_key")>>]

(* The down's first statement has an odd number of quotes. *)
AddApplicationStatusToProspectiveStudentsTable == [
  up |-> <<<<Create(Columns("prospective_students", {}, {"application_mail"}))>>,
           <<Create(Columns("prospective_students", {}, {"application_status"}))>>>>,
  down |-> <<<<Nonsense>>, DropColumns("prospective_students", {"application_status"})>>]

SetDefaults == <<<<Alter(Columns("prospective_students", {},
                                 {"application_mail", "application_status"}))>>>>
AddDefaultValuesToProspectiveStudents == [up |-> SetDefaults, down |-> SetDefaults]

(* down drops the three names whether or not up had to add them. *)
AddNewColumnsToProspectiveStudentsTable ==
  LET column(c) == Columns("prospective_students", {}, {c}) IN [
  up |-> <<<<Discard(column("name"))>>, <<Ensure(column("first_name"))>>,
           <<Ensure(column("last_name"))>>, <<Ensure(column("middle_name"))>>>>,
  down |-> <<<<Discard(column("first_name"))>>, <<Discard(column("last_name"))>>,
             <<Discard(column("middle_name"))>>, <<Ensure(column("name"))>>>>]

AppLogs == [
  up |-> <<
    <<Ensure(Type("app_logs_logtype_enum", {"ONE_TIME", "REDOABLE"}))>>,
    <<Create(Table("app_logs", {"userId", "message", "type", "method", "route"},
                   {"logType", "folder_id", "deletedAt", "createdAt"}))>>,
    <<Create(Index("app_logs", {"IDX_APP_LOGS_USER_ID"}))>>>>,
  down |-> <<<<Drop(Index("app_logs", {"IDX_APP_LOGS_USER_ID"}))>>, DropTable("app_logs")>>]

(* A school_id with its key, added by two statements of one query. *)
AddSchoolKey(t) == <<<<Create(Columns(t, {}, {"school_id"})),
                       Create(Key(t, "fk_school", "school_id", "school", "NO ACTION"))>>>>
DropSchoolKey(t) == <<DropKey(t, "fk_school") \o DropColumns(t, {"school_id"})>>

AlterRole == [up |-> AddSchoolKey("roles"), down |-> DropSchoolKey("roles")]

CreateFolder == [
  up |-> <<
    <<Create(Table("log_folders", {"name", "userId"}, {"log_id", "createdAt"}))>>,
    Cascade("log_folders", "FK_log_folders_log_id", "log_id", "app_logs"),
    <<Create(Index("log_folders", {"IDX_log_folders_userId"}))>>>>,
  down |-> <<DropKey("log_folders", "FK_log_folders_log_id"), DropTable("log_folders")>>]

AlterSchool == [up |-> AddSchoolKey("documents"), down |-> DropSchoolKey("documents")]

(* The down ends in a comma. *)
AlterUsers == [
  up |-> <<<<Alter(Columns("users", {}, {"first_name", "last_name", "username",
                                         "email", "password", "phone"}))>>>>,
  down |-> <<<<Nonsense>>>>]

PopulatePermissions == [
  up |-> <<<<Ensure(Rows("permissions",
      {"Add student", "Audit", "Induction", "Certificate", "Learning Platform",
       "Approve/reject application", "Send Application"}))>>>>,
  down |-> <<<<Discard(Rows("permissions",
      {"Add student", "Audit", "Induction", "Certificate", "Learning Platform",
       "Approve/reject application", "Send Application", "Manage Personal Profile",
       "Assume Any Role"}))>>>>]

(* The new column has the old one's values but neither its NOT NULL, nor   *)
(* its uniqueness, nor its type.                                           *)
AlterRoleColumn == [
  up |-> <<<<Drop(Columns("roles", {}, {"role"})), Create(Columns("roles", {}, {"role"}))>>>>,
  down |-> None]

CreateStaff == [
  up |-> <<
    <<Ensure(Type("staff_status_enum", {"assigned", "unassigned"}))>>,
    <<Create(Table("staff", {"email", "school_id"}, {"username", "status"} \cup Stamps))>>,
    Cascade("staff", "FK_staff_school_id", "school_id", "school")>>,
  down |-> <<DropTable("staff"), DropKey("staff", "FK_staff_school_id")>>]

AddNewColumnsToStudents == [
  up |-> <<<<Create(Columns("students", {}, {"course_status"}))>>,
           <<Create(Columns("students", {}, {"application_status"}))>>>>,
  down |-> <<DropColumns("students", {"course_status"}),
             DropColumns("students", {"application_status"})>>]

AlterRolepermission == [
  up |-> <<
    <<Create(Columns("role_permission", {}, {"id"}))>>,
    <<>>,
    DropKey("role_permission", RolePermissionKey) \o
      <<Create(Constraint("role_permission", "new_primary_key", "id"))>>>>,
  down |-> None]

AddUsersToExpirations == [
  up |-> <<<<Create(Columns("users", {}, {"expiration_date"}))>>>>,
  down |-> <<DropColumns("users", {"expiration_date"})>>]

AddOnboardingStatus(t, check) ==
  Create(Columns(t, {}, {"onboarding_status"}) @@ Constraint(t, check, "onboarding_status"))
\* Mutant of AddStatusColumn: the workflows, which come later, are included.
AddStatusColumnEarly == [
  up |-> <<<<AddOnboardingStatus("roles", "roles_onboarding_status_check"),
             AddOnboardingStatus("workflows", "workflows_onboarding_status_check")>>>>,
  down |-> None]
AddStatusColumn == [
  up |-> <<<<AddOnboardingStatus("roles", "roles_onboarding_status_check"),
             AddOnboardingStatus("staff", "staff_onboarding_status_check"),
             AddOnboardingStatus("prospective_students",
                                 "prospective_students_onboarding_status_check")>>>>,
  down |-> None]

RolePermissionUpdate == [
  up |-> <<<<
    Ensure(Rows("permissions", {"Manage Personal Profile", "Assume Any Role"})),
    Ensure(Rows("roles", {"laser"})),
    Ensure(Rows("role_permission",
      {"school_admin: all", "student: Manage Personal Profile", "external_auditor: Audit",
       "school_recruiter: Add student", "accessor: Approve/reject application",
       "inductor: Induction", "bksd: Send Application", "laser: Learning Platform"}))>>>>,
  down |-> None]

RemoveRecruiter == [
  up |-> <<<<Create(Columns("prospective_students", {}, {"user_id"})),
             Create(Key("prospective_students", "fk_prospect_student", "user_id",
                        "users", "NO ACTION"))>>>>,
  down |-> None]

CreateWorkflow == [
  up |-> <<<<Create(Table("workflows", {"name"},
                          {"description", "onboarding_status", "school_id", "created_at"}) @@
      Constraint("workflows", "workflows_onboarding_status_check", "onboarding_status") @@
      Key("workflows", "workflows_school_id_fkey", "school_id", "school", "NO ACTION"))>>>>,
  down |-> <<DropKey("workflows", "workflows_school_id_fkey"), DropTable("workflows")>>]

(* The names are not quoted: NI_number becomes ni_number. *)
Dashboard(t) ==
  Table(t, {"first_name", "last_name", "date_of_birth"},
        (LearnerColumns \ {"NI_number"}) \cup Stamps \cup
        {"ni_number", "application_mail", "school_id", "application_status"}) @@
  Key(t, t \o "_school_id_fkey", "school_id", "school", "NO ACTION")
ApplicationStatus ==
  <<Ensure(Type("application_status_enum", {"Pending", "Approved", "Rejected"}))>>

CreateAccessorDashboard == [
  up |-> <<ApplicationStatus, <<Create(Dashboard("accessor_dashboard"))>>>>,
  down |-> <<DropTable("accessor_dashboard")>>]

CreateBksdDashboard == [
  up |-> <<<<Create(Dashboard("bksd_dashboard"))>>>>,
  down |-> <<DropTable("bksd_dashboard")>>]

CreateInductorDashboard == [
  up |-> <<<<Create(Dashboard("inductor_dashboard"))>>>>,
  down |-> <<DropTable("inductor_dashboard")>>]

FirstFormTypes == {"award_assessment", "behavioral", "candidate_record",
  "child_protection", "confidentiality", "data_protection", "employer_agreement",
  "appeal_procedure"}
SubmissionStatuses == {"draft", "submitted", "under_review", "approved", "rejected"}
Touch == Things("function", "update_updated_at_column", {"update_updated_at_column"}, "")

CreateForm ==
  LET Trigger == Things("trigger", "forms", {"update_forms_updated_at"}, "") IN [
  up |-> <<
    <<Create(Type("form_type_enum", FirstFormTypes))>>,
    <<Create(Table("forms", {"type", "title"}, {"metadata", "is_active"} \cup Stamps))>>,
    <<Create(Index("forms", {"idx_forms_type", "idx_forms_active"}))>>,
    <<Ensure(Touch)>>,
    <<Create(Trigger)>>>>,
  down |-> <<
    <<Discard(Trigger)>>,
    <<Discard(Index("forms", {"idx_forms_active", "idx_forms_type"}))>>,
    <<Discard(Things("table", "forms", {"forms"}, ""))>>,
    <<Discard(Type("form_type_enum", FirstFormTypes))>>,
    <<Discard(Touch)>>>>]

CreateFormSubmission ==
  LET Trigger == Things("trigger", "form_submissions",
                        {"update_form_submissions_updated_at"}, "") IN [
  up |-> <<
    <<Create(Type("submission_status_enum", SubmissionStatuses))>>,
    <<Create(Table("form_submissions", {"data"},
        {"form_id", "status", "student_id", "reviewer_id", "review_comment"} \cup Stamps) @@
      Key("form_submissions", "form_submissions_form_id_fkey", "form_id", "forms", "NO ACTION") @@
      Key("form_submissions", "form_submissions_student_id_fkey", "student_id", "users",
          "NO ACTION") @@
      Key("form_submissions", "form_submissions_reviewer_id_fkey", "reviewer_id", "users",
          "NO ACTION"))>>,
    <<Create(Index("form_submissions", {"idx_form_submissions_student",
        "idx_form_submissions_reviewer", "idx_form_submissions_status"}))>>,
    <<Create(Trigger)>>>>,
  down |-> <<
    <<Discard(Trigger)>>,
    <<Discard(Index("form_submissions", {"idx_form_submissions_student",
        "idx_form_submissions_reviewer", "idx_form_submissions_status"}))>>,
    <<Discard(Things("table", "form_submissions", {"form_submissions"}, ""))>>,
    <<Discard(Type("submission_status_enum", SubmissionStatuses))>>>>]

(* The learner of a submission, who was a user, becomes a prospective student. *)
PointStudentTo(t) == <<
    DropKeyIfFound("form_submissions", "form_submissions_student_id_fkey"),
    <<Create(Key("form_submissions", "form_submissions_student_id_fkey", "student_id", t,
                 "NO ACTION"))>>>>
\* Mutant of UpdateFormSubmission: the learner stays a user.
UpdateFormSubmissionNot == [up |-> PointStudentTo("users"), down |-> PointStudentTo("users")]
UpdateFormSubmission == [up |-> PointStudentTo("prospective_students"),
                         down |-> PointStudentTo("users")]

Folders == Table("folders", {"name", "userId"}, {"parentFolderId", "createdAt"})
Createfolderupdatedocument == [
  up |-> <<
    <<Ensure(Folders)>>,
    <<Create(Index("folders", {"IDX_FOLDERS_USER_ID"}))>>,
    Cascade("folders", "FK_FOLDER_PARENT", "parentFolderId", "folders"),
    Cascade("folders", "FK_FOLDER_USER", "userId", "users"),
    <<Create(Columns("documents", {}, {"folderId"}))>>,
    <<Create(Key("documents", "FK_DOCUMENT_FOLDER", "folderId", "folders", "SET NULL"))>>>>,
  down |-> <<
    DropKey("documents", "FK_DOCUMENT_FOLDER"), DropColumns("documents", {"folderId"}),
    DropKey("folders", "FK_FOLDER_USER"), DropKey("folders", "FK_FOLDER_PARENT"),
    <<Drop(Index("folders", {"IDX_FOLDERS_USER_ID"}))>>, DropTable("folders")>>]

(* Every statement asks first whether there is anything left to do. *)
SyncColumns == <<
    <<Ensure(Columns("prospective_students", {}, {"inductor_status"}))>>,
    <<Ensure(Columns("prospective_students", {}, {"certificate_status"}))>>,
    <<Ensure(Columns("prospective_students", {}, {"lazer_status"}))>>,
    <<Ensure(Columns("roles", {}, {"workflow_id"}) @@
      Key("roles", "roles_workflow_id_fkey", "workflow_id", "workflows", "NO ACTION"))>>,
    <<Ensure(Columns("workflows", {}, {"role_id"}) @@
      Key("workflows", "workflows_role_id_fkey", "role_id", "roles", "NO ACTION"))>>,
    <<Ensure(Columns("form_submissions", {}, {"is_submitted"}))>>,
    <<Ensure(Columns("documents", {}, {"studentId", "studentid"}) @@
      Key("documents", "documents_studentid_fkey", "studentid", "prospective_students",
          "SET NULL"))>>,
    <<Ensure(Index("documents", {"idx_document_student_id"}))>>,
    <<Ensure(Columns("documents", {}, {"publicUrl"}))>>,
    DropKeyIfFound("role_permission", RolePermissionKey),
    <<Ensure(Columns("role_permission", {}, {"id"}))>>,
    <<Ensure(Constraint("role_permission", "new_primary_key", "id"))>>>>
SyncTables == <<
    <<Ensure(Dashboard("accessor_dashboard"))>>,
    <<Ensure(Dashboard("bksd_dashboard"))>>,
    <<Ensure(Dashboard("inductor_dashboard"))>>,
    <<Ensure(Columns("students", {"name"}, {}))>>,
    <<Ensure(Folders @@
      Key("folders", "folders_userId_fkey", "userId", "users", "CASCADE") @@
      Key("folders", "folders_parentFolderId_fkey", "parentFolderId", "folders", "CASCADE"))>>,
    <<Ensure(Index("folders", {"IDX_FOLDERS_USER_ID"}))>>>>
(* down drops what earlier migrations have made as well. *)
SyncDown ==
  LET tables(ts) == [i \in {<<"table", t, t>> : t \in ts} |-> ""] IN <<
    <<Discard(tables({"accessor_dashboard"}))>>, <<Discard(tables({"bksd_dashboard"}))>>,
    <<Discard(tables({"inductor_dashboard"}))>>,
    <<Discard(Columns("prospective_students", {},
                      {"inductor_status", "certificate_status", "lazer_status"}))>>,
    <<Discard(Columns("roles", {}, {"workflow_id"}))>>,
    <<Discard(Columns("workflows", {}, {"role_id"}))>>,
    <<Discard(Columns("form_submissions", {}, {"is_submitted"}))>>,
    <<Discard(Index("documents", {"idx_document_student_id"}))>>,
    <<Discard(Columns("documents", {}, {"studentId", "studentid", "publicUrl"}))>>,
    DropKeyIfFound("role_permission", "new_primary_key") \o
      <<Discard(Columns("role_permission", {}, {"id"})),
        Create(Constraint("role_permission", RolePermissionKey, "role_id"))>>,
    <<Discard(Index("folders", {"IDX_FOLDERS_USER_ID"}))>>,
    <<Discard(tables({"folders"}))>>>>
DatabaseSchemaSync == [up |-> SyncColumns \o SyncTables, down |-> SyncDown]

(* A type that exists keeps the labels it has. *)
AddMissingEnumTypes == [
  up |-> <<
    ApplicationStatus,
    <<Ensure(Type("staff_status_enum", {"assigned", "unassigned"}))>>,
    <<Ensure(Type("school_status_enum", {"in_progress", "verfied", "completed"}))>>,
    <<Ensure(Type("onboarding_status_enum", {"pending", "completed"}))>>,
    <<Ensure(Type("app_logs_logtype_enum", {"ONE_TIME", "REUSABLE"}))>>,
    <<Ensure(Type("form_type_enum", FirstFormTypes \cup
        {"equal_opportunities", "extremism_policy", "guidance_policy", "health_and_safety",
         "privacy_notice", "participant_agreement", "skills_assessment", "complaint"}))>>,
    <<Ensure(Type("submission_status_enum", SubmissionStatuses))>>,
    <<Ensure(Type("token_type_enum", {"access", "refresh", "reset_password"}))>>>>,
  down |-> None]

(* A constraint counts as present when any table has one of its name. *)
CheckOnboarding(t, name) == <<EnsureNamed(Constraint(t, name, "onboarding_status"))>>
FixMissingConstraints == [
  up |-> <<
    <<EnsureNamed(Key("accessors", "FK_school_id_accessors", "school_id", "school", "CASCADE"))>>,
    <<EnsureNamed(Key("documents", "fk_document_student", "studentid",
                    "prospective_students", "SET NULL"))>>,
    <<EnsureNamed(Key("documents", "FK_DOCUMENT_FOLDER", "folderId", "folders", "SET NULL"))>>,
    <<EnsureNamed(Key("folders", "FK_FOLDER_PARENT", "parentFolderId", "folders", "CASCADE"))>>,
    <<EnsureNamed(Key("folders", "FK_FOLDER_USER", "userId", "users", "CASCADE"))>>,
    CheckOnboarding("prospective_students", "prospective_students_onboarding_status_check"),
    CheckOnboarding("staff", "staff_onboarding_status_check"),
    CheckOnboarding("roles", "roles_onboarding_status_check"),
    CheckOnboarding("workflows", "workflows_onboarding_status_check")>>,
  down |-> None]

\* Mutant of AddPasswordChanged: its down drops the password.
AddPasswordChangedSwapped == [
  up |-> <<<<Create(Columns("users", {}, {"is_password_changed"}))>>>>,
  down |-> <<DropColumns("users", {"password"})>>]
AddPasswordChanged == [
  up |-> <<<<Create(Columns("users", {}, {"is_password_changed"}))>>>>,
  down |-> <<DropColumns("users", {"is_password_changed"})>>]

AddAttendanceStatus == [
  up |-> <<<<Ensure(Type("attendance_status_enum", {"present", "absent"})),
             Create(Columns("prospective_students", {}, {"attendance_status"}))>>>>,
  down |-> None]

ArchiveColumns == {"is_archived", "archived_at", "archived_by", "archive_reason"}
\* Mutant of AddStudentArchive: a column is forgotten.
AddStudentArchiveInPart == [
  up |-> <<<<Create(Columns("prospective_students", {}, ArchiveColumns \ {"archived_by"}))>>>>,
  down |-> <<DropColumns("prospective_students", ArchiveColumns \ {"archived_by"})>>]
AddStudentArchive == [
  up |-> <<<<Create(Columns("prospective_students", {}, ArchiveColumns))>>>>,
  down |-> <<DropColumns("prospective_students", ArchiveColumns)>>]

Addarchivetoroles == [
  up |-> <<<<Create(Columns("roles", {}, ArchiveColumns))>>>>,
  down |-> <<DropColumns("roles", ArchiveColumns)>>]

Addlastlogincolumn == [
  up |-> <<<<Create(Columns("users", {}, {"last_login_at"}))>>>>,
  down |-> <<DropColumns("users", {"last_login_at"})>>]

(* In the order of the timestamps the files' names begin with. *)
Files == <<
  CreateRole, CreatePermission, CreateRolepermission, CreateSchool, CreateUsers, CreateToken,
  CreateRecruitersTable, CreateFinancialAidOfficers, CreateStudents,
  CreateProspectiveStudents, CreateDocument, CreateAccessor, AddRolesToRoleTable,
  AddApplicationStatusToProspectiveStudentsTable, AddDefaultValuesToProspectiveStudents,
  AddNewColumnsToProspectiveStudentsTable, AppLogs, AlterRole, CreateFolder, AlterSchool,
  AlterUsers, PopulatePermissions, AlterRoleColumn, CreateStaff, AddNewColumnsToStudents,
  AlterRolepermission, AddUsersToExpirations, AddStatusColumn, RolePermissionUpdate,
  RemoveRecruiter, CreateWorkflow, CreateAccessorDashboard, CreateBksdDashboard,
  CreateInductorDashboard, CreateForm, CreateFormSubmission, UpdateFormSubmission,
  Createfolderupdatedocument, DatabaseSchemaSync, AddMissingEnumTypes,
  FixMissingConstraints, AddPasswordChanged, AddAttendanceStatus, AddStudentArchive,
  Addarchivetoroles, Addlastlogincolumn>>
==============================================================================
