------------------------------ MODULE Entities ------------------------------
(***************************************************************************)
(* What the entity classes ask of the database: their table and the        *)
(* columns TypeORM reads and writes, and the values their enums send.      *)
(***************************************************************************)
Timed == {"id", "created_at", "updated_at"}

School == [table |-> "school", columns |-> Timed \cup
  {"college_name", "no_of_employee", "country", "business_code", "address_line1",
   "address_line2", "city", "post_code", "county", "status"}]
RolePermission == [table |-> "role_permission",
  columns |-> {"id", "role_id", "permission_id"}]
AppLogger == [table |-> "app_logs", columns |->
  {"id", "userId", "message", "type", "method", "route", "logType", "deletedAt",
   "folder_id", "createdAt"}]
LogFolder == [table |-> "log_folders", columns |-> {"id", "name", "userId", "createdAt"}]
Folder == [table |-> "folders", columns |->
  {"id", "name", "userId", "parentFolderId", "createdAt"}]
Archival == {"is_archived", "archived_at", "archived_by", "archive_reason"}
Roles == [table |-> "roles", columns |-> Timed \cup Archival \cup
  {"role", "description", "school_id", "workflow_id", "onboarding_status"}]
Staff == [table |-> "staff", columns |-> Timed \cup
  {"username", "email", "status", "onboarding_status", "school_id"}]
Token == [table |-> "token", columns |-> Timed \cup
  {"type", "token", "blacklisted", "expires"}]
Document == [table |-> "documents", columns |->
  {"id", "userId", "fileName", "fileType", "publicUrl", "school_id", "folderId",
   "studentId", "onboarding_status", "uploadedAt"}]
Permissions == [table |-> "permissions", columns |-> Timed \cup {"name", "description"}]
Workflow == [table |-> "workflows", columns |->
  {"id", "name", "description", "onboarding_status", "school_id", "created_at"}]
Users == [table |-> "users", columns |-> Timed \cup
  {"first_name", "last_name", "username", "email", "password", "2fa_required",
   "is_active", "phone", "last_login_at", "role_id", "school_id",
   "is_password_changed", "expiration_date"}]
Form == [table |-> "forms", columns |-> Timed \cup {"type", "title", "metadata", "is_active"}]
FormSubmission == [table |-> "form_submissions", columns |-> Timed \cup
  {"form_id", "status", "data", "is_submitted", "student_id", "reviewer_id",
   "review_comment"}]

Personal == {"date_of_birth", "mobile_number", "email", "NI_number", "passport_number",
  "home_address", "funding", "level", "awarding", "chosen_course", "school_id"}
Student == [table |-> "students", columns |-> Timed \cup Personal \cup
  {"name", "user_id", "course_status", "application_status"}]
ProspectiveStudent == [table |-> "prospective_students",
  columns |-> Timed \cup Personal \cup Archival \cup
  {"name", "application_mail", "inductor_status", "onboarding_status",
   "attendance_status", "user_id", "application_status", "lazer_status",
   "certificate_status"}]

DashboardColumns == Timed \cup Personal \cup
  {"first_name", "last_name", "middle_name", "application_mail", "application_status"}
RecruiterDashboard == [table |-> "recruiter_dashboard", columns |-> DashboardColumns]
AccessorDashboard == [table |-> "accessor_dashboard", columns |-> DashboardColumns]
BKSDDashboard == [table |-> "bksd_dashboard", columns |-> DashboardColumns]
InductorDashboard == [table |-> "inductor_dashboard", columns |-> DashboardColumns]

PersonColumns == Timed \cup {"first_name", "last_name", "user_id", "school_id"}
FinancialAidOfficer == [table |-> "financial_aid_officers", columns |-> PersonColumns]
Recruiter == [table |-> "recruiters", columns |-> PersonColumns]
Accessor == [table |-> "accessors", columns |-> PersonColumns]

AllEntities == {School, RolePermission, AppLogger, LogFolder, Folder, Roles, Staff, Token,
  Document, Permissions, Workflow, Users, Form, FormSubmission, Student,
  ProspectiveStudent, RecruiterDashboard, AccessorDashboard, BKSDDashboard,
  InductorDashboard, FinancialAidOfficer, Recruiter, Accessor}

(* The enums whose values are stored in a column of an enumerated type. *)
FormType == [type |-> "form_type_enum", labels |->
  {"award_assessment", "behavioral", "candidate_record", "child_protection",
   "confidentiality", "data_protection", "employer_agreement", "appeal_procedure",
   "equal_opportunities", "extremism_policy", "guidance_policy", "health_and_safety",
   "privacy_notice", "participant_agreement", "skills_assessment", "complaint"}]
SubmissionStatus == [type |-> "submission_status_enum", labels |->
  {"draft", "submitted", "under_review", "approved", "rejected"}]
RegistrationStatus == [type |-> "school_status_enum", labels |->
  {"in_progress", "verfied", "completed"}]
LogType == [type |-> "app_logs_logtype_enum", labels |-> {"ONE_TIME", "REUSABLE"}]
TokenType == [type |-> "token_type_enum", labels |-> {"access", "refresh", "reset_password"}]
AllEnums == {FormType, SubmissionStatus, RegistrationStatus, LogType, TokenType}
==============================================================================
