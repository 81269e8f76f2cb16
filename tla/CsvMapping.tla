----------------------------- MODULE CsvMapping -----------------------------
(***************************************************************************)
(* CSVProcessorService: which column of a CSV file feeds which field of a  *)
(* learner, and which rows are valid.  A header is a pair of its text and  *)
(* the lower-case letters and digits of it, the only things the matching   *)
(* looks at.  The cells are model values: an e-mail address, a telephone   *)
(* number, a text, junk or nothing; of those some are read as dates, some  *)
(* as numbers.                                                             *)
(***************************************************************************)
EXTENDS Naturals, Sequences, FiniteSets, SequencesExt

CONSTANTS
    Email,       \* cells that are e-mail addresses
    Mobile,      \* cells that are telephone numbers
    Text,        \* other cells
    Dates,       \* the cells that are dates to formatDate
    Numbers,     \* the cells that are numbers to parseNumber
    Junk,        \* a cell that is nothing of all that
    None         \* an empty cell; no value

ASSUME CellAssumption ==
    /\ Junk # None /\ {Junk, None} \cap (Email \cup Mobile \cup Text) = {}
    /\ Email \cap Mobile = {} /\ Email \cap Text = {} /\ Mobile \cap Text = {}
    /\ Dates \cup Numbers \subseteq Email \cup Mobile \cup Text /\ Email \cap Numbers = {}

Cell == Email \cup Mobile \cup Text \cup {Junk, None}

Field(field, required, type, aliases) ==
    [field |-> field, required |-> required, type |-> type, aliases |-> aliases]

\* The position of a field is its place in the list.
LearnerMappings == <<
    Field("name", TRUE, "string", << <<"name", "name">>, <<"full_name", "fullname">>,
        <<"student_name", "studentname">>, <<"learner_name", "learnername">>, <<"fullname", "fullname">> >>),
    Field("email", TRUE, "email", << <<"email", "email">>, <<"email_address", "emailaddress">>,
        <<"e_mail", "email">>, <<"student_email", "studentemail">> >>),
    Field("date_of_birth", FALSE, "date", << <<"date_of_birth", "dateofbirth">>, <<"dob", "dob">>,
        <<"birth_date", "birthdate">>, <<"birthdate", "birthdate">>, <<"date_birth", "datebirth">> >>),
    Field("mobile_number", FALSE, "string", << <<"mobile_number", "mobilenumber">>, <<"phone", "phone">>,
        <<"mobile", "mobile">>, <<"phone_number", "phonenumber">>, <<"contact_number", "contactnumber">> >>),
    Field("NI_number", FALSE, "string", << <<"ni_number", "ninumber">>,
        <<"national_insurance", "nationalinsurance">>, <<"ni", "ni">>,
        <<"national_insurance_number", "nationalinsurancenumber">> >>),
    Field("passport_number", FALSE, "string", << <<"passport_number", "passportnumber">>,
        <<"passport", "passport">>, <<"passport_no", "passportno">> >>),
    Field("home_address", FALSE, "string", << <<"home_address", "homeaddress">>, <<"address", "address">>,
        <<"residential_address", "residentialaddress">>, <<"home_addr", "homeaddr">> >>),
    Field("funding", FALSE, "string", << <<"funding", "funding">>, <<"funding_type", "fundingtype">>,
        <<"fund_type", "fundtype">>, <<"sponsor", "sponsor">> >>),
    Field("level", FALSE, "number", << <<"level", "level">>, <<"course_level", "courselevel">>,
        <<"study_level", "studylevel">>, <<"academic_level", "academiclevel">> >>),
    Field("awarding", FALSE, "string", << <<"awarding", "awarding">>, <<"awarding_body", "awardingbody">>,
        <<"award_body", "awardbody">>, <<"certification_body", "certificationbody">> >>),
    Field("chosen_course", FALSE, "string", << <<"chosen_course", "chosencourse">>, <<"course", "course">>,
        <<"course_name", "coursename">>, <<"program", "program">>, <<"programme", "programme">> >>) >>

Required == {i \in DOMAIN LearnerMappings : LearnerMappings[i].required}

\* The file of generateTemplate: the descriptions as headers, and a learner.
\* Only that of the e-mail, "Email address", is an alias of its field.  The
\* address of the learner has a comma and no quotes, so that it is two cells.
TemplateHeaders == << <<"Full name of the learner", "fullnameofthelearner">>,
    <<"Email address", "emailaddress">>, <<"Date of birth (YYYY-MM-DD format)", "dateofbirthyyyymmddformat">>,
    <<"Mobile phone number", "mobilephonenumber">>, <<"National Insurance number", "nationalinsurancenumber">>,
    <<"Passport number", "passportnumber">>, <<"Home address", "homeaddress">>,
    <<"Funding type or source", "fundingtypeorsource">>, <<"Course or study level", "courseorstudylevel">>,
    <<"Awarding body", "awardingbody">>, <<"Chosen course or program", "chosencourseorprogram">> >>
GenerateTemplate(email, mobile, text) ==
    [ headers |-> TemplateHeaders,
      rows |-> << [i \in 1..(Len(TemplateHeaders) + 1) |->
                    CASE i = 2 -> email [] i = 4 -> mobile [] OTHER -> text] >> ]

\* parseCSVWithHeaders: the parser rejects a file at the first row that has
\* more or fewer cells than the headers (relax_column_count is not set).
Parses(headers, rows) == \A k \in DOMAIN rows : Len(rows[k]) = Len(headers)

-----------------------------------------------------------------------------
(* The column of a field: the first alias that some header is, an exact     *)
(* header before one that differs in case or punctuation, and of several    *)
(* headers with that text the first.  0 is no column.                       *)

\* The numbers of a finite set, from the least: SetToSortSeq in a form that
\* the provers can expand.
Ordered(S) == CHOOSE s \in [1..Cardinality(S) -> S] : \A i, j \in DOMAIN s : i < j => s[i] < s[j]

First(places) == IF places = {} THEN 0 ELSE Min(places)

\* Mutant of FindMatchingHeader: the first header that is any of the aliases.
FindMatchingHeaderFirst(headers, aliases) ==
    First({i \in DOMAIN headers : \E a \in DOMAIN aliases : headers[i][2] = aliases[a][2]})
FindMatchingHeader(headers, aliases) ==
    LET Exactly(a) == {i \in DOMAIN headers : headers[i][1] = aliases[a][1]}
        Plainly(a) == {i \in DOMAIN headers : headers[i][2] = aliases[a][2]}
        alias == First({a \in DOMAIN aliases : Plainly(a) # {}})
    IN  IF alias = 0 THEN 0
        ELSE IF Exactly(alias) # {} THEN First(Exactly(alias)) ELSE First(Plainly(alias))

Named(headers) == [i \in DOMAIN LearnerMappings |-> FindMatchingHeader(headers, LearnerMappings[i].aliases)]

\* By name only if every required field has a column of its own name.
UsePositional(headers) == \E i \in Required : Named(headers)[i] = 0
Columns(headers) == IF UsePositional(headers) THEN [i \in DOMAIN LearnerMappings |-> i] ELSE Named(headers)

-----------------------------------------------------------------------------
(* One field of one row: a value, or the type of the error.  isEmpty, the   *)
(* validator (isValidEmail) and the transformer (formatDate, parseNumber).  *)

ValueOf(row, column) == IF column \in DOMAIN row THEN row[column] ELSE None

Problem(value, mapping) ==
    IF value = None THEN IF mapping.required THEN "MISSING_REQUIRED" ELSE "none"
    ELSE IF mapping.type = "email" /\ value \notin Email THEN "INVALID_FORMAT"
    ELSE IF mapping.type = "date" /\ value \notin Dates THEN "INVALID_VALUE"
    ELSE IF mapping.type = "number" /\ value \notin Numbers THEN "INVALID_VALUE"
    ELSE "none"

\* The date or the number a cell denotes; NaN and Invalid Date are problems.
Transform(value, mapping) ==
    IF mapping.type \in {"date", "number"} /\ value # None THEN <<mapping.type, value>> ELSE value

RowErrors(row, columns, number) ==
    LET Type(i) == Problem(ValueOf(row, columns[i]), LearnerMappings[i])
    IN  {[row |-> number, field |-> LearnerMappings[i].field, type |-> Type(i)] :
            i \in {j \in DOMAIN LearnerMappings : Type(j) # "none"}}

LearnerOf(row, columns) ==
    [f \in {LearnerMappings[i].field : i \in DOMAIN LearnerMappings} |->
        LET i == CHOOSE j \in DOMAIN LearnerMappings : LearnerMappings[j].field = f
        IN  Transform(ValueOf(row, columns[i]), LearnerMappings[i])]

\* Rows are numbered as in the file, whose first line has the headers.
ProcessLearnerCSV(headers, rows) ==
    IF UsePositional(headers) /\ \E i \in Required : i > Len(headers)
    THEN [valid |-> <<>>, errors |-> {[row |-> 1, field |-> "none", type |-> "MISSING_COLUMN"]}]
    ELSE LET columns == Columns(headers)
             wrong == [k \in DOMAIN rows |-> RowErrors(rows[k], columns, k + 1)]
             right == Ordered({k \in DOMAIN rows : wrong[k] = {}})
         IN  [ valid |-> [k \in DOMAIN right |-> LearnerOf(rows[right[k]], columns)],
               errors |-> UNION {wrong[k] : k \in DOMAIN rows} ]
=============================================================================
