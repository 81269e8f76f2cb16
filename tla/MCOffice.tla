----------------------------- MODULE MCOffice ------------------------------
(***************************************************************************)
(* Values of the constants for the model checker.                          *)
(***************************************************************************)
EXTENDS Office, TLC

CONSTANTS e1, e2, m1, t1, d1, n1

H(text) == <<text, text>>

\* The template as it is offered, and with quotes around its address; a file
\* by name, with two headers for the mobile number and rows of which one is
\* wrong in three ways; one by position that has too few columns; and one by
\* position with a bad date.
Files == {
    GenerateTemplate(e1, m1, t1),
    [headers |-> TemplateHeaders, rows |-> << <<t1, e1, d1, m1, t1, t1, t1, t1, n1, t1, t1>> >>],
    [headers |-> << <<"Phone", "phone">>, <<"E-Mail", "email">>, H("level"), H("mobile"), H("name")>>,
     rows |-> << <<None, Junk, e1, m1, None>>, <<m1, e1, n1, None, t1>>, <<None, e2, None, m1, t1>> >>],
    [headers |-> <<H("learner")>>, rows |-> << <<t1>> >>],
    [headers |-> <<H("learner"), H("contact"), H("born")>>,
     rows |-> << <<t1, e2, Junk>>, <<t1, e2, None>> >>] }

AllCalls == CallNames

\* What one of the theorems asks of the files.
ASSUME FilesAssumption == NamedOwnColumns
=============================================================================
