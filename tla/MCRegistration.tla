--------------------------- MODULE MCRegistration ---------------------------
(***************************************************************************)
(* Values of the constants for the model checker.                          *)
(***************************************************************************)
EXTENDS Registration, TLC

CONSTANTS plain, spaced   \* user names: one as cleaned, one with a space

MCUsername == {plain, spaced}
MCCleaned  == [u \in Username |-> plain]

AllHandlers == {"createSchool", "verifySchool", "createRole"}

\* Requests are alike, and so are colleges and e-mails.
Alike == Permutations(Request) \cup Permutations(College)
         \cup Permutations(Email)
=============================================================================
