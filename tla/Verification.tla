---------------------------- MODULE Verification ----------------------------
(***************************************************************************)
(* CollegeVerificationService.verifySchool: whoever has the onboarding key *)
(* of a school marks it verified; the key is kept.                         *)
(***************************************************************************)
EXTENDS Onboarding

\* An unknown key is refused.
VerifySchool(r) ==
    \E key \in onboarding :
       Calls(r, "verifySchool", [key |-> key], "status.load")

\* updateStatus loads the school; a key outlives the sign-up it came from,
\* which may not have committed yet, or never.
LoadSchool(r) ==
    /\ At(r, "status.load")
    /\ FreeConnection
    /\ \/ Opened(call[r].key) /\ Passes(r, "status.load", "status.save")
       \/ ~Opened(call[r].key) /\ Throws(r)

\* Mutant of SaveStatus: the school is announced without being saved.
SaveStatusForgotten(r) == Passes(r, "status.save", "verified.mail")

\* Mutant of SaveStatus: the registration is marked completed.
SaveStatusCompleted(r) ==
    /\ At(r, "status.save")
    /\ FreeConnection
    /\ school' = [school EXCEPT ![call[r].key] = "completed"]
    /\ Goto(r, "verified.mail")
    /\ UNCHANGED <<call, account, role, granted, onboarding, mail, connections>>

SaveStatus(r) ==
    /\ At(r, "status.save")
    /\ FreeConnection
    /\ school' = [school EXCEPT ![call[r].key] = "verified"]
    /\ Goto(r, "verified.mail")
    /\ UNCHANGED <<call, account, role, granted, onboarding, mail, connections>>

VerifiedMail(r) ==
    /\ At(r, "verified.mail")
    /\ inbox' = inbox \cup {<<"verified", call[r].key>>}
    /\ Goto(r, "done")
    /\ UNCHANGED <<call, rows, onboarding, outbox, connections>>

VerifyStep(r) == LoadSchool(r) \/ SaveStatus(r) \/ VerifiedMail(r)
=============================================================================
