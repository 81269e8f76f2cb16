------------------------------ MODULE MCAccess ------------------------------
(***************************************************************************)
(* Values of the constants for the model checker.                          *)
(***************************************************************************)
EXTENDS Access, TLC

CONSTANTS s1, s2, head, tutor

\* One assignment, the same member twice, and two members in both orders.
OneStaff == {<<<<s1, head>>>>, <<<<s1, tutor>>, <<s1, head>>>>}
TwoStaff == {<<<<s1, head>>>>, <<<<s1, head>>, <<s2, tutor>>>>, <<<<s2, tutor>>, <<s1, head>>>>}

StaffCalls == {"assignRoles", "deleteUser"}
Everything == CallNames

Alike == Permutations(Request) \cup Permutations(Email)
=============================================================================
