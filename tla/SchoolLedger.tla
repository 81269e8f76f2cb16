---------------------------- MODULE SchoolLedger ----------------------------
(***************************************************************************)
(* What signing up promises about schools: a school appears together with  *)
(* its administrator, once its onboarding key is known; it is verified     *)
(* after that, and announced as verified only when it is.  Roles appear    *)
(* together with all the permissions that were found for them.  Nothing of *)
(* this is taken back.                                                     *)
(***************************************************************************)
CONSTANT Id
VARIABLES
    keys,        \* the ids whose onboarding key is known
    status,      \* of each school: "none", "in_progress" or "verified"
    staffed,     \* the schools with an administrator
    announced,   \* the schools announced as verified
    roles,       \* roles in use
    empowered    \* roles with all the permissions found for them

ledger == <<keys, status, staffed, announced, roles, empowered>>

Init ==
    /\ keys = {}
    /\ status = [s \in Id |-> "none"]
    /\ staffed = {}
    /\ announced = {}
    /\ roles = {}
    /\ empowered = {}

HandOutKey(s) ==
    /\ keys' = keys \cup {s}
    /\ UNCHANGED <<status, staffed, announced, roles, empowered>>

Open(s) ==
    /\ s \in keys
    /\ status[s] = "none"
    /\ status' = [status EXCEPT ![s] = "in_progress"]
    /\ staffed' = staffed \cup {s}
    /\ UNCHANGED <<keys, announced, roles, empowered>>

Verify(s) ==
    /\ status[s] = "in_progress"
    /\ status' = [status EXCEPT ![s] = "verified"]
    /\ UNCHANGED <<keys, staffed, announced, roles, empowered>>

Announce(s) ==
    /\ status[s] = "verified"
    /\ announced' = announced \cup {s}
    /\ UNCHANGED <<keys, status, staffed, roles, empowered>>

AddRole(r) ==
    /\ roles' = roles \cup {r}
    /\ empowered' = empowered \cup {r}
    /\ UNCHANGED <<keys, status, staffed, announced>>

Next == \E s \in Id :
    HandOutKey(s) \/ Open(s) \/ Verify(s) \/ Announce(s) \/ AddRole(s)

Spec == Init /\ [][Next]_ledger
=============================================================================
