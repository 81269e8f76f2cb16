SPECIFICATION Spec
CONSTANTS
    s1 = s1
    s2 = s2
    head = head
    tutor = tutor
    Staff = {s1, s2}
    Learner = {}
    Email = {e1, e2}
    Role = {head, tutor}
    Request = {r1, r2, r3}
    Batches <- TwoStaff
    Calls <- StaffCalls
    None = None
SYMMETRY Alike
INVARIANTS AccountsAreAssigned AssignedHasAccount
CHECK_DEADLOCK FALSE
