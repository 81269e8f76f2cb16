SPECIFICATION FairSpec
CONSTANTS
    s1 = s1
    s2 = s2
    head = head
    tutor = tutor
    Staff = {s1}
    Learner = {l1}
    Email = {e1}
    Role = {head, tutor}
    Request = {r1, r2}
    Batches <- OneStaff
    Calls <- Everything
    None = None
INVARIANTS NoHalfAccounts HolderKnowsPassword SpentKeysAreGone AccessInv
PROPERTIES EveryCallReturns
CHECK_DEADLOCK FALSE
