SPECIFICATION Spec
CONSTANTS
    Learner    = {l1, l2}
    Email      = {e1, e2}
    UserId     = {u1, u2, u3}
    Submission = {s1}
    Answer     = {a1}
    Request    = {r1, r2, r3, r4}
    Handlers   <- AccountHandlers
    None       = None
SYMMETRY Alike
INVARIANTS MailedHasAccount StudentMatchesAccount
CHECK_DEADLOCK FALSE
