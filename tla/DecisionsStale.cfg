SPECIFICATION Spec
CONSTANTS
    Learner    = {l1}
    Email      = {e1}
    UserId     = {u1, u2}
    Submission = {s1}
    Answer     = {a1}
    Request    = {r1, r2, r3, r4, r5}
    Handlers   <- StageHandlers
    None       = None
SYMMETRY Alike
INVARIANTS DecisionsAgree
CHECK_DEADLOCK FALSE
