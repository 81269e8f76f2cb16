SPECIFICATION Spec
CONSTANTS
    Learner    = {l1}
    Email      = {e1, e2}
    UserId     = {u1, u2}
    Submission = {s1}
    Answer     = {a1}
    Request    = {r1, r2, r3, r4}
    Handlers   <- HandlerNames
    None       = None
SYMMETRY Alike
INVARIANTS TypeOK IInv StagesInOrder LocksHeldByDecisions SubmissionsHaveLearner
PROPERTIES ProgressSpec
CHECK_DEADLOCK FALSE
