SPECIFICATION FairEstablishedSpec
CONSTANTS
    Learner    = {l1}
    Email      = {e1}
    UserId     = {u1}
    Submission = {s1, s2}
    Answer     = {a1}
    Request    = {r1, r2, r3}
    Handlers   <- LockingHandlers
    None       = None
INVARIANTS OnlySubmittedAreReviewed
PROPERTIES EveryRequestReturns
CHECK_DEADLOCK FALSE
