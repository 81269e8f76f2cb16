SPECIFICATION Spec
CONSTANTS
    e1 = e1
    e2 = e2
    m1 = m1
    t1 = t1
    d1 = d1
    n1 = n1
    Email = {e1, e2}
    Mobile = {m1}
    Text = {t1, d1, n1}
    Dates = {d1}
    Numbers = {m1, n1}
    Junk = Junk
    None = None
    Gone = Gone
    Request = {r1, r2}
    User = {u1, u2}
    Log = {log}
    Uploads <- Files
    Calls <- AllCalls
INVARIANTS OfficeInv DocumentsHaveFiles TreeIsWhole KnownAreNotImported RowsAreAnswered ColumnOrderIsFree
PROPERTIES StayOnBoards
CHECK_DEADLOCK FALSE
