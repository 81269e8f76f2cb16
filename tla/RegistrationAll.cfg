SPECIFICATION FairSpec
CONSTANTS
    plain  = plain
    spaced = spaced
    Request  = {r1, r2, r3}
    College  = {c1, c2}
    Email    = {e1, e2}
    Username = {plain}
    Cleaned  <- MCCleaned
    Title    = {t1}
    PoolSize = 4
    Handlers <- AllHandlers
    None     = None
INVARIANTS TypeOK RegistrationInv SchoolsAreComplete SchoolsAreDistinct AnnouncedAreVerified ConnectionsReturned
PROPERTIES LedgerSpec EveryCallReturns
CHECK_DEADLOCK FALSE
