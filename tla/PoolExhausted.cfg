SPECIFICATION FairSpec
CONSTANTS
    Request  = {r1, r2}
    College  = {c1, c2}
    Email    = {e1, e2}
    plain    = plain
    spaced   = spaced
    Username <- MCUsername
    Cleaned  <- MCCleaned
    Title    = {t1}
    PoolSize = 2
    Handlers <- AllHandlers
    None     = None
PROPERTIES EveryCallReturns
CHECK_DEADLOCK FALSE
