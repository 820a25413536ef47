SPECIFICATION TableSpec
CONSTANTS
    t1 = t1
    t2 = t2
    t3 = t3
    c1 = c1
    c2 = c2
    p1 = p1
    NoThread = NoThread
    Threads = {t1, t2}
    Clients = {c1, c2}
    Processes = {p1}
    ClientOf <- MCClientOf
    ProcessOf <- MCProcessOf
    SessionMod = 3
    MaxCalls = 3
INVARIANTS
    TableTypeOK
    PendingOwned
    NoOrphanedWaiter
    ThrowsOnlyOnClash
PROPERTY CallsReturn ClashNeedsRaceOrWrap
CHECK_DEADLOCK FALSE
