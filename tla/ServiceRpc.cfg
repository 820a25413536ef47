SPECIFICATION RpcSpec
CONSTANTS
    t1 = t1
    t3 = t3
    c1 = c1
    c2 = c2
    p1 = p1
    s1 = s1
    s2 = s2
    d1 = d1
    d2 = d2
    svcA = svcA
    svcB = svcB
    m1 = m1
    NoThread = NoThread
    NoTopic = NoTopic
    NoResponse = NoResponse
    Threads = {t1, t3}
    Clients = {c1, c2}
    Processes = {p1}
    ClientOf <- MCClientOf
    ProcessOf <- MCProcessOf
    SessionMod = 2
    MaxCalls = 1
    Services = {svcA, svcB}
    Servers = {s1, s2}
    Dispatchers = {d1, d2}
    Methods = {m1}
    ServiceOf <- MCServiceOf
    ServedBy <- MCServedBy
    DispatchOf <- MCOneThreadEach
    ReaderRetained = TRUE
INVARIANTS
    RpcTypeOK
    AnsweredAtHome
PROPERTY TableSafety
