SPECIFICATION RpcSpec
CONSTANTS
    t1 = t1
    t3 = t3
    c1 = c1
    c2 = c2
    p1 = p1
    s1 = s1
    s2 = s2
    d1 = d1
    d2 = d2
    svcA = svcA
    svcB = svcB
    m1 = m1
    NoThread = NoThread
    NoTopic = NoTopic
    NoResponse = NoResponse
    Threads = {t1, t3}
    Clients = {c1, c2}
    Processes = {p1}
    ClientOf <- MCClientOf
    ProcessOf <- MCProcessOf
    SessionMod = 4
    MaxCalls = 2
    Services = {svcA, svcB}
    Servers = {s1}
    Dispatchers = {d1, d2}
    Methods = {m1}
    ServiceOf <- MCSharedService
    ServedBy <- MCServedBy
    DispatchOf <- MCOneThreadEach
    ReaderRetained = TRUE
VIEW MCView
INVARIANTS
    OwnAnswer
    AnswerTakeable
