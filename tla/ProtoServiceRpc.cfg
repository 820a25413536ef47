SPECIFICATION ProtoSpec
CONSTANTS
    t1 = t1
    c1 = c1
    p1 = p1
    s1 = s1
    svcA = svcA
    m1 = m1
    default = default
    detections = detections
    NoThread = NoThread
    NoRequest = NoRequest
    NoResponse = NoResponse
    Threads = {t1}
    Clients = {c1}
    Processes = {p1}
    ClientOf <- MCClientOf
    ProcessOf <- MCProcessOf
    SessionMod = 2
    MaxCalls = 2
    Services = {svcA}
    Servers = {s1}
    Methods = {m1}
    Miscast = {m1}
    ServiceOf <- MCServiceOf
    ServedBy <- MCServedBy
    Replies = {default, detections}
    Default = default
CHECK_DEADLOCK FALSE
INVARIANTS
    ProtoTypeOK
    ValueMeansHandled
    ServerDiesOnlyDisturbed
PROPERTIES
    PatientCallEnds
