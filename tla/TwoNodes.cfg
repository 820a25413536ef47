SPECIFICATION NodeSpec
CONSTANTS
    t1 = t1
    t2 = t2
    n1 = n1
    n2 = n2
    NoThread = NoThread
    NoParticipant = NoParticipant
    Threads = {t1}
    Nodes = {n1, n2}
INVARIANT EndpointsAtHome
CHECK_DEADLOCK FALSE
