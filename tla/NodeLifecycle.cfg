SPECIFICATION NodeSpec
CONSTANTS
    t1 = t1
    t2 = t2
    n1 = n1
    n2 = n2
    NoThread = NoThread
    NoParticipant = NoParticipant
    Threads = {t1, t2}
    Nodes = {n1}
INVARIANTS
    NodeTypeOK
    RuntimeFollowsState
    DanglingOnlyUnderSpin
    StrayNeedsNodeOrRace
PROPERTY StopEndsSpin
CHECK_DEADLOCK FALSE
