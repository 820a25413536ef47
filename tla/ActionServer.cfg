SPECIFICATION ServerSpec
CONSTANTS
    w1 = w1
    w2 = w2
    g1 = g1
    GoalThread = GoalThread
    CancelThread = CancelThread
    NoHandle = NoHandle
    NoGoal = NoGoal
    Nobody = Nobody
    Workers = {w1, w2}
    GoalIds = {g1}
    Reentrant = {GoalThread, CancelThread}
    ResultStatuses = {"SUCCEEDED", "PREEMPTING"}
    MaxCancelCalls = 2
INVARIANTS
    ServerTypeOK
    CancelOncePerFiling
    NullPublisherHasCause
    NoOtherDeadlock
PROPERTIES
    DeadlockIsForever
    CallbacksReturn
CHECK_DEADLOCK FALSE
