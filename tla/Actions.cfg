SPECIFICATION ActionsSpec
CONSTANTS
    t1 = t1
    c1 = c1
    w1 = w1
    actA = actA
    NoHandle = NoHandle
    NoResult = NoResult
    NoGoal = NoGoal
    Nobody = Nobody
    Callback = Callback
    GoalThread = GoalThread
    CancelThread = CancelThread
    Threads = {t1}
    Clients = {c1}
    Actions = {actA}
    ClientOf <- MCClientOf
    ActionOf <- MCActionOf
    MaxGoals = 1
    GoalsOf <- MCGoalsOf
    Subscribers = {}
    Wire = {"ABORTED", "UNKNOWN"}
    ResultStatuses = {"ABORTED", "PREEMPTING"}
    Workers = {w1}
    Reentrant = {GoalThread, CancelThread}
    MaxCancelCalls = 1
    Served = actA
INVARIANTS
    ActionsTypeOK
    StatusAgreement
PROPERTY PublishedResultArrives
