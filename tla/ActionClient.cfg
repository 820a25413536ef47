SPECIFICATION ClientSafety
CONSTANTS
    t1 = t1
    t2 = t2
    t3 = t3
    c1 = c1
    c2 = c2
    actA = actA
    NoHandle = NoHandle
    NoResult = NoResult
    Nobody = Nobody
    Callback = Callback
    Threads = {t1, t2, t3}
    Clients = {c1, c2}
    Actions = {actA}
    ClientOf <- MCClientOf
    ActionOf <- MCActionOf
    MaxGoals = 2
    GoalsOf <- MCGoalsOf
    Subscribers = {c1}
    Wire = {"SUCCEEDED"}
VIEW MCView
SYMMETRY MCSymmetry
INVARIANTS
    TerminalHasResult
    StatusOfResult
    OwnResult
    NoFeedbackAfterUnsubscribe
PROPERTIES
    WaitsInVain
    TerminalIsFinal
