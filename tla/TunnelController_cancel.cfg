SPECIFICATION FairSpec
CONSTANTS
    s1 = s1
    s2 = s2
    r1 = r1
    r2 = r2
    Session = {s1}
    Request = {r1}
    NoSession = NoSession
    NoRequest = NoRequest
    Route <- OneSession
    MaxEvents = 1
    Orderly = TRUE
    CanLose = TRUE
PROPERTY CancelReturns
CHECK_DEADLOCK FALSE
