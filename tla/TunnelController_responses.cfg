SPECIFICATION FlushSpec
CONSTANTS
    s1 = s1
    s2 = s2
    r1 = r1
    r2 = r2
    Session = {s1}
    Request = {r1, r2}
    NoSession = NoSession
    NoRequest = NoRequest
    Route <- OneSession
    MaxEvents = 2
    Orderly = FALSE
    CanLose = TRUE
INVARIANTS TypeOK FlushComplete AskedStreamIsKnown StuckBehind
PROPERTIES ResponseContract TableContract FlushCountsDown FlushEndsOrIsStuck
CHECK_DEADLOCK FALSE
