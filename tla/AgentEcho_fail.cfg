SPECIFICATION Spec
CONSTANTS
    r1 = r1
    r2 = r2
    Request = {r1}
    Known = {r1}
    MaxChunks = 2
INVARIANT FailAtAnyTime
CHECK_DEADLOCK FALSE
