SPECIFICATION FairSpec
CONSTANTS
    r1 = r1
    r2 = r2
    Request = {r1, r2}
    Known = {r1}
    MaxChunks = 2
INVARIANT TypeOK PanicNeedsLostLink AtMostOneAhead
PROPERTIES WireContract AnswerEnds
CHECK_DEADLOCK FALSE
