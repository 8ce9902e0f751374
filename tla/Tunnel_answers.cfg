SPECIFICATION FairSpec
CONSTANTS
    r1 = r1
    r2 = r2
    session = s1
    Request = {r1}
    Known = {r1}
    MaxChunks = 2
    Window = 1
    CanLose = TRUE
    NoSession = NoSession
    NoRequest = NoRequest
INVARIANTS TypeOK CompleteIsComplete CanceledMeansLost RequestOnItsWay
PROPERTIES AgentIsOrderly EndToEndContract RequestAnswered AgentFreed StreamsLeave
CHECK_DEADLOCK FALSE
