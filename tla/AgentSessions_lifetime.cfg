SPECIFICATION FairSpec
CONSTANTS
    s1 = s1
    Session = {s1}
    IdleTimeout = 5
    ReapInterval = 1
    TickTime = 1
    RpcTimeout = 2
    MaxTime = 13
INVARIANTS TypeOK LiveAgentRegistered PanicNeedsDeadAgent
PROPERTIES LastUseMonotone DeadAgentLeaves TableContract
CHECK_DEADLOCK FALSE
