SPECIFICATION Spec
CONSTANTS
    s1 = s1
    Session = {s1}
    IdleTimeout = 6
    ReapInterval = 1
    TickTime = 1
    RpcTimeout = 2
    MaxTime = 14
INVARIANT PingNeverPanics
CHECK_DEADLOCK FALSE
