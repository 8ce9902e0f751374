SPECIFICATION Spec
CONSTANTS
    a1 = a1
    a2 = a2
    p1 = p1
    p2 = p2
    p3 = p3
    r1 = r1
    r2 = r2
    web = web
    kubernetes = kubernetes
    upper = upper
    n1 = n1
    n2 = n2
    Agent = {a1, a2}
    Type = {web, kubernetes, upper}
    Name = {n1, n2}
    ValidType = {web, kubernetes}
    Kubernetes = kubernetes
    Absent = Absent
    Process = {p1, p2, p3}
    AgentOf <- AgentOf2
    Services <- Services2
    InCluster = {p1}
    Request = {r1, r2}
    Secure = Secure
    Listener <- Listener2
    NoService = NoService
    NoProcess = NoProcess
    MaxAsked = 1
INVARIANTS TypeOK ServedAsGranted SentIsServable
CHECK_DEADLOCK FALSE
