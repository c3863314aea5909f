SPECIFICATION Spec
CONSTANTS
    p1 = p1  p2 = p2
    Requests = {p1, p2}
    PoolSize = 1
    FailureThreshold = 2
    Endpoints <- TwoRequests
    MaxOutages = 1
INVARIANTS
    NoCircularWait
PROPERTIES
    RequestsEnd
    FailuresAreDue
    ReadyAfterOutage
CHECK_DEADLOCK FALSE
