SPECIFICATION FairSpec
CONSTANTS
    s1 = s1
    Requests = {p1, p2}
    SeedIds = {s1}
    ListKey = ListKey
    Replicas = {r1}
    Kinds = {"create", "get", "list", "update", "delete"}
    Returning = {p1, p2}
    MaxFaults = 1
PROPERTY
    CacheConverges
CHECK_DEADLOCK FALSE
