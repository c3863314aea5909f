SPECIFICATION Spec
CONSTANTS
    s1 = s1
    Requests = {p1, p2, p3}
    SeedIds = {s1}
    ListKey = ListKey
    Replicas = {r1}
    Kinds = {"create", "get", "list", "update", "delete"}
    Returning = {}
    MaxFaults = 1
SYMMETRY RequestSymmetry
INVARIANTS
    TypeOK
    StaleOnlyByRace
PROPERTIES
    NothingNewGoesStale
    ReadsSeeWrites
CHECK_DEADLOCK FALSE
