SPECIFICATION Spec
CONSTANTS
    c1 = c1  cb1 = cb1  read = read
    Requests = {p1, p2, p3}
    Replicas = {r1}
    Users = {u1}
    Redirects = {cb1}
    Scopes = {read}
    Verifiers = {v1}
    SeedUsers = {u1}
    SeedClients <- OneClient
    CodeTTL = 1
    RefreshTTL = 1
    AccessTTL = 1
    MaxTime = 0
    Kinds = {"authorize", "authorization_code"}
    Serialized = TRUE
    Faults = FALSE
SYMMETRY RequestSymmetry
INVARIANT CodeExchangedOnce
CHECK_DEADLOCK FALSE
