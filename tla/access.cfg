SPECIFICATION AccessSpec
CONSTANTS
    c1 = c1  cb1 = cb1
    Read = read  Write = write
    Requests = {p1, p2, p3, p4}
    Replicas = {}
    Users = {u1}
    Redirects = {cb1}
    Scopes = {read}
    Verifiers = {v1, v2}
    SeedUsers = {u1}
    SeedClients <- OneClient
    CodeTTL = 0
    RefreshTTL = 0
    AccessTTL = 0
    Leeway = 1
    MaxTime = 2
    Kinds = {"authorize", "authorization_code", "refresh_token", "revoke",
             "client_credentials"}
    Serialized = FALSE
    Faults = FALSE
SYMMETRY AccessSymmetry
INVARIANTS
    RefusalsAreJustified
    ServedCallsWereConsented
    AccessEndsAfterSession
CHECK_DEADLOCK FALSE
VIEW AccessView
