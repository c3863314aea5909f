SPECIFICATION FailoverSpec
CONSTANTS
    c1 = c1  cb1 = cb1  read = read
    Requests = {p1, p2, p3, p4}
    Replicas = {}
    Users = {u1, u2}
    Redirects = {cb1}
    Scopes = {read}
    Verifiers = {v1}
    SeedUsers = {u1}
    SeedClients <- OneClient
    CodeTTL = 0
    RefreshTTL = 0
    AccessTTL = 0
    MaxTime = 0
    Kinds = {"register", "register_client", "client_credentials", "authorize",
             "authorization_code", "refresh_token"}
    Serialized = TRUE
    Faults = TRUE
    MaxLag = 3
    MaxFailovers = 1
SYMMETRY RequestSymmetry
VIEW FailoverView
INVARIANTS
    CodeReplayNeedsFailover
    SessionForksNeedFailover
    AccessWithinRegisteredScopes
CHECK_DEADLOCK FALSE
