SPECIFICATION Spec
CONSTANTS
    c1 = c1  cb1 = cb1  read = read
    Requests = {p1, p2, p3, p4}
    Replicas = {}
    Users = {u1}
    Redirects = {cb1}
    Scopes = {read}
    Verifiers = {v1}
    SeedUsers = {u1}
    SeedClients <- OneClient
    CodeTTL = 1
    RefreshTTL = 1
    AccessTTL = 1
    MaxTime = 2
    Kinds = {"authorize", "authorization_code", "refresh_token", "revoke"}
    Serialized = TRUE
    Faults = TRUE
SYMMETRY RequestSymmetry
INVARIANTS
    TokensDescendFromSpentCode
    GrantsRedeemedOnce
    OneLiveTokenPerCode
PROPERTY RefinesLifecycle
CHECK_DEADLOCK FALSE
