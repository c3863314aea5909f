SPECIFICATION Spec
CONSTANTS
    c1 = c1  cb1 = cb1  read = read
    Requests = {p1, p2, p3, p4}
    Replicas = {r1}
    Users = {u1, u2}
    Redirects = {cb1}
    Scopes = {read}
    Verifiers = {v1}
    SeedUsers = {u1}
    SeedClients <- OneClient
    CodeTTL = 1
    RefreshTTL = 0
    AccessTTL = 1
    MaxTime = 1
    Kinds = {"register", "authorize", "authorization_code", "refresh_token", "revoke",
             "client_credentials", "malformed"}
    Serialized = FALSE
    Faults = FALSE
SYMMETRY RequestSymmetry
INVARIANTS
    TypeOK
    SpentGrantsStaySpent
    EveryRequestCanGoOn
    SessionsSurviveRotation
CHECK_DEADLOCK FALSE
