SPECIFICATION FairSpec
CONSTANTS
    Requests = {p1, p2}
    Users = {u1, u2}
    Pods = {k1, k2}
    NoPod = NoPod
    MaxStops = 2
    MaxFaults = 1
INVARIANTS
    TypeOK
    CommittedEventsWereHandled
    HandledAgainOnlyIfCut
    ProfilesOfAccounts
    FaultsCostOneProfileEach
PROPERTIES
    OffsetNeverGoesBack
    RefinesDelivery
    ProfileFollowsAccount
CHECK_DEADLOCK FALSE
