SPECIFICATION FairSpec
CONSTANTS
    ip = ip
    email = email
    Requests = {r1, r2}
    Keys <- LoginKeys
    Limit <- LoginLimit
    Window <- LoginWindow
    Routes <- LoginRoutes
INVARIANTS
    TypeOK
    LimitHolds
    RetryInWindow
    BurstBound
PROPERTY
    WindowEnds
