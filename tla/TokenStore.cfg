SPECIFICATION Spec
CONSTANTS
    None = None
    Users = {u1, u2}
    Sids = {s1, s2}
    Pairs = {t1, t2, t3}
    Requests = {r1, r2}
    AccessTTL = 1
    RefreshTTL = 2
SYMMETRY Symmetry
INVARIANTS
    TypeOK
    RefreshNeverForks
    OneAccessPerSession
    LiveTokenUsable
    IndexComplete
    OwnSessionsOnly
    BearerIsOwner
PROPERTIES
    RenewalsStopAtEnd
    RefinesLineage
