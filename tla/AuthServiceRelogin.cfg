SPECIFICATION CalmSpec
CONSTANTS
    None = None
    Users = {u1}
    Sids = {s1}
    Pairs = {t1}
    Requests = {r1, r2}
    AccessTTL = 1
    RefreshTTL = 1
    MaxPassword = 2
SYMMETRY Symmetry
INVARIANTS
    OldSessionsEnded
