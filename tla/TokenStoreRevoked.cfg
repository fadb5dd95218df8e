SPECIFICATION ReliableSpec
CONSTANTS
    None = None
    Users = {u1}
    Sids = {s1}
    Pairs = {t1, t2}
    Requests = {r1, r2}
    AccessTTL = 1
    RefreshTTL = 2
INVARIANT
    RevokedIsDead
