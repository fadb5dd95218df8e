SPECIFICATION AuthSpec
CONSTANTS
    None = None
    Users = {u1}
    Sids = {s1, s2}
    Pairs = {t1, t2, t3}
    Requests = {r1, r2}
    AccessTTL = 1
    RefreshTTL = 1
    MaxPassword = 3
SYMMETRY Symmetry
INVARIANTS
    RegisteredOnce
    ForcedRelogin
