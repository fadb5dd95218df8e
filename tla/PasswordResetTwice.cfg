SPECIFICATION Spec
CONSTANTS
    None = None
    Users = {u1}
    Tokens = {t1}
    Requesters = {q1}
    Resetters = {p1, p2}
    TokenTTL = 1
SYMMETRY Symmetry
INVARIANT
    SingleUse
