SPECIFICATION Spec
CONSTANTS
    None = None
    Refused = Refused
    NoVariables = NoVariables
    Users = {u1}
    Tokens = {t1, t2}
    Requesters = {q1, q2}
    Resetters = {p1}
    Keys = {k1, k2}
    Bodies <- ByVariable
    TokenTTL = 1
    RecordTTL = 1
SYMMETRY Symmetry
INVARIANTS
    LinkKept
