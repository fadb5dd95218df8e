SPECIFICATION Spec
CONSTANTS
    None = None
    Users = {u1}
    Tokens = {t1, t2}
    Requesters = {q1, q2}
    Resetters = {p1, p2}
    TokenTTL = 1
SYMMETRY Symmetry
INVARIANTS
    TypeOK
    ChangeConsumes
    OneActiveToken
    SingleUseIfSerial
    RowLocksExclusive
    CirclesAreRaces
PROPERTIES
    NeverRevived
    RefinesLife
