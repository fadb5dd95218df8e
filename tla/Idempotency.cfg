SPECIFICATION Spec
CONSTANTS
    None = None
    Refused = Refused
    docA = docA
    docB = docB
    docV = docV
    empty = empty
    given = given
    Keys = {k1, k2}
    Bodies <- SomeBodies
    Variables <- SomeVariables
    Hash <- VariablesOf
    Effects = {e1, e2}
    Attempts = {a1, a2}
    RecordTTL = 1
SYMMETRY Symmetry
INVARIANTS
    TypeOK
    RecordsBacked
    ReplayMatches
    OnceIfSerial
