SPECIFICATION Spec
CONSTANTS
    Keys = {k1, k2}
    Callers = {c1, c2}
    TTL = 2
INVARIANTS
    TypeOK
    NoLeak
    QueueKeysUnique
    ExpiresInTime
PROPERTIES
    ExpiresNotEarly
    MapEmpties
