SPECIFICATION HerdSpec
CONSTANTS
    Requests = {r1, r2}
    Fingerprints = {f1}
    LimitersBurst = 2
    LimitersInterval = 2
    CoolDownInterval = 3
    Second = 3
    MaxFaults = 2
INVARIANTS
    RedisTypeOK
    EveryBucketExpires
    OutlivesDebt
    NeverMoreThanOrdinary
PROPERTIES
    KeepsBucket
    BlockLifted
