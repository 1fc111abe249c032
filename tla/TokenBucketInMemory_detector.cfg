SPECIFICATION Spec
CONSTANTS
    Fingerprints = {f1}
    Callers = {c1, c2}
    LimitersBurst = 2
    LimitersInterval = 2
    CoolDownInterval = 2
INVARIANTS
    DetectorTypeOK
    BoundedBursts
PROPERTIES
    HerdOnlyWhenShort
    EvictionLosesNothing
    CoolDownLasts
SYMMETRY Symmetry
