SPECIFICATION Spec
CONSTANTS
    Fingerprints = {f1}
    Callers = {c1}
    LimitersBurst = 2
    LimitersInterval = 2
    CoolDownInterval = 2
INVARIANT CoolDownEnds
