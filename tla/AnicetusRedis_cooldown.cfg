SPECIFICATION HerdSpec
CONSTANTS
    Requests = {r1, r2}
    Fingerprints = {f1}
    LimitersBurst = 1
    LimitersInterval = 2
    CoolDownInterval = 3
    Second = 3
    MaxFaults = 0
INVARIANT RequestDoneSucceeds
