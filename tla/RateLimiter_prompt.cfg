SPECIFICATION Spec
CONSTANTS
    Callers = {c1, c2}
    Usages = {{"allow", "setlimit", "setburst"},
              {"allow", "setburst"},
              {"allow", "reserve", "cancel"},
              {"reserve", "cancel", "wait", "setburst"}}
    Sizes = {1, 3}
    Unit = 2
    Interval = 1
    Burst = 3
    Limits = {0, 1, 100}
    Bursts = {1, 3}
    Waits = {1, 1000}
    Inf = 100
    InfDuration = 1000
    Late = {{"allow", "setburst"}}
    MaxTime = 5
    MaxDebt = 1
SYMMETRY Symmetry
INVARIANTS
    TypeOK
    RateRespected
PROPERTY DeniedOnlyWhenShort
