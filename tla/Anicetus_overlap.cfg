SPECIFICATION Spec
CONSTANTS
    Requests = {r1, r2}
    Fingerprints = {f1, f2}
    HerdVerdicts = {TRUE}
    Serialized = FALSE
    Failures = {}
INVARIANT SingleLeader
