SPECIFICATION Spec
CONSTANTS
    Requests = {r1, r2, r3}
    Fingerprints = {f1, f2}
    HerdVerdicts = {TRUE, FALSE}
    Serialized = FALSE
    Failures = {"detector", "storage", "crash"}
INVARIANTS
    TypeOK
    PendingHasLeader
SYMMETRY Symmetry
