SPECIFICATION Spec
CONSTANTS
    Requests = {r1, r2, r3}
    Fingerprints = {f1, f2}
    HerdVerdicts = {TRUE}
    Serialized = TRUE
    Failures = {"detector"}
INVARIANTS
    SingleLeader
    EntryFollowsOwner
PROPERTIES
    NeverReclosed
    KeepsPromise
