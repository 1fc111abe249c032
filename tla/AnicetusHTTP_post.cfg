SPECIFICATION HTTPSpec
CONSTANTS
    Requests = {r1, r2}
    Fingerprints = {f1}
    Origins = {f1}
    RewrittenAs <- SameFingerprint
    Fields = {"proto", "method", "host", "path", "query"}
    Headers <- NoNames
    Cookies <- NoNames
    BackendScheme <- Https
    BackendHost <- Backend
    Methods = {"GET", "POST"}
    HerdVerdicts = {TRUE, FALSE}
    Serialized = FALSE
    Failures = {}
INVARIANT OnlyGetAnalyzed
