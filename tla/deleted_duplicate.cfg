SPECIFICATION Spec
CONSTANTS
    Record <- AuditRecord
    Content <- AuditContent
    ContentOf <- AuditContentOf
    Digest <- MCDigest
    FeatureCount = 2
    Null = Null
    FirstFile <- RepeatedLine
    Delivery <- NoDelivery
    MidRunDelivery = FALSE
    MaxActiveRuns = 1
    IngestRetries = 0
    CheckRetries = 0
    MaxFaults = 1
    ReadErrors = FALSE
    Run = {i1}
    Check = {c1}
INVARIANT
    CleanMeansSameCount
