SPECIFICATION Spec
CONSTANTS
    Record <- AuditRecord
    Content <- AuditContent
    ContentOf <- AuditContentOf
    Digest <- MCDigest
    FeatureCount = 2
    Null = Null
    FirstFile <- EitherFile
    Delivery <- NoDelivery
    MidRunDelivery = FALSE
    MaxActiveRuns = 1
    IngestRetries = 1
    CheckRetries = 0
    MaxFaults = 1
    ReadErrors = FALSE
    Run = {i1, i2}
    Check = {c1}
INVARIANTS
    NoFalseAlarm
    OneCommitPerKey
    CleanMeansSameRows
PROPERTY
    AlteredStaysAltered
