SPECIFICATION Spec
CONSTANTS
    Record <- MCRecord
    Content <- MCContent
    ContentOf <- MCContentOf
    Digest <- MCDigest
    FeatureCount = 2
    Null = Null
    FirstFile <- FirstDay
    Delivery <- OtherFile
    MidRunDelivery = FALSE
    MaxActiveRuns = 1
    IngestRetries = 0
    CheckRetries = 0
    MaxFaults = 0
    ReadErrors = FALSE
    Run = {i1, i2}
    Check = {}
INVARIANT
    SettledClean
