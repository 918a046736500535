SPECIFICATION Spec
CONSTANTS
    Record <- MCRecord
    Content <- MCContent
    ContentOf <- MCContentOf
    Digest <- MCDigest
    FeatureCount = 2
    Null = Null
    FirstFile <- StartOfFile
    Delivery <- GrowingFile
    MidRunDelivery = FALSE
    MaxActiveRuns = 2
    IngestRetries = 0
    CheckRetries = 1
    MaxFaults = 0
    ReadErrors = FALSE
    Run = {i1, i2, i3}
    Check = {}
SYMMETRY RunSymmetry
INVARIANTS
    TypeOK
    SettledClean
