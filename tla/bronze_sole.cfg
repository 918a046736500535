SPECIFICATION FairSpec
CONSTANTS
    Record <- MCRecord
    Content <- MCContent
    ContentOf <- MCContentOf
    Digest <- MCDigest
    FeatureCount = 2
    Null = Null
    FirstFile <- FirstDay
    Delivery <- OtherFile
    MidRunDelivery = TRUE
    MaxActiveRuns = 1
    IngestRetries = 0
    CheckRetries = 1
    MaxFaults = 0
    ReadErrors = TRUE
    Run = {i1, i2}
    Check = {c1}
PROPERTY
    RunsSettle
    BronzeIsKeyedStore
