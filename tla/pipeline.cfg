SPECIFICATION FairSpec
CONSTANTS
    Key <- MCKey
    GroupOf <- MCGroupOf
    FirstFile = {"k1"}
    Unscorable = {"k2"}
    MaxDay = 3
    DataRetries = 1
    CheckRetries = 1
    MaxMishaps = 2
INVARIANTS
    TypeOK
    LateDataIsReported
    EditIsPosted
PROPERTIES
    SummariesKeepKeys
    CheckAfterIngestMatches
    DaysPass
