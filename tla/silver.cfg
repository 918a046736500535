SPECIFICATION FairSpec
CONSTANTS
    Key <- MCKey
    Item <- MCItem
    KeyOf <- MCKeyOf
    Batches <- TwoBatches
    Optimized = TRUE
    FirstRunAlone = TRUE
    MaxActiveRuns = 2
    Retries = 1
    MaxLoads = 2
    Run = {r1, r2}
INVARIANTS
    TypeOK
    DoneCoversStart
PROPERTIES
    SilverIsView
    LoadedKeysArrive
