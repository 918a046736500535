SPECIFICATION Spec
CONSTANTS
    Key <- MCKey
    Item <- MCItem
    KeyOf <- MCKeyOf
    Batches <- TwoBatches
    Optimized = TRUE
    FirstRunAlone = TRUE
    MaxActiveRuns = 1
    Retries = 0
    MaxLoads = 2
    Run = {r1, r2}
PROPERTY
    ReplayKeepsRows
