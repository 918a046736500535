SPECIFICATION FairSpec
CONSTANTS
    Key <- TwoHours
    TimeOf <- TwoHoursTimeOf
    AmountOf <- TwoHoursAmountOf
    LabelsOf <- TwoHoursLabelsOf
    MaxActiveRuns = 2
    Retries = 0
    MaxRefreshes = 2
    Run = {r1, r2}
INVARIANTS
    TypeOK
    SummariesAgree
    NothingCountedTwice
PROPERTIES
    TotalsNeverShrink
    SignalsCoverSummary
    KeysReachGold
