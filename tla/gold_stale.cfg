SPECIFICATION Spec
CONSTANTS
    Key <- MCKey
    TimeOf <- MCTimeOf
    AmountOf <- MCAmountOf
    LabelsOf <- MCLabelsOf
    MaxActiveRuns = 2
    Retries = 0
    MaxRefreshes = 2
    Run = {r1, r2}
PROPERTY
    SummariesNeverShrink
