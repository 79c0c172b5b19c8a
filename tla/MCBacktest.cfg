SPECIFICATION Spec
CONSTANTS
    Quotes <- MCQuotes
    InitialCash = 20000
    FeeRate = 1
    FeeBase = 100
    Lots = 2
    TightSpread = 2
    WideSpread = 8
    MaxRecords = 3
INVARIANT
    ProfitIsAccountedFor
PROPERTY
    ExecutionsNeverGain
CHECK_DEADLOCK FALSE
