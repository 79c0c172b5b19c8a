SPECIFICATION MetricsSpec
CONSTANTS
    Capacity = 16
    TokenUnit = 7
    FillRate = 4
    MaxTime = 9
INVARIANTS
    RateIsBounded
    ReadingIsBounded
PROPERTY
    RetryAfterIsAccurate
